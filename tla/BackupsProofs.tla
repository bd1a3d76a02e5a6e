--------------------------- MODULE BackupsProofs ----------------------------
(***************************************************************************)
(* The backup service, for any number of instances, kinds, torrents,       *)
(* workers and requests and any capacity of the channel: its types, one    *)
(* backup per instance, exact inflight entries, no stranded runs, final    *)
(* statuses that stay, retention that spares the newest runs, and          *)
(* snapshots that a restore can use.                                       *)
(***************************************************************************)
EXTENDS Backups, FiniteSetTheorems, TLAPS

USE DEF files

(* The pcs at which a queuer has a run. *)
CarryPcs == {"send", "undo"} \cup ImportPcs

(* Which pcs a queuer and a worker have, and at which of them a run.       *)
PathOK ==
    /\ \A c \in Queuers : pc[c] \in {"idle", "next"} \cup QueuePcs \cup CleanPcs \cup ImportPcs
    /\ \A w \in Workers : pc[w] \in {"idle"} \cup WorkPcs \cup CleanPcs
    /\ \A c \in Queuers : run[c] = 0 <=> pc[c] \notin CarryPcs
    /\ \A w \in Workers : run[w] = 0 <=> pc[w] = "idle"
    /\ \A c \in Queuers : pc[c] = "create" => wantI[c] \in Instances /\ wantK[c] \in AllKinds
    /\ \A p \in Procs : IsFiniteSet(held[p])

Shape == TypeOK /\ PathOK

-----------------------------------------------------------------------------
LEMMA Bounds ==
    /\ Queuers \subseteq Procs /\ Workers \subseteq Procs /\ Callers \subseteq Queuers
    /\ Scheduler \in Queuers /\ Workers \cap Queuers = {}
    /\ 0 \in 0 .. MaxRuns /\ RunIds \subseteq 0 .. MaxRuns /\ RunIds \subseteq Nat \ {0}
    /\ 0 .. MaxRuns = RunIds \cup {0} /\ None \notin 0 .. MaxRuns
BY BackupsAssumption DEF Procs, Queuers, RunIds

(* The run of a process that is at work. *)
LEMMA RunKnown ==
    ASSUME Shape
    PROVE  /\ \A c \in Queuers : pc[c] \in CarryPcs => run[c] \in RunIds
           /\ \A w \in Workers : pc[w] # "idle" => run[w] \in RunIds
BY Bounds DEF Shape, TypeOK, PathOK

(* Return: the process is idle and has nothing; the others go on. *)
LEMMA ReturnShape ==
    ASSUME Shape, NEW p \in Procs, Return(p)
    PROVE  /\ pc' \in [Procs -> Pcs] /\ run' \in [Procs -> 0 .. MaxRuns]
           /\ wantI' \in [Procs -> Instances \cup {None}]
           /\ wantK' \in [Procs -> AllKinds \cup {None}]
           /\ todo' \in [Procs -> SUBSET Torrents] /\ held' \in [Procs -> SUBSET Items]
           /\ kinds' \in [Procs -> SUBSET Kinds]
           /\ batch' \in [Procs -> SUBSET RunIds] /\ rest' \in [Procs -> SUBSET RunIds]
           /\ doomed' \in [Procs -> SUBSET Blobs]
           /\ pc'[p] = "idle" /\ run'[p] = 0 /\ held'[p] = {} /\ todo'[p] = {} /\ batch'[p] = {}
           /\ \A q \in Procs \ {p} : /\ pc'[q] = pc[q] /\ run'[q] = run[q]
                                     /\ wantI'[q] = wantI[q] /\ wantK'[q] = wantK[q]
                                     /\ held'[q] = held[q] /\ todo'[q] = todo[q]
                                     /\ batch'[q] = batch[q] /\ doomed'[q] = doomed[q]
<1> USE Bounds DEF Return, Shape, TypeOK
<1>1. /\ pc' \in [Procs -> Pcs] /\ pc'[p] = "idle"
      /\ run' \in [Procs -> 0 .. MaxRuns] /\ run'[p] = 0
      /\ wantI' \in [Procs -> Instances \cup {None}]
      /\ wantK' \in [Procs -> AllKinds \cup {None}]
  BY DEF Pcs
<1>2. /\ todo' \in [Procs -> SUBSET Torrents] /\ held' \in [Procs -> SUBSET Items]
      /\ kinds' \in [Procs -> SUBSET Kinds]
      /\ batch' \in [Procs -> SUBSET RunIds] /\ rest' \in [Procs -> SUBSET RunIds]
      /\ doomed' \in [Procs -> SUBSET Blobs] /\ held'[p] = {} /\ todo'[p] = {} /\ batch'[p] = {}
  OBVIOUS
<1>3. \A q \in Procs \ {p} : /\ pc'[q] = pc[q] /\ run'[q] = run[q]
                             /\ wantI'[q] = wantI[q] /\ wantK'[q] = wantK[q]
                             /\ held'[q] = held[q] /\ todo'[q] = todo[q]
                             /\ batch'[q] = batch[q] /\ doomed'[q] = doomed[q]
  OBVIOUS
<1> QED BY <1>1, <1>2, <1>3

(* A process that returns keeps the shape, whatever else of the right type *)
(* it changes.                                                             *)
LEMMA ReturnKeeps ==
    ASSUME Shape, NEW p \in Procs, Return(p),
           UNCHANGED <<rinst, rkind, at, items, count, files, proc, crashes, exposed>>,
           (status \in [RunIds -> Statuses])',
           (inflight \in [Instances -> (0 .. MaxRuns) \cup {None}])',
           (jobs \in Seq(RunIds) /\ Len(jobs) <= JobsCap)',
           errors' \in Nat, unsaved' \subseteq RunIds,
           late' \in [Procs -> SUBSET RunIds]
    PROVE  Shape'
<1>1. TypeOK'
  BY ReturnShape DEF Shape, TypeOK
<1>2. PathOK'
  <2>1. \A q \in Procs : IsFiniteSet(held'[q])
    BY ReturnShape, FS_EmptySet DEF Shape, PathOK
  <2>2. \A q \in Procs \ {p} : /\ pc'[q] = pc[q] /\ run'[q] = run[q]
                                /\ wantI'[q] = wantI[q] /\ wantK'[q] = wantK[q]
    BY ReturnShape
  <2>3. pc'[p] = "idle" /\ run'[p] = 0
    BY ReturnShape
  <2> QED BY <2>1, <2>2, <2>3, Bounds DEF Shape, PathOK, CarryPcs, ImportPcs
<1> QED BY <1>1, <1>2 DEF Shape

(* So does one that only moves on. *)
LEMMA StepKeeps ==
    ASSUME Shape, NEW p \in Procs, NEW from, NEW to, Step(p, from, to),
           \/ /\ p \in Workers
              /\ from \in WorkPcs \cup CleanPcs /\ to \in WorkPcs \cup CleanPcs
           \/ /\ p \in Queuers /\ to \in {"next"} \cup QueuePcs \cup CleanPcs \cup ImportPcs
              /\ (from \in CarryPcs <=> to \in CarryPcs) /\ to # "create",
           UNCHANGED <<rinst, rkind, at, files, jobs, proc, crashes, exposed>>,
           (status \in [RunIds -> Statuses])',
           (items \in [RunIds -> SUBSET Items])', (count \in [RunIds -> Nat])',
           (inflight \in [Instances -> (0 .. MaxRuns) \cup {None}])',
           errors' \in Nat, unsaved' \subseteq RunIds,
           late' \in [Procs -> SUBSET RunIds]
    PROVE  Shape'
<1>1. /\ pc' \in [Procs -> Pcs] /\ pc'[p] = to /\ pc[p] = from
      /\ \A q \in Procs \ {p} : pc'[q] = pc[q]
      /\ UNCHANGED <<run, wantI, wantK, todo, held, kinds, batch, rest, doomed>>
  BY DEF Step, Goto, Shape, TypeOK, Pcs
<1>2. TypeOK'
  BY <1>1 DEF Shape, TypeOK
<1>3. PathOK'
  <2>1. CASE p \in Workers
    BY <1>1, <2>1, Bounds DEF Shape, PathOK, WorkPcs, CleanPcs
  <2>2. CASE p \in Queuers
    BY <1>1, <2>2, Bounds DEF Shape, PathOK
  <2> QED BY <2>1, <2>2
<1> QED BY <1>2, <1>3 DEF Shape

LEMMA StatusTyped ==
    ASSUME Shape, NEW r \in RunIds, NEW s \in Statuses, SetStatus(r, s)
    PROVE  status' \in [RunIds -> Statuses]
BY DEF Shape, TypeOK, SetStatus

LEMMA FaultTyped ==
    ASSUME Shape
    PROVE  /\ StoreError => errors' \in Nat /\ UNCHANGED <<proc, crashes>>
           /\ \A r \in RunIds :
                /\ Fault(r) => /\ errors' \in Nat /\ unsaved' \subseteq RunIds
                               /\ unsaved' = unsaved \cup {r} /\ UNCHANGED <<proc, crashes>>
                /\ UNCHANGED <<life, unsaved>> => /\ errors' \in Nat /\ unsaved' \subseteq RunIds
                                                  /\ UNCHANGED <<proc, crashes>>
BY DEF Shape, TypeOK, StoreError, Fault, life

LEMMA StoreTyped ==
    ASSUME Shape, NEW r \in RunIds, NEW its \in SUBSET Items, Store(r, its)
    PROVE  items' \in [RunIds -> SUBSET Items] /\ late' \in [Procs -> SUBSET RunIds]
<1>1. items' \in [RunIds -> SUBSET Items]
  BY DEF Store, Shape, TypeOK
<1>2. late' \in [Procs -> SUBSET RunIds]
  BY DEF Store, Shape, TypeOK
<1> QED BY <1>1, <1>2

(* Processes other than p keep their pc, run and wishes. *)
OthersStay(p) ==
    \A q \in Procs \ {p} : /\ pc'[q] = pc[q] /\ run'[q] = run[q] /\ held'[q] = held[q]
                           /\ wantI'[q] = wantI[q] /\ wantK'[q] = wantK[q]

(* The paths after a step of queuer c. *)
LEMMA QueuerPath ==
    ASSUME Shape, NEW c \in Queuers, OthersStay(c), IsFiniteSet(held'[c]),
           pc'[c] \in {"idle", "next"} \cup QueuePcs \cup CleanPcs \cup ImportPcs,
           run'[c] = 0 <=> pc'[c] \notin CarryPcs,
           pc'[c] = "create" => wantI'[c] \in Instances /\ wantK'[c] \in AllKinds
    PROVE  PathOK'
BY Bounds DEF Shape, PathOK, OthersStay

LEMMA WorkerPath ==
    ASSUME Shape, NEW w \in Workers, OthersStay(w), IsFiniteSet(held'[w]),
           pc'[w] \in WorkPcs \cup CleanPcs, run'[w] # 0
    PROVE  PathOK'
BY Bounds DEF Shape, PathOK, OthersStay, WorkPcs, CleanPcs

(* The shape after a step of p that fetches, copies or writes a blob. *)
LEMMA FileShape ==
    ASSUME Shape, NEW p \in Procs, NEW l, NEW H \in SUBSET Items, IsFiniteSet(H),
           \/ p \in Workers /\ pc[p] \in WorkPcs /\ l \in WorkPcs
           \/ p \in Queuers /\ pc[p] \in ImportPcs /\ l \in ImportPcs,
           pc' = [pc EXCEPT ![p] = l], held' = [held EXCEPT ![p] = H],
           todo' \in [Procs -> SUBSET Torrents], sought' \in [Procs -> SUBSET Items],
           blobs' \subseteq Blobs, torn' \subseteq Blobs, exposed' \subseteq RunIds,
           UNCHANGED <<rows, inflight, jobs, run, wantI, wantK, kinds, batch, rest, doomed,
                       life, unsaved, late>>
    PROVE  Shape'
<1>1. /\ pc' \in [Procs -> Pcs] /\ pc'[p] = l /\ held' \in [Procs -> SUBSET Items]
      /\ held'[p] = H /\ OthersStay(p)
  BY DEF Shape, TypeOK, Pcs, OthersStay
<1>2. TypeOK'
  BY <1>1 DEF Shape, TypeOK, rows, life
<1>3. PathOK'
  <2>1. CASE p \in Workers /\ pc[p] \in WorkPcs /\ l \in WorkPcs
    <3>1. run'[p] # 0
      BY <2>1 DEF Shape, PathOK, WorkPcs
    <3> QED BY <1>1, <2>1, <3>1, WorkerPath
  <2>2. CASE p \in Queuers /\ pc[p] \in ImportPcs /\ l \in ImportPcs
    <3>1. run'[p] # 0
      BY <2>2 DEF Shape, PathOK, CarryPcs
    <3> QED BY <1>1, <2>2, <3>1, QueuerPath DEF CarryPcs, ImportPcs
  <2> QED BY <2>1, <2>2
<1> QED BY <1>2, <1>3 DEF Shape

(* One more item in hand. *)
LEMMA HeldAdd ==
    ASSUME Shape, NEW p \in Procs, NEW t \in Torrents, NEW b \in Blobs
    PROVE  /\ held[p] \cup {<<t, b>>} \in SUBSET Items
           /\ IsFiniteSet(held[p] \cup {<<t, b>>}) /\ IsFiniteSet(held[p])
           /\ held[p] \in SUBSET Items /\ {<<t, b>>} \in SUBSET Items
<1>1. <<t, b>> \in Items /\ held[p] \in SUBSET Items
  BY DEF Items, Shape, TypeOK
<1>2. IsFiniteSet(held[p]) /\ IsFiniteSet(held[p] \cup {<<t, b>>})
  BY FS_AddElement DEF Shape, PathOK
<1> QED BY <1>1, <1>2

LEMMA UsersTyped ==
    ASSUME Shape
    PROVE  /\ \A q \in Procs : Relies(q) # {} => run[q] \in RunIds
           /\ \A b \in Blobs : Users(b) \subseteq RunIds
<1>1. ASSUME NEW q \in Procs, Relies(q) # {}
      PROVE  run[q] \in RunIds
  <2>1. pc[q] \in {"torrents", "write", "success", "items", "import", "copy", "insert"}
    BY <1>1 DEF Relies, Opens
  <2> QED BY <2>1, RunKnown, Bounds
          DEF Shape, PathOK, CarryPcs, ImportPcs, QueuePcs, CleanPcs, Procs
<1>2. ASSUME NEW b \in Blobs
      PROVE  Users(b) \subseteq RunIds
  BY <1>1 DEF Users
<1> QED BY <1>1, <1>2

(* The outcomes of os.WriteFile. *)
LEMMA WriteTyped ==
    ASSUME Shape, NEW b \in Blobs,
           FileWritten(b) \/ FileCut(b) \/ UNCHANGED <<blobs, torn, exposed>>
    PROVE  blobs' \subseteq Blobs /\ torn' \subseteq Blobs /\ exposed' \subseteq RunIds
<1>1. /\ blobs \subseteq Blobs /\ torn \subseteq Blobs /\ exposed \subseteq RunIds
      /\ Users(b) \subseteq RunIds
  BY UsersTyped DEF Shape, TypeOK
<1> QED BY <1>1 DEF FileWritten, FileCut

-----------------------------------------------------------------------------
(* The steps of QueueRun keep the shape. *)
LEMMA MarkShape ==
    ASSUME Shape, NEW c \in Queuers, NEW i \in Instances, NEW k \in AllKinds,
           MarkInstance(c, i, k)
    PROVE  Shape'
<1> USE Bounds DEF Shape, TypeOK
<1>1. /\ pc' = [pc EXCEPT ![c] = "create"] /\ inflight' = [inflight EXCEPT ![i] = 0]
      /\ wantI' = [wantI EXCEPT ![c] = i] /\ wantK' = [wantK EXCEPT ![c] = k]
      /\ UNCHANGED <<run, todo, held, kinds, batch, rest, doomed>> /\ pc[c] = "idle"
      /\ UNCHANGED <<rows, files, jobs, life, history>>
  BY DEF MarkInstance, Goto
<1>2. TypeOK'
  BY <1>1 DEF Pcs, QueuePcs, rows, life, history
<1>3. PathOK'
  <2>1. OthersStay(c) /\ pc'[c] = "create" /\ wantI'[c] = i /\ wantK'[c] = k
    BY <1>1 DEF OthersStay
  <2>2. run'[c] = 0 /\ IsFiniteSet(held'[c])
    BY <1>1 DEF PathOK, CarryPcs, ImportPcs
  <2> QED BY <2>1, <2>2, QueuerPath DEF CarryPcs, QueuePcs, ImportPcs
<1> QED BY <1>2, <1>3

LEMMA CreateShape ==
    ASSUME Shape, NEW c \in Queuers, CreateRun(c)
    PROVE  /\ Shape'
           /\ \E r \in RunIds :
                /\ IsNextId(r) /\ run'[c] = r /\ rinst'[r] = wantI[c] /\ rkind'[r] = wantK[c]
                /\ status' = [status EXCEPT ![r] = "pending"]
                /\ rinst' = [rinst EXCEPT ![r] = wantI[c]]
                /\ rkind' = [rkind EXCEPT ![r] = wantK[c]]
                /\ at' = [at EXCEPT ![r] = r]
                /\ inflight' = [inflight EXCEPT ![wantI[c]] = r]
           /\ OthersStay(c) /\ pc[c] = "create" /\ pc'[c] = "send"
           /\ held'[c] = held[c]
           /\ UNCHANGED <<items, count, files, jobs, todo, batch, doomed, life, history>>
<1> USE Bounds DEF Shape, TypeOK
<1>1. PICK r \in RunIds :
         /\ IsNextId(r)
         /\ status' = [status EXCEPT ![r] = "pending"]
         /\ rinst' = [rinst EXCEPT ![r] = wantI[c]]
         /\ rkind' = [rkind EXCEPT ![r] = wantK[c]]
         /\ at' = [at EXCEPT ![r] = r]
         /\ inflight' = [inflight EXCEPT ![wantI[c]] = r]
         /\ run' = [run EXCEPT ![c] = r]
  BY DEF CreateRun
<1>2. /\ pc' = [pc EXCEPT ![c] = "send"] /\ pc[c] = "create"
      /\ wantI' = [wantI EXCEPT ![c] = None] /\ wantK' = [wantK EXCEPT ![c] = None]
      /\ UNCHANGED <<items, count, files, jobs, todo, held, kinds, batch, rest, doomed,
                     life, history>>
  BY DEF CreateRun, Goto
<1>3. wantI[c] \in Instances /\ wantK[c] \in AllKinds
  BY <1>2 DEF PathOK
<1>4. /\ status' \in [RunIds -> Statuses] /\ rinst' \in [RunIds -> Instances \cup {None}]
      /\ rkind' \in [RunIds -> AllKinds \cup {None}] /\ at' \in [RunIds -> 0 .. MaxRuns]
      /\ inflight' \in [Instances -> (0 .. MaxRuns) \cup {None}]
      /\ run' \in [Procs -> 0 .. MaxRuns]
  BY <1>1, <1>3 DEF Statuses
<1>5. /\ pc' \in [Procs -> Pcs] /\ wantI' \in [Procs -> Instances \cup {None}]
      /\ wantK' \in [Procs -> AllKinds \cup {None}]
  BY <1>2 DEF Pcs, QueuePcs
<1>6. TypeOK'
  BY <1>2, <1>4, <1>5 DEF life, history
<1>7. OthersStay(c) /\ pc'[c] = "send" /\ run'[c] = r /\ held'[c] = held[c]
  BY <1>1, <1>2 DEF OthersStay
<1>8. PathOK'
  <2>1. IsFiniteSet(held'[c]) /\ run'[c] # 0
    BY <1>7 DEF PathOK
  <2> QED BY <1>7, <2>1, QueuerPath DEF CarryPcs, QueuePcs
<1>9. rinst'[r] = wantI[c] /\ rkind'[r] = wantK[c]
  BY <1>1
<1> QED BY <1>1, <1>2, <1>6, <1>7, <1>8, <1>9

LEMMA QueueShape ==
    ASSUME Shape, NEW c \in Queuers, QueueStep(c)
    PROVE  Shape'
<1> USE DEF rows, life, history
<1>0. c \in Procs
  BY Bounds
<1>1. CASE CreateRun(c)
  BY <1>1, CreateShape
<1>2. CASE CreateRunFails(c)
  <2>1. inflight' \in [Instances -> (0 .. MaxRuns) \cup {None}]
    BY <1>2 DEF CreateRunFails, Shape, TypeOK
  <2>2. Return(c) /\ UNCHANGED <<rows, files, jobs, life, history>>
    BY <1>2 DEF CreateRunFails
  <2> QED BY <1>0, <2>1, <2>2, ReturnKeeps DEF Shape, TypeOK
<1>3. CASE SendJob(c)
  <2>1. pc[c] = "send" /\ run[c] \in RunIds
    BY <1>3, RunKnown DEF SendJob, CarryPcs
  <2>2. jobs' \in Seq(RunIds) /\ Len(jobs') <= JobsCap
    BY <1>3, <2>1, BackupsAssumption DEF SendJob, Shape, TypeOK
  <2>3. Return(c) /\ UNCHANGED <<rows, files, inflight, life, history>>
    BY <1>3 DEF SendJob
  <2> QED BY <1>0, <2>2, <2>3, ReturnKeeps DEF Shape, TypeOK
<1>4. CASE CancelSend(c)
  <2>1. inflight' \in [Instances -> (0 .. MaxRuns) \cup {None}]
    BY <1>4 DEF CancelSend, Shape, TypeOK
  <2>2. Step(c, "send", "undo") /\ UNCHANGED <<rows, files, jobs, life, history>>
    BY <1>4 DEF CancelSend
  <2> QED BY <1>0, <2>1, <2>2, StepKeeps DEF Shape, TypeOK, CarryPcs, QueuePcs
<1>5. CASE DeleteCanceledRow(c)
  <2>1. run[c] \in RunIds
    BY <1>5, RunKnown DEF DeleteCanceledRow, CarryPcs
  <2>2. /\ status' \in [RunIds -> Statuses] /\ errors' \in Nat /\ unsaved' \subseteq RunIds
        /\ UNCHANGED <<proc, crashes>>
    BY <1>5, <2>1, StatusTyped, FaultTyped DEF DeleteCanceledRow, Statuses, Shape, TypeOK
  <2>3. Return(c) /\ UNCHANGED <<rinst, rkind, at, items, count, files, inflight, jobs, late,
                                 exposed>>
    BY <1>5 DEF DeleteCanceledRow
  <2> QED BY <1>0, <2>2, <2>3, ReturnKeeps DEF Shape, TypeOK
<1> QED BY <1>1, <1>2, <1>3, <1>4, <1>5 DEF QueueStep

(* The steps of a worker keep the shape. *)
LEMMA WorkShape ==
    ASSUME Shape, NEW w \in Workers, WorkStep(w)
    PROVE  Shape'
<1> USE DEF rows, life, history
<1>0. w \in Procs /\ Workers \subseteq Procs /\ IsFiniteSet(held[w])
  BY Bounds DEF Shape, PathOK
<1>r. pc[w] # "idle" => run[w] \in RunIds /\ run[w] # 0
  BY RunKnown, Bounds
<1>1. CASE TakeJob(w)
  <2>1. /\ jobs # <<>> /\ jobs' = Tail(jobs) /\ run' = [run EXCEPT ![w] = Head(jobs)]
        /\ pc' = [pc EXCEPT ![w] = "mark"]
        /\ UNCHANGED <<rows, files, inflight, wantI, wantK, todo, held, kinds, batch, rest,
                       doomed, life, history>>
    BY <1>1 DEF TakeJob, Goto
  <2>2. Head(jobs) \in RunIds /\ jobs' \in Seq(RunIds) /\ Len(jobs') <= JobsCap
    BY <2>1, BackupsAssumption DEF Shape, TypeOK
  <2>3. /\ run' \in [Procs -> 0 .. MaxRuns] /\ run'[w] \in RunIds
        /\ pc' \in [Procs -> Pcs] /\ pc'[w] = "mark" /\ OthersStay(w)
    BY <1>0, <2>1, <2>2, Bounds DEF Shape, TypeOK, Pcs, WorkPcs, OthersStay
  <2>4. TypeOK'
    BY <2>1, <2>2, <2>3 DEF Shape, TypeOK
  <2>5. PathOK'
    BY <1>0, <2>1, <2>3, WorkerPath, Bounds DEF WorkPcs
  <2> QED BY <2>4, <2>5 DEF Shape
<1>2. CASE MarkRunning(w)
  <2>1. /\ Step(w, "mark", "load") \/ Step(w, "mark", "clear")
        /\ UNCHANGED <<rinst, rkind, at, items, count, files, inflight, jobs, late, exposed>>
    BY <1>2 DEF MarkRunning
  <2>2. run[w] \in RunIds
    BY <1>r, <1>2 DEF MarkRunning
  <2>3. /\ status' \in [RunIds -> Statuses] /\ errors' \in Nat /\ unsaved' \subseteq RunIds
        /\ UNCHANGED <<proc, crashes>>
    BY <1>2, <2>2, StatusTyped, FaultTyped DEF MarkRunning, Statuses, Shape, TypeOK
  <2> QED BY <1>0, <2>1, <2>3, StepKeeps DEF Shape, TypeOK, WorkPcs
<1>3. CASE LoadTorrents(w)
  <2>1. PICK T \in SUBSET Torrents : todo' = [todo EXCEPT ![w] = T]
    BY <1>3 DEF LoadTorrents
  <2>2. /\ pc[w] = "load" /\ pc' = [pc EXCEPT ![w] = "torrents"]
        /\ UNCHANGED <<rows, files, inflight, jobs, run, wantI, wantK, held, kinds, batch,
                       rest, doomed, life, history>>
    BY <1>3 DEF LoadTorrents, Goto
  <2>3. /\ todo' \in [Procs -> SUBSET Torrents]
        /\ pc' \in [Procs -> Pcs] /\ pc'[w] = "torrents" /\ OthersStay(w)
    BY <1>0, <2>1, <2>2 DEF Shape, TypeOK, Pcs, WorkPcs, OthersStay
  <2>4. TypeOK'
    BY <2>2, <2>3 DEF Shape, TypeOK
  <2>5. PathOK'
    BY <1>0, <1>r, <2>2, <2>3, WorkerPath DEF WorkPcs
  <2> QED BY <2>4, <2>5 DEF Shape
<1>4. CASE BackUpTorrent(w)
  <2>1. PICK t \in todo[w] :
           /\ todo' = [todo EXCEPT ![w] = todo[w] \ {t}]
           /\ \/ \E b \in blobs \cup torn :
                   /\ held' = [held EXCEPT ![w] = held[w] \cup {<<t, b>>}]
                   /\ exposed' = IF b \in torn THEN exposed \cup {run[w]} ELSE exposed
                   /\ UNCHANGED <<pc, sought>>
              \/ \E b \in Blobs :
                   /\ pc' = [pc EXCEPT ![w] = "write"]
                   /\ sought' = [sought EXCEPT ![w] = {<<t, b>>}]
                   /\ UNCHANGED <<held, exposed>>
              \/ UNCHANGED <<held, pc, sought, exposed>>
    BY <1>4 DEF BackUpTorrent, Goto
  <2>2. /\ pc[w] = "torrents"
        /\ UNCHANGED <<rows, blobs, torn, inflight, jobs, run, wantI, wantK, kinds, batch,
                       rest, doomed, life, unsaved, late>>
    BY <1>4 DEF BackUpTorrent
  <2>3. /\ t \in Torrents /\ run[w] \in RunIds
        /\ pc \in [Procs -> Pcs] /\ held \in [Procs -> SUBSET Items]
        /\ sought \in [Procs -> SUBSET Items] /\ todo' \in [Procs -> SUBSET Torrents]
        /\ blobs' \subseteq Blobs /\ torn' \subseteq Blobs /\ exposed \subseteq RunIds
    BY <1>0, <1>r, <2>1, <2>2 DEF Shape, TypeOK
  <2>4. "torrents" \in WorkPcs /\ "write" \in WorkPcs
    BY DEF WorkPcs
  <2>5. ASSUME NEW b \in blobs \cup torn,
               held' = [held EXCEPT ![w] = held[w] \cup {<<t, b>>}],
               exposed' = IF b \in torn THEN exposed \cup {run[w]} ELSE exposed,
               UNCHANGED <<pc, sought>>
        PROVE  Shape'
    <3>1. b \in Blobs /\ exposed' \subseteq RunIds /\ pc' = [pc EXCEPT ![w] = "torrents"]
      BY <1>0, <2>2, <2>3, <2>5
    <3>2. held[w] \cup {<<t, b>>} \in SUBSET Items /\ IsFiniteSet(held[w] \cup {<<t, b>>})
      BY <1>0, <2>3, <3>1, HeldAdd
    <3> QED BY <1>0, <2>2, <2>3, <2>4, <2>5, <3>1, <3>2, FileShape
  <2>6. ASSUME NEW b \in Blobs, pc' = [pc EXCEPT ![w] = "write"],
               sought' = [sought EXCEPT ![w] = {<<t, b>>}], UNCHANGED <<held, exposed>>
        PROVE  Shape'
    <3>1. sought' \in [Procs -> SUBSET Items]
      BY <1>0, <2>3, <2>6, HeldAdd
    <3>2. held' = [held EXCEPT ![w] = held[w]] /\ held[w] \in SUBSET Items
      BY <1>0, <2>3, <2>6
    <3> QED BY <1>0, <2>2, <2>3, <2>4, <2>6, <3>1, <3>2, FileShape
  <2>7. CASE UNCHANGED <<held, pc, sought, exposed>>
    <3>1. /\ held' = [held EXCEPT ![w] = held[w]] /\ held[w] \in SUBSET Items
          /\ pc' = [pc EXCEPT ![w] = "torrents"]
          /\ sought' \in [Procs -> SUBSET Items] /\ exposed' \subseteq RunIds
      BY <1>0, <2>2, <2>3, <2>7
    <3>2. pc[w] \in WorkPcs
      BY <2>2, <2>4
    <3> QED BY <1>0, <2>2, <2>3, <2>4, <3>1, <3>2, FileShape
  <2> QED BY <2>1, <2>5, <2>6, <2>7
<1>4w. CASE WriteBlob(w)
  <2>1. PICK t \in Torrents, b \in Blobs :
           \/ /\ FileWritten(b) /\ pc' = [pc EXCEPT ![w] = "torrents"]
              /\ held' = [held EXCEPT ![w] = held[w] \cup {<<t, b>>}]
           \/ /\ FileCut(b) \/ UNCHANGED <<blobs, torn, exposed>>
              /\ pc' = [pc EXCEPT ![w] = "fail"] /\ UNCHANGED held
    BY <1>4w DEF WriteBlob, Goto
  <2>2. /\ pc[w] = "write" /\ sought' = [sought EXCEPT ![w] = {}]
        /\ UNCHANGED <<rows, inflight, jobs, run, wantI, wantK, todo, kinds, batch, rest,
                       doomed, life, unsaved, late>>
    BY <1>4w DEF WriteBlob
  <2>3. /\ blobs' \subseteq Blobs /\ torn' \subseteq Blobs /\ exposed' \subseteq RunIds
    BY <2>1, WriteTyped
  <2>4. /\ sought' \in [Procs -> SUBSET Items] /\ todo' \in [Procs -> SUBSET Torrents]
        /\ held = [held EXCEPT ![w] = held[w]]
    BY <1>0, <2>2 DEF Shape, TypeOK
  <2>5. {"torrents", "write", "fail"} \subseteq WorkPcs
    BY DEF WorkPcs
  <2>6. /\ held[w] \cup {<<t, b>>} \in SUBSET Items /\ IsFiniteSet(held[w] \cup {<<t, b>>})
        /\ held[w] \in SUBSET Items
    BY <1>0, HeldAdd
  <2>7. CASE /\ pc' = [pc EXCEPT ![w] = "torrents"]
             /\ held' = [held EXCEPT ![w] = held[w] \cup {<<t, b>>}]
    BY <1>0, <2>2, <2>3, <2>4, <2>5, <2>6, <2>7, FileShape
  <2>8. CASE pc' = [pc EXCEPT ![w] = "fail"] /\ UNCHANGED held
    <3>1. held' = [held EXCEPT ![w] = held[w]]
      BY <2>4, <2>8
    <3> QED BY <1>0, <2>2, <2>3, <2>4, <2>5, <2>6, <2>8, <3>1, FileShape
  <2> QED BY <2>1, <2>7, <2>8
<1>5. CASE TorrentsDone(w) \/ ExecuteFails(w)
  <2>1. /\ \E from \in {"load", "torrents"}, to \in {"success", "fail"} : Step(w, from, to)
        /\ UNCHANGED <<rows, files, inflight, jobs, life, history>>
    BY <1>5 DEF TorrentsDone, ExecuteFails
  <2> QED BY <1>0, <2>1, StepKeeps DEF Shape, TypeOK, WorkPcs
<1>6. CASE MarkFailed(w)
  <2>1. /\ Step(w, "fail", "clear")
        /\ UNCHANGED <<rinst, rkind, at, items, count, files, inflight, jobs, late, exposed>>
    BY <1>6 DEF MarkFailed
  <2>2. run[w] \in RunIds
    BY <1>r, <2>1 DEF Step
  <2>3. /\ status' \in [RunIds -> Statuses] /\ errors' \in Nat /\ unsaved' \subseteq RunIds
        /\ UNCHANGED <<proc, crashes>>
    BY <1>6, <2>2, StatusTyped, FaultTyped DEF MarkFailed, Statuses, Shape, TypeOK
  <2> QED BY <1>0, <2>1, <2>3, StepKeeps DEF Shape, TypeOK, WorkPcs
<1>7. CASE MarkSuccess(w)
  <2>1. /\ Step(w, "success", "items")
        /\ UNCHANGED <<rinst, rkind, at, items, files, inflight, jobs, late, exposed>>
    BY <1>7 DEF MarkSuccess
  <2>2. run[w] \in RunIds
    BY <1>r, <2>1 DEF Step
  <2>3. /\ status' \in [RunIds -> Statuses] /\ errors' \in Nat /\ unsaved' \subseteq RunIds
        /\ UNCHANGED <<proc, crashes>>
    BY <1>7, <2>2, StatusTyped, FaultTyped DEF MarkSuccess, Statuses, Shape, TypeOK
  <2>4. count' \in [RunIds -> Nat]
    <3>1. Cardinality(held[w]) \in Nat
      BY <1>0, FS_CardinalityType
    <3> QED BY <1>7, <2>2, <3>1 DEF MarkSuccess, Shape, TypeOK
  <2> QED BY <1>0, <2>1, <2>3, <2>4, StepKeeps DEF Shape, TypeOK, WorkPcs
<1>8. CASE InsertItems(w)
  <2>1. /\ pc[w] = "items" /\ pc' = [pc EXCEPT ![w] = "retain"]
        /\ held' = [held EXCEPT ![w] = {}] /\ kinds' = [kinds EXCEPT ![w] = Kinds]
        /\ UNCHANGED <<status, rinst, rkind, at, count, files, inflight, jobs, run, wantI,
                       wantK, todo, batch, rest, doomed, exposed>>
    BY <1>8 DEF InsertItems, Goto
  <2>2. run[w] \in RunIds /\ held[w] \in SUBSET Items
    BY <1>0, <1>r, <2>1 DEF Shape, TypeOK
  <2>3. /\ errors' \in Nat /\ unsaved' \subseteq RunIds /\ UNCHANGED <<proc, crashes>>
    BY <1>8, <2>2, FaultTyped DEF InsertItems
  <2>4. items' \in [RunIds -> SUBSET Items] /\ late' \in [Procs -> SUBSET RunIds]
    BY <1>8, <2>2, StoreTyped DEF InsertItems, Shape, TypeOK
  <2>5. /\ pc' \in [Procs -> Pcs] /\ held' \in [Procs -> SUBSET Items]
        /\ kinds' \in [Procs -> SUBSET Kinds] /\ OthersStay(w)
        /\ pc'[w] = "retain" /\ held'[w] = {}
    BY <1>0, <2>1 DEF Shape, TypeOK, Pcs, WorkPcs, OthersStay
  <2>6. TypeOK'
    BY <2>1, <2>3, <2>4, <2>5 DEF Shape, TypeOK
  <2>7. PathOK'
    BY <1>r, <2>1, <2>5, FS_EmptySet, WorkerPath DEF WorkPcs
  <2> QED BY <2>6, <2>7 DEF Shape
<1>9. CASE SelectSurplus(w)
  <2>1. PICK k \in kinds[w], S \in SUBSET RunIds :
           /\ kinds' = [kinds EXCEPT ![w] = kinds[w] \ {k}]
           /\ batch' = [batch EXCEPT ![w] = S]
           /\ pc' = [pc EXCEPT ![w] = IF S = {} THEN "retain" ELSE "collect"]
    BY <1>9 DEF SelectSurplus, Goto, Rows
  <2>2. /\ pc[w] = "retain"
        /\ UNCHANGED <<rows, files, inflight, jobs, run, wantI, wantK, todo, held, rest,
                       doomed, life, history>>
    BY <1>9 DEF SelectSurplus
  <2>4. /\ pc' \in [Procs -> Pcs] /\ batch' \in [Procs -> SUBSET RunIds]
        /\ kinds' \in [Procs -> SUBSET Kinds] /\ OthersStay(w)
        /\ pc'[w] \in {"retain", "collect"}
    BY <1>0, <2>1, <2>2 DEF Shape, TypeOK, Pcs, WorkPcs, CleanPcs, OthersStay
  <2>5. TypeOK'
    BY <2>2, <2>4 DEF Shape, TypeOK
  <2>6. PathOK'
    BY <1>0, <1>r, <2>2, <2>4, WorkerPath DEF WorkPcs, CleanPcs
  <2> QED BY <2>5, <2>6 DEF Shape
<1>10. CASE RetentionDone(w)
  <2>1. /\ Step(w, "retain", "clear") /\ errors' \in Nat /\ UNCHANGED <<proc, crashes>>
        /\ UNCHANGED <<rows, files, inflight, jobs, history>>
    BY <1>10, FaultTyped DEF RetentionDone, Shape, TypeOK
  <2> QED BY <1>0, <2>1, StepKeeps DEF Shape, TypeOK, WorkPcs
<1>11. CASE ClearInstance(w)
  <2>1. inflight' \in [Instances -> (0 .. MaxRuns) \cup {None}]
    BY <1>11 DEF ClearInstance, Shape, TypeOK
  <2>2. Return(w) /\ UNCHANGED <<rows, files, jobs, life, history>>
    BY <1>11 DEF ClearInstance
  <2> QED BY <1>0, <2>1, <2>2, ReturnKeeps DEF Shape, TypeOK
<1> QED BY <1>1, <1>2, <1>3, <1>4, <1>4w, <1>5, <1>6, <1>7, <1>8, <1>9, <1>10, <1>11 DEF WorkStep

(* The cleanup, for a request or a worker's retention. *)
LEMMA CleanShape ==
    ASSUME Shape, NEW p \in Workers \cup Callers, CleanStep(p)
    PROVE  Shape'
<1> USE DEF rows, life, history
<1>0. p \in Procs /\ (p \in Workers \/ p \in Queuers) /\ IsFiniteSet(held[p])
  BY Bounds DEF Shape, PathOK
<1>p. ASSUME OthersStay(p), UNCHANGED <<run, held>>, pc[p] \in CleanPcs,
             \/ p \in Workers /\ pc'[p] \in CleanPcs \cup {"retain"}
             \/ p \in Queuers /\ pc'[p] \in CleanPcs \cup {"next"}
      PROVE  PathOK'
  <2>1. CASE p \in Workers /\ pc'[p] \in CleanPcs \cup {"retain"}
    <3>1. run'[p] # 0
      BY <1>p, <2>1 DEF Shape, PathOK, CleanPcs
    <3> QED BY <1>0, <1>p, <2>1, <3>1, WorkerPath DEF WorkPcs
  <2>2. CASE p \in Queuers /\ pc'[p] \in CleanPcs \cup {"next"}
    <3>1. run'[p] = 0
      BY <1>p, <2>2 DEF Shape, PathOK, CleanPcs, CarryPcs, ImportPcs
    <3> QED BY <1>0, <1>p, <2>2, <3>1, QueuerPath DEF CarryPcs, CleanPcs, ImportPcs
  <2> QED BY <1>p, <2>1, <2>2
<1>1. CASE CollectItems(p)
  <2>1. /\ pc[p] = "collect"
        /\ \/ pc' = [pc EXCEPT ![p] = "rows"] /\ batch' = batch
           \/ /\ p \in Workers /\ pc' = [pc EXCEPT ![p] = "retain"]
              /\ batch' = [batch EXCEPT ![p] = {}]
        /\ \/ doomed' = doomed
           \/ doomed' = [doomed EXCEPT ![p] =
                {b \in Blobs : \E r \in batch[p], t \in Torrents : <<t, b>> \in items[r]}]
        /\ errors' \in Nat /\ UNCHANGED <<proc, crashes>>
        /\ UNCHANGED <<rows, files, inflight, jobs, run, wantI, wantK, todo, held, kinds,
                       rest, history>>
    BY <1>1, FaultTyped DEF CollectItems, Goto, Shape, TypeOK
  <2>2. /\ pc' \in [Procs -> Pcs] /\ batch' \in [Procs -> SUBSET RunIds]
        /\ OthersStay(p) /\ \/ pc'[p] = "rows"
                            \/ p \in Workers /\ pc'[p] = "retain"
    BY <1>0, <2>1 DEF Shape, TypeOK, Pcs, WorkPcs, CleanPcs, OthersStay
  <2>3. doomed' \in [Procs -> SUBSET Blobs]
    <3> DEFINE B == {b \in Blobs : \E r \in batch[p], t \in Torrents : <<t, b>> \in items[r]}
    <3>1. B \in SUBSET Blobs /\ doomed \in [Procs -> SUBSET Blobs]
      BY DEF Shape, TypeOK
    <3>2. doomed' = doomed \/ doomed' = [doomed EXCEPT ![p] = B]
      BY <2>1
    <3> HIDE DEF B
    <3> QED BY <3>1, <3>2
  <2>4. TypeOK'
    BY <2>1, <2>2, <2>3 DEF Shape, TypeOK
  <2>5. PathOK'
    BY <1>0, <1>p, <2>1, <2>2 DEF CleanPcs
  <2> QED BY <2>4, <2>5 DEF Shape
<1>2. CASE CleanupRuns(p)
  <2>1. /\ Step(p, "rows", "count") /\ errors' \in Nat /\ UNCHANGED <<proc, crashes>>
        /\ UNCHANGED <<rinst, rkind, at, count, files, inflight, jobs, history>>
    BY <1>2, FaultTyped DEF CleanupRuns, Shape, TypeOK
  <2>2. status' \in [RunIds -> Statuses]
    BY <1>2 DEF CleanupRuns, Shape, TypeOK, Statuses
  <2>3. items' \in [RunIds -> SUBSET Items]
    BY <1>2 DEF CleanupRuns, Shape, TypeOK
  <2> QED BY <1>0, <2>1, <2>2, <2>3, StepKeeps
          DEF Shape, TypeOK, CleanPcs, CarryPcs, ImportPcs
<1>3. CASE CountReferences(p)
  <2>1. /\ pc[p] = "count" /\ pc' = [pc EXCEPT ![p] = "unlink"]
        /\ doomed' = doomed \/ doomed' = [doomed EXCEPT ![p] = doomed[p] \ Referenced]
        /\ late' = [late EXCEPT ![p] = {}] \/ late' = [late EXCEPT ![p] = RunIds]
        /\ errors' \in Nat /\ UNCHANGED <<proc, crashes>>
        /\ UNCHANGED <<rows, files, inflight, jobs, run, wantI, wantK, todo, held, kinds,
                       batch, rest, unsaved, exposed>>
    BY <1>3, FaultTyped DEF CountReferences, Goto, Shape, TypeOK
  <2>2. /\ pc' \in [Procs -> Pcs] /\ doomed' \in [Procs -> SUBSET Blobs]
        /\ late' \in [Procs -> SUBSET RunIds] /\ OthersStay(p) /\ pc'[p] = "unlink"
    <3>1. pc' \in [Procs -> Pcs] /\ OthersStay(p) /\ pc'[p] = "unlink"
      BY <1>0, <2>1 DEF Shape, TypeOK, Pcs, CleanPcs, OthersStay
    <3>2. doomed[p] \ Referenced \in SUBSET Blobs /\ doomed \in [Procs -> SUBSET Blobs]
      BY <1>0 DEF Shape, TypeOK
    <3>3. doomed' \in [Procs -> SUBSET Blobs]
      BY <2>1, <3>2
    <3>4. late' \in [Procs -> SUBSET RunIds]
      BY <2>1 DEF Shape, TypeOK
    <3> QED BY <3>1, <3>3, <3>4
  <2>3. TypeOK'
    BY <2>1, <2>2 DEF Shape, TypeOK
  <2>4. PathOK'
    BY <1>0, <1>p, <2>1, <2>2 DEF CleanPcs
  <2> QED BY <2>3, <2>4 DEF Shape
<1>4. CASE UnlinkBlobs(p)
  <2>1. /\ pc[p] = "unlink"
        /\ pc' = [pc EXCEPT ![p] = IF p \in Workers THEN "retain" ELSE "next"]
        /\ blobs' = blobs \ doomed[p] /\ torn' = torn \ doomed[p]
        /\ late' = [late EXCEPT ![p] = {}]
        /\ batch' = [batch EXCEPT ![p] = {}] /\ doomed' = [doomed EXCEPT ![p] = {}]
        /\ UNCHANGED <<rows, sought, inflight, jobs, run, wantI, wantK, todo, held, kinds,
                       rest, life, unsaved>>
    BY <1>4 DEF UnlinkBlobs, Goto
  <2>2. exposed' \subseteq RunIds
    <3>1. \A q \in Procs : Relies(q) # {} => run[q] \in RunIds
      BY UsersTyped
    <3>2. late[p] \subseteq RunIds /\ exposed \subseteq RunIds
      BY <1>0 DEF Shape, TypeOK
    <3> QED BY <1>4, <3>1, <3>2 DEF UnlinkBlobs
  <2>3. /\ pc' \in [Procs -> Pcs] /\ doomed' \in [Procs -> SUBSET Blobs]
        /\ batch' \in [Procs -> SUBSET RunIds] /\ blobs' \subseteq Blobs /\ torn' \subseteq Blobs
        /\ late' \in [Procs -> SUBSET RunIds] /\ OthersStay(p)
        /\ pc'[p] = IF p \in Workers THEN "retain" ELSE "next"
    BY <1>0, <2>1 DEF Shape, TypeOK, Pcs, WorkPcs, OthersStay
  <2>4. TypeOK'
    BY <2>1, <2>2, <2>3 DEF Shape, TypeOK
  <2>5. PathOK'
    BY <1>0, <1>p, <2>1, <2>3 DEF CleanPcs
  <2> QED BY <2>4, <2>5 DEF Shape
<1> QED BY <1>1, <1>2, <1>3, <1>4 DEF CleanStep

(* Deletions and imports by requests. *)
LEMMA CallShape ==
    ASSUME Shape, NEW c \in Callers, CallStep(c) \/ Request(c)
    PROVE  Shape'
<1> USE DEF rows, life, history
<1>0. c \in Procs /\ c \in Queuers /\ IsFiniteSet(held[c])
  BY Bounds DEF Shape, PathOK
<1>p. ASSUME OthersStay(c), UNCHANGED <<run, held>>, pc[c] \in {"idle", "next"},
             pc'[c] \in {"next", "collect"}
      PROVE  PathOK'
  <2>1. run'[c] = 0
    BY <1>0, <1>p DEF Shape, PathOK, CarryPcs, ImportPcs
  <2> QED BY <1>0, <1>p, <2>1, QueuerPath DEF CarryPcs, CleanPcs, ImportPcs
<1>1. CASE QueueStep(c)
  BY <1>0, <1>1, QueueShape
<1>2. CASE DeleteNext(c)
  <2>1. PICK r \in rest[c] :
           /\ rest' = [rest EXCEPT ![c] = rest[c] \ {r}]
           /\ batch' = [batch EXCEPT ![c] = IF Exists(r) THEN {r} ELSE {}]
           /\ pc' = [pc EXCEPT ![c] = IF Exists(r) THEN "collect" ELSE "next"]
    BY <1>2 DEF DeleteNext, Goto
  <2>2. /\ pc[c] = "next"
        /\ UNCHANGED <<rows, files, inflight, jobs, run, wantI, wantK, todo, held, kinds,
                       doomed, life, history>>
    BY <1>2 DEF DeleteNext
  <2>3. r \in RunIds
    BY <1>0, <2>1 DEF Shape, TypeOK
  <2>4. /\ pc' \in [Procs -> Pcs] /\ batch' \in [Procs -> SUBSET RunIds]
        /\ rest' \in [Procs -> SUBSET RunIds] /\ OthersStay(c)
        /\ pc'[c] \in {"next", "collect"}
    BY <1>0, <2>1, <2>2, <2>3 DEF Shape, TypeOK, Pcs, CleanPcs, OthersStay
  <2>5. TypeOK'
    BY <2>2, <2>4 DEF Shape, TypeOK
  <2>6. PathOK'
    BY <1>p, <2>2, <2>4
  <2> QED BY <2>5, <2>6 DEF Shape
<1>3. CASE EndDelete(c)
  <2>1. Return(c) /\ UNCHANGED <<rows, files, inflight, jobs, life, history>>
    BY <1>3 DEF EndDelete
  <2> QED BY <1>0, <2>1, ReturnKeeps DEF Shape, TypeOK
<1>4. ASSUME NEW R \in SUBSET RunIds, DeleteRuns(c, R)
      PROVE  Shape'
  <2>1. /\ pc[c] = "idle" /\ pc' = [pc EXCEPT ![c] = "next"]
        /\ rest' = [rest EXCEPT ![c] = R]
        /\ UNCHANGED <<rows, files, inflight, jobs, run, wantI, wantK, todo, held, kinds,
                       batch, doomed, life, history>>
    BY <1>4 DEF DeleteRuns, Goto
  <2>2. /\ pc' \in [Procs -> Pcs] /\ rest' \in [Procs -> SUBSET RunIds]
        /\ OthersStay(c) /\ pc'[c] = "next"
    BY <1>0, <2>1 DEF Shape, TypeOK, Pcs, OthersStay
  <2>3. TypeOK'
    BY <2>1, <2>2 DEF Shape, TypeOK
  <2>4. PathOK'
    BY <1>p, <2>1, <2>2
  <2> QED BY <2>3, <2>4 DEF Shape
<1>5. ASSUME NEW i \in Instances, NEW k \in AllKinds, ImportManifest(c, i, k)
      PROVE  Shape'
  <2>1. PICK r \in RunIds, a \in 0 .. MaxRuns :
           /\ status' = [status EXCEPT ![r] = "running"]
           /\ rinst' = [rinst EXCEPT ![r] = i] /\ rkind' = [rkind EXCEPT ![r] = k]
           /\ at' = [at EXCEPT ![r] = a]
           /\ run' = [run EXCEPT ![c] = r]
    BY <1>5 DEF ImportManifest
  <2>2. /\ pc' = [pc EXCEPT ![c] = "import"]
        /\ UNCHANGED <<items, count, files, inflight, jobs, wantI, wantK, todo, held, kinds,
                       batch, rest, doomed, life, history>>
    BY <1>5 DEF ImportManifest, Goto
  <2>3. /\ status' \in [RunIds -> Statuses] /\ rinst' \in [RunIds -> Instances \cup {None}]
        /\ rkind' \in [RunIds -> AllKinds \cup {None}] /\ at' \in [RunIds -> 0 .. MaxRuns]
    BY <2>1 DEF Shape, TypeOK, Statuses
  <2>4. /\ pc' \in [Procs -> Pcs] /\ run' \in [Procs -> 0 .. MaxRuns]
        /\ OthersStay(c) /\ pc'[c] = "import" /\ run'[c] # 0
    BY <1>0, <2>1, <2>2, Bounds DEF Shape, TypeOK, Pcs, ImportPcs, OthersStay
  <2>5. TypeOK'
    BY <2>2, <2>3, <2>4 DEF Shape, TypeOK
  <2>6. PathOK'
    BY <1>0, <2>2, <2>4, QueuerPath DEF CarryPcs, ImportPcs
  <2> QED BY <2>5, <2>6 DEF Shape
<1>i. {"import", "copy", "insert", "download", "fetch", "complete"} \subseteq ImportPcs
  BY DEF ImportPcs
<1>t. /\ pc \in [Procs -> Pcs] /\ todo \in [Procs -> SUBSET Torrents]
      /\ sought \in [Procs -> SUBSET Items] /\ held \in [Procs -> SUBSET Items]
      /\ held = [held EXCEPT ![c] = held[c]] /\ held[c] \in SUBSET Items
      /\ blobs \subseteq Blobs /\ torn \subseteq Blobs /\ exposed \subseteq RunIds
  BY <1>0 DEF Shape, TypeOK
<1>6. CASE ReadManifest(c)
  <2>1. PICK t \in Torrents, b \in Blobs :
           \/ /\ blobs' = blobs \ {b} /\ torn' = torn \cup {b}
              /\ sought' = [sought EXCEPT ![c] = {<<t, b>>}]
              /\ pc' = [pc EXCEPT ![c] = "copy"] /\ UNCHANGED <<held, todo>>
           \/ /\ held' = [held EXCEPT ![c] = held[c] \cup {<<t, b>>}]
              /\ todo' = [todo EXCEPT ![c] = todo[c] \cup {t}]
              /\ UNCHANGED <<files, pc>>
    BY <1>6 DEF ReadManifest, Goto
  <2>2. /\ pc[c] = "import"
        /\ UNCHANGED <<rows, inflight, jobs, run, wantI, wantK, kinds, batch, rest, doomed,
                       life, unsaved, late, exposed>>
    BY <1>6 DEF ReadManifest
  <2>3. /\ held[c] \cup {<<t, b>>} \in SUBSET Items /\ IsFiniteSet(held[c] \cup {<<t, b>>})
        /\ {<<t, b>>} \in SUBSET Items
    BY <1>0, HeldAdd
  <2>4. CASE /\ blobs' = blobs \ {b} /\ torn' = torn \cup {b}
             /\ sought' = [sought EXCEPT ![c] = {<<t, b>>}]
             /\ pc' = [pc EXCEPT ![c] = "copy"] /\ UNCHANGED <<held, todo>>
    <3>1. /\ sought' \in [Procs -> SUBSET Items] /\ todo' \in [Procs -> SUBSET Torrents]
          /\ blobs' \subseteq Blobs /\ torn' \subseteq Blobs /\ exposed' \subseteq RunIds
          /\ held' = [held EXCEPT ![c] = held[c]]
      BY <1>t, <2>2, <2>3, <2>4
    <3> QED BY <1>0, <1>i, <1>t, <2>2, <2>4, <3>1, FileShape
  <2>5. CASE /\ held' = [held EXCEPT ![c] = held[c] \cup {<<t, b>>}]
             /\ todo' = [todo EXCEPT ![c] = todo[c] \cup {t}]
             /\ UNCHANGED <<files, pc>>
    <3>1. /\ sought' \in [Procs -> SUBSET Items] /\ todo' \in [Procs -> SUBSET Torrents]
          /\ blobs' \subseteq Blobs /\ torn' \subseteq Blobs /\ exposed' \subseteq RunIds
          /\ pc' = [pc EXCEPT ![c] = "import"]
      BY <1>0, <1>t, <2>2, <2>5
    <3>2. pc[c] \in ImportPcs /\ "import" \in ImportPcs
      BY <1>i, <2>2
    <3>3. held' = [held EXCEPT ![c] = held[c] \cup {<<t, b>>}]
      BY <2>5
    <3> QED BY <1>0, <2>2, <2>3, <3>1, <3>2, <3>3, FileShape
  <2> QED BY <2>1, <2>4, <2>5
<1>6c. CASE CopyBlob(c)
  <2>1. PICK t \in Torrents, b \in Blobs :
           /\ held' = [held EXCEPT ![c] = held[c] \cup {<<t, b>>}]
           /\ UNCHANGED todo \/ todo' = [todo EXCEPT ![c] = todo[c] \cup {t}]
           /\ blobs' \in {blobs, blobs \cup {b}, blobs \ {b}} /\ torn' \in {torn, torn \ {b}}
           /\ exposed' \in {exposed, exposed \cup Users(b)}
    BY <1>6c DEF CopyBlob, FileWritten
  <2>2. /\ pc[c] = "copy" /\ pc' = [pc EXCEPT ![c] = "import"]
        /\ sought' = [sought EXCEPT ![c] = {}]
        /\ UNCHANGED <<rows, inflight, jobs, run, wantI, wantK, kinds, batch, rest, doomed,
                       life, unsaved, late>>
    BY <1>6c DEF CopyBlob, Goto
  <2>3. held[c] \cup {<<t, b>>} \in SUBSET Items /\ IsFiniteSet(held[c] \cup {<<t, b>>})
    BY <1>0, HeldAdd
  <2>4. run[c] \in RunIds /\ Users(b) \subseteq RunIds
    BY <1>0, <1>i, <2>2, RunKnown, UsersTyped DEF CarryPcs
  <2>4a. todo' \in [Procs -> SUBSET Torrents]
    BY <1>t, <2>1
  <2>4b. blobs' \subseteq Blobs /\ torn' \subseteq Blobs
    BY <1>t, <2>1
  <2>5. /\ todo' \in [Procs -> SUBSET Torrents] /\ sought' \in [Procs -> SUBSET Items]
        /\ blobs' \subseteq Blobs /\ torn' \subseteq Blobs
    BY <1>t, <2>2, <2>4a, <2>4b
  <2>6. exposed' \subseteq RunIds
    BY <1>t, <2>1, <2>4
  <2>7. held' = [held EXCEPT ![c] = held[c] \cup {<<t, b>>}]
    BY <2>1
  <2> QED BY <1>0, <1>i, <2>2, <2>3, <2>5, <2>6, <2>7, FileShape
<1>6d. CASE ManifestDone(c)
  <2>1. /\ Step(c, "import", "insert")
        /\ UNCHANGED <<rows, files, inflight, jobs, life, history>>
    BY <1>6d DEF ManifestDone
  <2> QED BY <1>0, <2>1, StepKeeps DEF Shape, TypeOK, CarryPcs, ImportPcs
<1>7. CASE ImportFails(c)
  <2>1. run[c] \in RunIds
    BY <1>0, <1>7, RunKnown DEF ImportFails, CarryPcs, ImportPcs
  <2>2. /\ Return(c) /\ unsaved' \subseteq RunIds
        /\ UNCHANGED <<rows, files, inflight, jobs, life, late, exposed>>
    BY <1>7, <2>1 DEF ImportFails, Shape, TypeOK
  <2> QED BY <1>0, <2>2, ReturnKeeps DEF Shape, TypeOK
<1>8. CASE ImportItems(c)
  <2>1. /\ pc[c] = "insert"
        /\ pc' = [pc EXCEPT ![c] = IF todo[c] = {} THEN "finish" ELSE "download"]
        /\ Store(run[c], held[c])
        /\ count' = [count EXCEPT ![run[c]] = Cardinality(held[c])]
        /\ exposed' = IF todo[c] = {} THEN exposed ELSE exposed \cup {run[c]}
        /\ UNCHANGED <<status, rinst, rkind, at, files, inflight, jobs, run, wantI, wantK,
                       todo, held, kinds, batch, rest, doomed, life, unsaved>>
    BY <1>8 DEF ImportItems, Goto
  <2>2. run[c] \in RunIds /\ held[c] \in SUBSET Items
    BY <1>0, <2>1, RunKnown DEF CarryPcs, ImportPcs, Shape, TypeOK
  <2>3. items' \in [RunIds -> SUBSET Items] /\ late' \in [Procs -> SUBSET RunIds]
    BY <2>1, <2>2, StoreTyped
  <2>4. /\ count' \in [RunIds -> Nat] /\ exposed' \subseteq RunIds
    <3>1. Cardinality(held[c]) \in Nat
      BY <1>0, FS_CardinalityType
    <3> QED BY <2>1, <2>2, <3>1 DEF Shape, TypeOK
  <2>5. /\ pc' \in [Procs -> Pcs] /\ pc'[c] \in {"finish", "download"} /\ OthersStay(c)
    BY <1>0, <2>1 DEF Shape, TypeOK, Pcs, ImportPcs, OthersStay
  <2>6. TypeOK'
    BY <2>1, <2>3, <2>4, <2>5 DEF Shape, TypeOK
  <2>7. PathOK'
    BY <1>0, <2>1, <2>2, <2>5, Bounds, QueuerPath DEF CarryPcs, ImportPcs
  <2> QED BY <2>6, <2>7 DEF Shape
<1>9. CASE DownloadMissing(c)
  <2>1. PICK t \in todo[c], b \in Blobs :
           /\ todo' = [todo EXCEPT ![c] = todo[c] \ {t}]
           /\ \/ /\ pc' = [pc EXCEPT ![c] = IF todo'[c] = {} THEN "complete" ELSE "download"]
                 /\ UNCHANGED sought
              \/ /\ pc' = [pc EXCEPT ![c] = "fetch"]
                 /\ sought' = [sought EXCEPT ![c] = {<<t, b>>}]
    BY <1>9 DEF DownloadMissing, Goto
  <2>2. /\ pc[c] = "download"
        /\ UNCHANGED <<rows, blobs, torn, inflight, jobs, run, wantI, wantK, held, kinds,
                       batch, rest, doomed, life, unsaved, late, exposed>>
    BY <1>9 DEF DownloadMissing
  <2>3. PICK l \in {"complete", "download", "fetch"} : pc' = [pc EXCEPT ![c] = l]
    BY <2>1
  <2>4. t \in Torrents
    BY <1>0, <1>t, <2>1
  <2>5. {<<t, b>>} \in SUBSET Items
    BY <1>0, <2>4, HeldAdd
  <2>6. /\ todo' \in [Procs -> SUBSET Torrents] /\ sought' \in [Procs -> SUBSET Items]
        /\ held' = [held EXCEPT ![c] = held[c]]
        /\ blobs' \subseteq Blobs /\ torn' \subseteq Blobs /\ exposed' \subseteq RunIds
    BY <1>0, <1>t, <2>1, <2>2, <2>5
  <2> QED BY <1>0, <1>i, <1>t, <2>2, <2>3, <2>6, FileShape
<1>9f. CASE FetchBlob(c)
  <2>1. PICK b \in Blobs : FileWritten(b) \/ FileCut(b) \/ UNCHANGED <<blobs, torn, exposed>>
    BY <1>9f DEF FetchBlob
  <2>2. /\ pc[c] = "fetch" /\ sought' = [sought EXCEPT ![c] = {}]
        /\ UNCHANGED <<rows, inflight, jobs, run, wantI, wantK, todo, held, kinds, batch, rest,
                       doomed, life, unsaved, late>>
    BY <1>9f DEF FetchBlob
  <2>3. PICK l \in {"complete", "download"} : pc' = [pc EXCEPT ![c] = l]
    BY <1>9f DEF FetchBlob, Goto
  <2>4. blobs' \subseteq Blobs /\ torn' \subseteq Blobs /\ exposed' \subseteq RunIds
    BY <2>1, WriteTyped
  <2>5. /\ todo' \in [Procs -> SUBSET Torrents] /\ sought' \in [Procs -> SUBSET Items]
        /\ held' = [held EXCEPT ![c] = held[c]]
    BY <1>t, <2>2
  <2>6. pc[c] \in ImportPcs /\ l \in ImportPcs
    BY <1>i, <2>2, <2>3
  <2> QED BY <1>0, <1>t, <2>2, <2>3, <2>4, <2>5, <2>6, FileShape
<1>10. CASE CompleteImport(c)
  <2>1. run[c] \in RunIds
    BY <1>0, <1>10, RunKnown DEF CompleteImport, CarryPcs, ImportPcs
  <2>2. /\ status' \in [RunIds -> Statuses] /\ errors' \in Nat /\ unsaved' \subseteq RunIds
        /\ UNCHANGED <<proc, crashes>>
    BY <1>10, <2>1, StatusTyped, FaultTyped DEF CompleteImport, Statuses, Shape, TypeOK
  <2>3. Return(c) /\ UNCHANGED <<rinst, rkind, at, items, count, files, inflight, jobs, late,
                                 exposed>>
    BY <1>10 DEF CompleteImport
  <2> QED BY <1>0, <2>2, <2>3, ReturnKeeps DEF Shape, TypeOK
<1>11. CASE Request(c)
  BY <1>0, <1>4, <1>5, <1>11, MarkShape DEF Request, DeleteAllRuns, DeleteRun
<1> QED BY <1>1, <1>2, <1>3, <1>6, <1>6c, <1>6d, <1>7, <1>8, <1>9, <1>9f, <1>10, <1>11
        DEF CallStep, ImportStep

LEMMA LifeShape ==
    ASSUME Shape, Crash \/ Start
    PROVE  Shape'
<1> USE DEF rows, history
<1>1. CASE Crash
  <2>1. unsaved' \subseteq RunIds
    <3>1. Halfway \subseteq RunIds
      BY RunKnown DEF Halfway
    <3> QED BY <1>1, <3>1 DEF Crash, Shape, TypeOK
  <2>2. /\ inflight' \in [Instances -> (0 .. MaxRuns) \cup {None}]
        /\ jobs' \in Seq(RunIds) /\ Len(jobs') <= JobsCap
        /\ proc' \in {"up", "down"} /\ crashes' \in Nat
    BY <1>1, BackupsAssumption DEF Crash, Shape, TypeOK
  <2>3. /\ pc' \in [Procs -> Pcs] /\ run' \in [Procs -> 0 .. MaxRuns]
        /\ wantI' \in [Procs -> Instances \cup {None}]
        /\ wantK' \in [Procs -> AllKinds \cup {None}]
        /\ \A p \in Procs : pc'[p] = "idle" /\ run'[p] = 0
    BY <1>1, Bounds DEF Crash, Pcs
  <2>4. /\ todo' \in [Procs -> SUBSET Torrents] /\ held' \in [Procs -> SUBSET Items]
        /\ kinds' \in [Procs -> SUBSET Kinds] /\ batch' \in [Procs -> SUBSET RunIds]
        /\ rest' \in [Procs -> SUBSET RunIds] /\ doomed' \in [Procs -> SUBSET Blobs]
        /\ late' \in [Procs -> SUBSET RunIds] /\ \A p \in Procs : held'[p] = {}
        /\ sought' \in [Procs -> SUBSET Items]
    BY <1>1 DEF Crash
  <2>x. exposed' \subseteq RunIds
    BY <1>1, UsersTyped DEF Crash, Shape, TypeOK
  <2>5. TypeOK'
    BY <1>1, <2>1, <2>2, <2>3, <2>4, <2>x DEF Crash, Shape, TypeOK
  <2>6. PathOK'
    <3>1. \A p \in Procs : IsFiniteSet(held'[p])
      BY <2>4, FS_EmptySet
    <3> QED BY <2>3, <3>1, Bounds DEF PathOK, CarryPcs, ImportPcs
  <2> QED BY <2>5, <2>6 DEF Shape
<1>2. CASE Start
  <2>1. status' \in [RunIds -> Statuses] /\ proc' \in {"up", "down"}
    BY <1>2 DEF Start, Recover, Shape, TypeOK, Statuses
  <2>2. UNCHANGED <<rinst, rkind, at, items, count, files, inflight, jobs, local, crashes,
                    late, exposed>>
    BY <1>2 DEF Start
  <2>3. errors' \in Nat /\ unsaved' \subseteq RunIds
    BY <1>2 DEF Start, Shape, TypeOK
  <2>4. TypeOK'
    BY <2>1, <2>2, <2>3 DEF Shape, TypeOK, local
  <2>5. PathOK'
    BY <2>2 DEF Shape, PathOK, local
  <2> QED BY <2>4, <2>5 DEF Shape
<1> QED BY <1>1, <1>2

LEMMA ShapeKept == Shape /\ [Next]_vars => Shape'
<1> SUFFICES ASSUME Shape, [Next]_vars PROVE Shape'
  OBVIOUS
<1>1. CASE UNCHANGED vars
  BY <1>1 DEF vars, rows, local, life, history, Shape, TypeOK, PathOK
<1>2. ASSUME NEW i \in Instances, NEW k \in Kinds, ScheduleDueBackup(i, k)
      PROVE  Shape'
  BY <1>2, MarkShape, Bounds DEF ScheduleDueBackup, AllKinds
<1> QED BY <1>1, <1>2, WorkShape, CleanShape, CallShape, QueueShape, LifeShape, Bounds DEF Next

LEMMA ShapeInit == Init => Shape
<1> SUFFICES ASSUME Init PROVE Shape
  OBVIOUS
<1> USE Bounds DEF Init
<1>1. /\ status \in [RunIds -> Statuses] /\ rinst \in [RunIds -> Instances \cup {None}]
      /\ rkind \in [RunIds -> AllKinds \cup {None}] /\ at \in [RunIds -> 0 .. MaxRuns]
      /\ items \in [RunIds -> SUBSET Items] /\ count \in [RunIds -> Nat]
      /\ blobs \subseteq Blobs /\ torn \subseteq Blobs
  BY DEF Statuses
<1>2. /\ inflight \in [Instances -> (0 .. MaxRuns) \cup {None}]
      /\ jobs \in Seq(RunIds) /\ Len(jobs) <= JobsCap
      /\ proc \in {"up", "down"} /\ crashes \in Nat /\ errors \in Nat
      /\ unsaved \subseteq RunIds /\ exposed \subseteq RunIds
  BY BackupsAssumption
<1>3. /\ pc \in [Procs -> Pcs] /\ run \in [Procs -> 0 .. MaxRuns]
      /\ wantI \in [Procs -> Instances \cup {None}]
      /\ wantK \in [Procs -> AllKinds \cup {None}]
      /\ \A p \in Procs : pc[p] = "idle" /\ run[p] = 0
  BY DEF Pcs
<1>4. /\ todo \in [Procs -> SUBSET Torrents] /\ held \in [Procs -> SUBSET Items]
      /\ kinds \in [Procs -> SUBSET Kinds] /\ batch \in [Procs -> SUBSET RunIds]
      /\ rest \in [Procs -> SUBSET RunIds] /\ doomed \in [Procs -> SUBSET Blobs]
      /\ late \in [Procs -> SUBSET RunIds] /\ \A p \in Procs : held[p] = {}
      /\ sought \in [Procs -> SUBSET Items]
  OBVIOUS
<1>5. \A p \in Procs : IsFiniteSet(held[p])
  BY <1>4, FS_EmptySet
<1>6. TypeOK
  BY <1>1, <1>2, <1>3, <1>4 DEF TypeOK
<1>7. PathOK
  BY <1>3, <1>5 DEF PathOK, CarryPcs, ImportPcs
<1> QED BY <1>6, <1>7 DEF Shape

(* Rows, files, channel and processes keep their types. *)
THEOREM BackupTypes == Spec => []TypeOK
<1>1. Shape => TypeOK
  BY DEF Shape
<1> QED BY <1>1, ShapeInit, ShapeKept, PTL DEF Spec

-----------------------------------------------------------------------------
(* Every run is in one hand: one process, or one place of the channel, has *)
(* it; rows that are named anywhere have been created, and a process that  *)
(* died has nothing in its hands.                                          *)
Owned ==
    /\ \A p, q \in Procs : run[p] # 0 /\ run[p] = run[q] => p = q
    /\ \A m, n \in DOMAIN jobs : jobs[m] = jobs[n] => m = n
    /\ \A p \in Procs, n \in DOMAIN jobs : run[p] # jobs[n]
    /\ \A p \in Procs : run[p] # 0 => status[run[p]] # "none"
    /\ \A n \in DOMAIN jobs : status[jobs[n]] # "none"
    /\ proc = "down" => jobs = <<>> /\ \A p \in Procs : pc[p] = "idle"

(* The columns of rows, written once. *)
Columns ==
    /\ \A r \in RunIds : IF status[r] = "none" THEN rinst[r] = None
                         ELSE rinst[r] \in Instances /\ rkind[r] \in AllKinds
    /\ \A p \in Procs : \A r \in batch[p] : status[r] # "none"
    /\ \A w \in Workers : \A r \in batch[w] : rkind[r] \in Kinds

(* The statuses a run may have where its process is: s the status and u    *)
(* whether a write of it failed.                                           *)
Fits(l, s, u) ==
    /\ l \in {"send", "undo", "mark"} => s \in {"pending", "deleted"}
    /\ l \in {"load", "torrents", "write", "success", "fail"} \cup ImportPcs =>
          s \in {"running", "deleted"}
    /\ l \in {"items", "retain"} \cup CleanPcs =>
          s \in {"success", "deleted"} \/ (s = "running" /\ u)
    /\ l = "clear" => s \in {"success", "failed", "deleted"} \/ u

Stages ==
    /\ \A p \in Procs : run[p] # 0 => Fits(pc[p], status[run[p]], run[p] \in unsaved)
    /\ \A n \in DOMAIN jobs : status[jobs[n]] \in {"pending", "deleted"}
    /\ \A r \in RunIds : status[r] \in {"none", "pending", "deleted"} => items[r] = {}

(* The entries of inflight and who stands for them. *)
Entries ==
    /\ \A c \in Queuers : pc[c] = "create" => inflight[wantI[c]] = 0
    /\ \A c \in Queuers : pc[c] = "send" => inflight[rinst[run[c]]] = run[c]
    /\ \A n \in DOMAIN jobs : inflight[rinst[jobs[n]]] = jobs[n]
    /\ \A w \in Workers : pc[w] # "idle" => inflight[rinst[run[w]]] = run[w]
    /\ \A c, d \in Queuers :
          pc[c] = "create" /\ pc[d] = "create" /\ wantI[c] = wantI[d] => c = d
    /\ \A i \in Instances :
          inflight[i] = 0 => \E c \in Queuers : pc[c] = "create" /\ wantI[c] = i
    /\ \A i \in Instances, r \in RunIds :
          inflight[i] = r =>
             /\ rinst[r] = i
             /\ \/ \E c \in Queuers : pc[c] = "send" /\ run[c] = r
                \/ \E n \in DOMAIN jobs : jobs[n] = r
                \/ \E w \in Workers : pc[w] # "idle" /\ run[w] = r

(* The blobs of stored items. *)
BlobOf(its) == {b \in Blobs : \E t \in Torrents : <<t, b>> \in its}

(* The blobs that are whole, or that an import is rewriting. *)
Safe == blobs \cup (torn \cap Copying)

(* Where a process relies on the blobs of the items it holds, and which of *)
(* them have to be there: an import has still to download the others.      *)
HoldPcs == {"torrents", "write", "success", "items", "import", "copy", "insert"}
Needs(p) ==
    {b \in Blobs : \E t \in Torrents : <<t, b>> \in held[p] /\ (p \in Queuers => t \notin todo[p])}

(* What p relies on: the blobs it needs are safe, and the blobs it is      *)
(* about to unlink are nobody's, but for what was stored since it counted. *)
FilesOf(p) ==
    /\ pc[p] \in {"idle", "mark", "load"} => held[p] = {}
    /\ pc[p] \in HoldPcs /\ run[p] \notin exposed => Needs(p) \subseteq Safe
    /\ pc[p] = "unlink" => \A r \in RunIds \ late[p] : BlobOf(items[r]) \cap doomed[p] = {}

Files ==
    /\ \A p \in Procs : FilesOf(p)
    /\ \A r \in RunIds \ exposed : BlobOf(items[r]) \subseteq Safe

(* What torrent_count says of the items that are being stored. *)
CountsOf(p) ==
    /\ p \in Workers /\ pc[p] = "items" /\ run[p] \notin unsaved /\ Exists(run[p]) =>
          count[run[p]] = Cardinality(held[p])
    /\ p \in Queuers /\ pc[p] \in {"finish", "download", "fetch", "complete"} /\ Exists(run[p]) =>
          Cardinality(items[run[p]]) >= count[run[p]]

Counts ==
    /\ \A p \in Procs : CountsOf(p)
    /\ \A r \in RunIds : IsFiniteSet(items[r])
    /\ SnapshotComplete

-----------------------------------------------------------------------------
(* A step of p that touches, of the other runs, only rows it deletes, and   *)
(* takes no new run.                                                        *)
Calm(p) ==
    /\ OthersStay(p) /\ run'[p] \in {0, run[p]}
    /\ UNCHANGED <<jobs, proc, rinst, rkind, at>> /\ unsaved \subseteq unsaved'
    /\ \A r \in RunIds : status[r] = "none" <=> status'[r] = "none"
    /\ \A r \in RunIds : run[p] # r =>
          \/ status'[r] = status[r] /\ items'[r] = items[r]
          \/ status'[r] = "deleted" /\ items'[r] = {}

(* What such a step does to its own run. *)
Tidy(p) ==
    \A r \in RunIds : run[p] = r =>
       /\ run'[p] = r => Fits(pc'[p], status'[r], r \in unsaved')
       /\ status'[r] \in {"none", "pending", "deleted"} => items'[r] = {}
       /\ status[r] \in {"success", "failed"} => status'[r] \in {status[r], "deleted"}
       /\ status[r] = "deleted" => status'[r] = "deleted"
       /\ (run'[p] = 0 \/ pc'[p] = "clear") =>
             status'[r] \notin {"pending", "running"} \/ r \in unsaved'

RunInv == Shape /\ Owned /\ Columns /\ Stages

LEMMA OwnStage ==
    ASSUME RunInv, NEW p \in Procs, run[p] # 0
    PROVE  /\ run[p] \in RunIds
           /\ status[run[p]] # "none"
           /\ Fits(pc[p], status[run[p]], run[p] \in unsaved)
           /\ status[run[p]] \in {"none", "pending", "deleted"} => items[run[p]] = {}
<1>1. run[p] \in RunIds
  BY Bounds DEF RunInv, Shape, TypeOK
<1> QED BY <1>1 DEF RunInv, Owned, Stages

LEMMA QueueCalm ==
    ASSUME RunInv, NEW c \in Queuers,
           \/ CreateRunFails(c) \/ CancelSend(c) \/ DeleteCanceledRow(c)
           \/ \E i \in Instances, k \in AllKinds : MarkInstance(c, i, k)
    PROVE  Calm(c) /\ Tidy(c)
<1> USE DEF rows, life, history
<1>0. c \in Procs /\ Shape /\ (run[c] # 0 <=> pc[c] \in CarryPcs)
  BY Bounds DEF RunInv, Shape, PathOK
<1>1. CASE CreateRunFails(c)
  <2>1. pc[c] = "create" /\ Return(c) /\ UNCHANGED <<rows, files, jobs, life, history>>
    BY <1>1 DEF CreateRunFails
  <2>2. OthersStay(c) /\ run'[c] = 0
    BY <1>0, <2>1, ReturnShape DEF OthersStay
  <2> QED BY <1>0, <2>1, <2>2 DEF Calm, Tidy, CarryPcs, ImportPcs, RunIds
<1>2. CASE CancelSend(c)
  <2>1. /\ pc[c] = "send" /\ pc'[c] = "undo" /\ OthersStay(c) /\ run'[c] = run[c]
        /\ UNCHANGED <<rows, files, jobs, life, history>>
    BY <1>0, <1>2 DEF CancelSend, Step, Goto, OthersStay, Shape, TypeOK
  <2> QED BY <1>0, <2>1, OwnStage DEF Calm, Tidy, Fits, CarryPcs, CleanPcs, ImportPcs, RunIds
<1>3. CASE DeleteCanceledRow(c)
  <2>1. /\ pc[c] = "undo" /\ OthersStay(c) /\ run'[c] = 0
        /\ UNCHANGED <<rinst, rkind, at, items, jobs, proc>>
        /\ \/ SetStatus(run[c], "deleted") /\ UNCHANGED unsaved
           \/ UNCHANGED status /\ unsaved' = unsaved \cup {run[c]}
    BY <1>0, <1>3, ReturnShape DEF DeleteCanceledRow, OthersStay, Fault, StoreError
  <2>2. /\ run[c] \in RunIds /\ status[run[c]] \in {"pending", "deleted"}
        /\ items[run[c]] = {}
    BY <1>0, <2>1, OwnStage DEF Fits, CarryPcs, ImportPcs
  <2>3. /\ status' \in [RunIds -> Statuses]
        /\ \A r \in RunIds : run[c] # r => status'[r] = status[r]
        /\ \/ status'[run[c]] = "deleted" /\ UNCHANGED unsaved
           \/ status'[run[c]] = status[run[c]] /\ unsaved' = unsaved \cup {run[c]}
    BY <1>0, <2>1, <2>2 DEF Shape, TypeOK, SetStatus, Exists, Statuses
  <2>4. Calm(c)
    BY <2>1, <2>2, <2>3 DEF Calm
  <2>5. Tidy(c)
    BY <2>1, <2>2, <2>3, Bounds DEF Tidy
  <2> QED BY <2>4, <2>5
<1>4. ASSUME NEW i \in Instances, NEW k \in AllKinds, MarkInstance(c, i, k)
      PROVE  Calm(c) /\ Tidy(c)
  <2>1. /\ pc[c] = "idle" /\ OthersStay(c) /\ UNCHANGED run
        /\ UNCHANGED <<rows, files, jobs, life, history>>
    BY <1>0, <1>4 DEF MarkInstance, Goto, OthersStay, Shape, TypeOK
  <2> QED BY <1>0, <2>1 DEF Calm, Tidy, CarryPcs, ImportPcs, RunIds
<1> QED BY <1>1, <1>2, <1>3, <1>4

(* SetStatus on the process's own row, or the write that failed. *)
LEMMA OwnStatus ==
    ASSUME Shape, NEW r \in RunIds, NEW s \in Statuses \ {"none"}, status[r] # "none",
           \/ SetStatus(r, s) /\ UNCHANGED <<life, unsaved>>
           \/ UNCHANGED status /\ Fault(r)
    PROVE  /\ UNCHANGED proc /\ unsaved \subseteq unsaved'
           /\ \A q \in RunIds : r # q => status'[q] = status[q]
           /\ status'[r] # "none"
           /\ status[r] = "deleted" => status'[r] = "deleted"
           /\ \/ status[r] # "deleted" /\ status'[r] = s
              \/ status[r] = "deleted" /\ status'[r] = "deleted"
              \/ r \in unsaved' /\ status'[r] = status[r]
BY DEF Shape, TypeOK, SetStatus, Exists, Fault, StoreError, life, Statuses

LEMMA WorkCalm ==
    ASSUME RunInv, NEW w \in Workers, WorkStep(w), ~TakeJob(w)
    PROVE  Calm(w) /\ Tidy(w)
<1> USE DEF rows, life, history
<1>0. w \in Procs /\ Shape /\ w \notin Queuers
  BY Bounds DEF RunInv
<1>1. /\ pc[w] # "idle" /\ run[w] \in RunIds
  BY <1>0, RunKnown DEF WorkStep, MarkRunning, LoadTorrents, BackUpTorrent, WriteBlob,
       TorrentsDone, ExecuteFails, MarkFailed, MarkSuccess, InsertItems, SelectSurplus,
       RetentionDone, ClearInstance, Step
<1>2. /\ status[run[w]] # "none" /\ Fits(pc[w], status[run[w]], run[w] \in unsaved)
      /\ status[run[w]] \in {"none", "pending", "deleted"} => items[run[w]] = {}
  BY <1>0, <1>1, OwnStage, Bounds
(* Steps that leave all rows alone and keep the run. *)
<1>q. ASSUME pc' = [pc EXCEPT ![w] = pc'[w]], UNCHANGED <<run, wantI, wantK, jobs, proc>>,
             UNCHANGED <<status, rinst, rkind, at, items>>,
             unsaved \subseteq unsaved',
             \A q \in Procs \ {w} : held'[q] = held[q],
             Fits(pc'[w], status[run[w]], run[w] \in unsaved'),
             pc'[w] = "clear" =>
                status[run[w]] \notin {"pending", "running"} \/ run[w] \in unsaved'
      PROVE  Calm(w) /\ Tidy(w)
  <2>1. OthersStay(w)
    BY <1>0, <1>q DEF OthersStay, Shape, TypeOK
  <2>2. Calm(w)
    BY <1>q, <2>1 DEF Calm
  <2>3. Tidy(w)
    BY <1>1, <1>2, <1>q, Bounds DEF Tidy
  <2> QED BY <2>2, <2>3
(* Steps that write the status of the run and nothing else of the rows. *)
<1>s. ASSUME NEW l, NEW l2, NEW s \in Statuses \ {"none"}, Step(w, l, l2),
             \/ SetStatus(run[w], s) /\ UNCHANGED <<life, unsaved>>
             \/ UNCHANGED status /\ Fault(run[w]),
             UNCHANGED <<rinst, rkind, at, items, jobs>>,
             s \notin {"none", "pending", "deleted"},
             status[run[w]] \in {"pending", "running", "deleted"},
             Fits(l2, "deleted", run[w] \in unsaved'),
             Fits(l2, s, run[w] \in unsaved'),
             Fits(l2, status[run[w]], TRUE),
             l2 = "clear" => s \notin {"pending", "running"}
      PROVE  Calm(w) /\ Tidy(w)
  <2>1. /\ pc'[w] = l2 /\ OthersStay(w) /\ UNCHANGED run
    BY <1>0, <1>s DEF Step, Goto, OthersStay, Shape, TypeOK
  <2>2. /\ UNCHANGED proc /\ unsaved \subseteq unsaved'
        /\ \A q \in RunIds : run[w] # q => status'[q] = status[q]
        /\ status'[run[w]] # "none"
        /\ \/ status[run[w]] # "deleted" /\ status'[run[w]] = s
           \/ status[run[w]] = "deleted" /\ status'[run[w]] = "deleted"
           \/ run[w] \in unsaved' /\ status'[run[w]] = status[run[w]]
    BY <1>0, <1>1, <1>2, <1>s, OwnStatus
  <2>3. Calm(w)
    BY <1>2, <1>s, <2>1, <2>2 DEF Calm
  <2>4. Fits(pc'[w], status'[run[w]], run[w] \in unsaved')
    BY <1>s, <2>1, <2>2
  <2>5. Tidy(w)
    BY <1>1, <1>2, <1>s, <2>1, <2>2, <2>4, Bounds DEF Tidy
  <2> QED BY <2>3, <2>5
<1>3. CASE MarkRunning(w)
  <2>1. pc[w] = "mark" /\ status[run[w]] \in {"pending", "deleted"}
    BY <1>2, <1>3 DEF MarkRunning, Fits
  <2>2. CASE Exists(run[w]) /\ Step(w, "mark", "load")
    <3>1. SetStatus(run[w], "running") /\ UNCHANGED <<life, unsaved>>
      BY <1>0, <1>3, <2>2 DEF MarkRunning, Step, Goto, Shape, TypeOK
    <3>2. UNCHANGED <<rinst, rkind, at, items, jobs>>
      BY <1>3 DEF MarkRunning
    <3>3. status[run[w]] = "pending" /\ status' = [status EXCEPT ![run[w]] = "running"]
      BY <2>1, <2>2, <3>1 DEF SetStatus, Exists
    <3>4. /\ pc'[w] = "load" /\ OthersStay(w) /\ UNCHANGED run
      BY <1>0, <2>2 DEF Step, Goto, OthersStay, Shape, TypeOK
    <3>5. /\ status'[run[w]] = "running"
          /\ \A r \in RunIds : run[w] # r => status'[r] = status[r]
      BY <1>0, <1>1, <3>3 DEF Shape, TypeOK
    <3>6. Calm(w)
      BY <3>1, <3>2, <3>3, <3>4, <3>5 DEF Calm
    <3>7. Tidy(w)
      BY <1>1, <3>3, <3>4, <3>5, Bounds DEF Tidy, Fits, CleanPcs, ImportPcs
    <3> QED BY <3>6, <3>7
  <2>3. CASE Step(w, "mark", "clear")
    <3>1. /\ UNCHANGED <<run, wantI, wantK, jobs, proc, status, rinst, rkind, at, items, held>>
          /\ pc' = [pc EXCEPT ![w] = "clear"]
          /\ \/ ~Exists(run[w]) /\ UNCHANGED unsaved
             \/ unsaved' = unsaved \cup {run[w]}
      BY <1>0, <1>3, <2>3 DEF MarkRunning, Step, Goto, Fault, StoreError, Shape, TypeOK
    <3>2. pc'[w] = "clear"
      BY <1>0, <3>1 DEF Shape, TypeOK
    <3>3. Fits("clear", status[run[w]], run[w] \in unsaved')
      BY <2>1, <3>1 DEF Fits, Exists, CleanPcs, ImportPcs
    <3>4. status[run[w]] \notin {"pending", "running"} \/ run[w] \in unsaved'
      BY <2>1, <3>1 DEF Exists
    <3> QED BY <1>q, <3>1, <3>2, <3>3, <3>4
  <2> QED BY <1>3, <2>2, <2>3 DEF MarkRunning
<1>4. CASE \/ LoadTorrents(w) \/ BackUpTorrent(w) \/ WriteBlob(w) \/ TorrentsDone(w)
           \/ ExecuteFails(w)
  <2>1. /\ UNCHANGED <<run, wantI, wantK, jobs, proc, status, rinst, rkind, at, items>>
        /\ UNCHANGED unsaved /\ pc' = [pc EXCEPT ![w] = pc'[w]]
        /\ pc[w] \in {"load", "torrents", "write"}
        /\ pc'[w] \in {"torrents", "write", "success", "fail"}
        /\ \A q \in Procs \ {w} : held'[q] = held[q]
    <3>1. CASE LoadTorrents(w) \/ TorrentsDone(w) \/ ExecuteFails(w)
      BY <1>0, <3>1 DEF LoadTorrents, TorrentsDone, ExecuteFails, Step, Goto, Shape, TypeOK
    <3>2. CASE BackUpTorrent(w)
      BY <1>0, <3>2 DEF BackUpTorrent, Goto, Shape, TypeOK
    <3>3. CASE WriteBlob(w)
      BY <1>0, <3>3 DEF WriteBlob, Goto, Shape, TypeOK
    <3> QED BY <1>4, <3>1, <3>2, <3>3
  <2>2. status[run[w]] \in {"running", "deleted"}
    BY <1>2, <2>1 DEF Fits
  <2>3. Fits(pc'[w], status[run[w]], run[w] \in unsaved')
    BY <2>1, <2>2 DEF Fits, CleanPcs, ImportPcs
  <2> QED BY <1>q, <2>1, <2>3
<1>5. CASE MarkFailed(w)
  <2>1. /\ Step(w, "fail", "clear") /\ UNCHANGED <<rinst, rkind, at, items, jobs>>
        /\ \/ SetStatus(run[w], "failed") /\ UNCHANGED <<life, unsaved>>
           \/ UNCHANGED status /\ Fault(run[w])
    BY <1>5 DEF MarkFailed
  <2>2. status[run[w]] \in {"running", "deleted"}
    BY <1>2, <2>1 DEF Fits, Step
  <2>3. /\ Fits("clear", "deleted", run[w] \in unsaved')
        /\ Fits("clear", "failed", run[w] \in unsaved') /\ Fits("clear", status[run[w]], TRUE)
    BY DEF Fits, CleanPcs, ImportPcs
  <2>4. /\ "failed" \in Statuses \ {"none"} /\ "failed" \notin {"none", "pending", "deleted"}
        /\ "clear" = "clear" => "failed" \notin {"pending", "running"}
    BY DEF Statuses
  <2>5. status[run[w]] \in {"pending", "running", "deleted"}
    BY <2>2
  <2> HIDE DEF life
  <2> QED BY ONLY <1>s, <2>1, <2>3, <2>4, <2>5
<1>6. CASE MarkSuccess(w)
  <2>1. /\ Step(w, "success", "items") /\ UNCHANGED <<rinst, rkind, at, items, jobs>>
        /\ \/ SetStatus(run[w], "success") /\ UNCHANGED <<life, unsaved>>
           \/ UNCHANGED status /\ Fault(run[w])
    BY <1>6 DEF MarkSuccess
  <2>2. status[run[w]] \in {"running", "deleted"}
    BY <1>2, <2>1 DEF Fits, Step
  <2>3. /\ Fits("items", "deleted", run[w] \in unsaved')
        /\ Fits("items", "success", run[w] \in unsaved') /\ Fits("items", status[run[w]], TRUE)
    BY <2>2 DEF Fits, CleanPcs, ImportPcs
  <2> QED BY <1>s, <2>1, <2>2, <2>3 DEF Statuses
<1>7. CASE InsertItems(w)
  <2>1. /\ pc[w] = "items" /\ pc'[w] = "retain" /\ OthersStay(w) /\ UNCHANGED run
        /\ UNCHANGED <<status, rinst, rkind, at, jobs, proc>> /\ unsaved \subseteq unsaved'
        /\ \/ items' = items
           \/ Exists(run[w]) /\ items' = [items EXCEPT ![run[w]] = held[w]]
    BY <1>0, <1>7 DEF InsertItems, Goto, Store, Fault, StoreError, OthersStay, Shape, TypeOK
  <2>2. \/ status[run[w]] \in {"success", "deleted"}
        \/ status[run[w]] = "running" /\ run[w] \in unsaved
    BY <1>2, <2>1 DEF Fits
  <2>3. \A r \in RunIds : run[w] # r => items'[r] = items[r]
    BY <1>0, <1>1, <2>1 DEF Shape, TypeOK
  <2>4. status[run[w]] = "deleted" => items'[run[w]] = {}
    BY <1>2, <2>1 DEF Exists
  <2>5. Calm(w)
    BY <1>2, <2>1, <2>3 DEF Calm
  <2>6. Tidy(w)
    BY <1>1, <2>1, <2>2, <2>4, Bounds DEF Tidy, Fits, CleanPcs, ImportPcs
  <2> QED BY <2>5, <2>6
<1>8. CASE SelectSurplus(w) \/ RetentionDone(w)
  <2>1. /\ UNCHANGED <<run, wantI, wantK, jobs, proc, status, rinst, rkind, at, items, held>>
        /\ UNCHANGED unsaved /\ pc' = [pc EXCEPT ![w] = pc'[w]]
        /\ pc[w] = "retain" /\ pc'[w] \in {"retain", "collect", "clear"}
    BY <1>0, <1>8 DEF SelectSurplus, RetentionDone, Step, Goto, StoreError, Shape, TypeOK
  <2>2. \/ status[run[w]] \in {"success", "deleted"}
        \/ status[run[w]] = "running" /\ run[w] \in unsaved
    BY <1>2, <2>1 DEF Fits
  <2>3. Fits(pc'[w], status[run[w]], run[w] \in unsaved')
    BY <2>1, <2>2 DEF Fits, CleanPcs, ImportPcs
  <2> QED BY <1>q, <2>1, <2>2, <2>3
<1>9. CASE ClearInstance(w)
  <2>1. /\ pc[w] = "clear" /\ OthersStay(w) /\ run'[w] = 0
        /\ UNCHANGED <<rinst, rkind, at, items, jobs, proc, status, unsaved>>
    BY <1>0, <1>9, ReturnShape DEF ClearInstance, OthersStay
  <2>2. status[run[w]] \in {"success", "failed", "deleted"} \/ run[w] \in unsaved
    BY <1>2, <2>1 DEF Fits
  <2>3. Calm(w)
    BY <2>1 DEF Calm
  <2>4. Tidy(w)
    BY <1>1, <1>2, <2>1, <2>2, Bounds DEF Tidy
  <2> QED BY <2>3, <2>4
<1> QED BY <1>3, <1>4, <1>5, <1>6, <1>7, <1>8, <1>9 DEF WorkStep

LEMMA CleanCalm ==
    ASSUME RunInv, NEW p \in Workers \cup Callers, CleanStep(p)
    PROVE  Calm(p) /\ Tidy(p)
<1> USE DEF rows, life, history
<1>0. p \in Procs /\ Shape /\ (p \in Workers \/ p \in Queuers)
  BY Bounds DEF RunInv
<1>1. pc[p] \in CleanPcs
  BY DEF CleanStep, CollectItems, CleanupRuns, CountReferences, UnlinkBlobs, Step, CleanPcs
<1>2. p \in Queuers => run[p] = 0
  BY <1>1 DEF RunInv, Shape, PathOK, CarryPcs, ImportPcs, CleanPcs
<1>3. run[p] # 0 => /\ run[p] \in RunIds /\ status[run[p]] # "none"
                    /\ \/ status[run[p]] \in {"success", "deleted"}
                       \/ status[run[p]] = "running" /\ run[p] \in unsaved
                    /\ status[run[p]] \in {"none", "pending", "deleted"} => items[run[p]] = {}
  BY <1>0, <1>1, OwnStage DEF Fits
<1>4. /\ OthersStay(p) /\ UNCHANGED <<run, jobs, proc, rinst, rkind, at, unsaved>>
      /\ pc'[p] \in CleanPcs \cup {"retain", "next"}
      /\ pc'[p] = "next" => p \in Queuers
  <2>1. CASE CollectItems(p)
    BY <1>0, <2>1 DEF CollectItems, Goto, StoreError, OthersStay, Shape, TypeOK, CleanPcs
  <2>2. CASE CleanupRuns(p)
    BY <1>0, <2>2 DEF CleanupRuns, Step, Goto, StoreError, OthersStay, Shape, TypeOK, CleanPcs
  <2>3. CASE CountReferences(p)
    BY <1>0, <2>3 DEF CountReferences, Goto, StoreError, OthersStay, Shape, TypeOK, CleanPcs
  <2>4. CASE UnlinkBlobs(p)
    BY <1>0, <2>4, Bounds DEF UnlinkBlobs, Goto, OthersStay, Shape, TypeOK
  <2> QED BY <2>1, <2>2, <2>3, <2>4 DEF CleanStep
<1>5. \A r \in RunIds : \/ status'[r] = status[r] /\ items'[r] = items[r]
                        \/ status'[r] = "deleted" /\ items'[r] = {} /\ status[r] # "none"
  <2>1. CASE CleanupRuns(p)
    <3>1. \A r \in batch[p] : status[r] # "none"
      BY <1>0 DEF RunInv, Columns
    <3> QED BY <2>1, <3>1 DEF CleanupRuns
  <2>2. CASE UNCHANGED <<status, items>>
    BY <2>2
  <2> QED BY <2>1, <2>2 DEF CleanStep, CollectItems, CountReferences, UnlinkBlobs
<1>6. Calm(p)
  BY <1>4, <1>5 DEF Calm
<1>7. Tidy(p)
  <2>1. SUFFICES ASSUME run[p] # 0 PROVE Tidy(p)
    BY Bounds DEF Tidy
  <2>2. pc'[p] \in CleanPcs \cup {"retain"}
    BY <1>0, <1>2, <1>4, <2>1
  <2>3. \/ status'[run[p]] \in {"success", "deleted"}
        \/ status'[run[p]] = "running" /\ run[p] \in unsaved'
    BY <1>3, <1>4, <1>5, <2>1
  <2>4. Fits(pc'[p], status'[run[p]], run[p] \in unsaved')
    BY <2>2, <2>3 DEF Fits, CleanPcs, ImportPcs
  <2>5. /\ status'[run[p]] \in {"none", "pending", "deleted"} => items'[run[p]] = {}
        /\ status'[run[p]] \in {status[run[p]], "deleted"}
    BY <1>3, <1>5, <2>1
  <2> QED BY <1>4, <2>1, <2>2, <2>4, <2>5, Bounds DEF Tidy, CleanPcs
<1> QED BY <1>6, <1>7

LEMMA CallCalm ==
    ASSUME RunInv, NEW c \in Callers,
           \/ DeleteNext(c) \/ EndDelete(c) \/ ImportStep(c)
           \/ \E R \in SUBSET RunIds : DeleteRuns(c, R)
    PROVE  Calm(c) /\ Tidy(c)
<1> USE DEF rows, life, history
<1>0. /\ c \in Procs /\ Shape /\ c \in Queuers /\ c \notin Workers
      /\ run[c] # 0 <=> pc[c] \in CarryPcs
  BY Bounds DEF RunInv, Shape, PathOK
<1>1. run[c] # 0 => /\ run[c] \in RunIds /\ status[run[c]] # "none"
                    /\ Fits(pc[c], status[run[c]], run[c] \in unsaved)
                    /\ status[run[c]] \in {"none", "pending", "deleted"} => items[run[c]] = {}
  BY <1>0, OwnStage
<1>2. CASE DeleteNext(c) \/ \E R \in SUBSET RunIds : DeleteRuns(c, R)
  <2>1. /\ OthersStay(c) /\ UNCHANGED <<run, jobs, proc, rinst, rkind, at, unsaved>>
        /\ UNCHANGED <<status, items>> /\ pc[c] \in {"idle", "next"}
    BY <1>0, <1>2 DEF DeleteNext, DeleteRuns, Goto, OthersStay, Shape, TypeOK
  <2>2. run[c] = 0
    BY <1>0, <2>1 DEF CarryPcs, ImportPcs
  <2> QED BY <2>1, <2>2, Bounds DEF Calm, Tidy
<1>3. CASE EndDelete(c)
  <2>1. /\ OthersStay(c) /\ UNCHANGED <<jobs, proc, rinst, rkind, at, unsaved>>
        /\ UNCHANGED <<status, items>> /\ pc[c] \in CleanPcs \cup {"next"} /\ run'[c] = 0
    BY <1>0, <1>3, ReturnShape DEF EndDelete, OthersStay
  <2>2. run[c] = 0
    BY <1>0, <2>1 DEF CarryPcs, ImportPcs, CleanPcs
  <2> QED BY <2>1, <2>2, Bounds DEF Calm, Tidy
<1>4. CASE \/ ReadManifest(c) \/ CopyBlob(c) \/ ManifestDone(c)
           \/ DownloadMissing(c) \/ FetchBlob(c)
  <2>1. /\ OthersStay(c) /\ UNCHANGED <<run, jobs, proc, rinst, rkind, at, unsaved>>
        /\ UNCHANGED <<status, items>> /\ pc[c] \in ImportPcs /\ pc'[c] \in ImportPcs
    <3>1. CASE ReadManifest(c)
      BY <1>0, <3>1 DEF ReadManifest, Goto, OthersStay, Shape, TypeOK, ImportPcs
    <3>2. CASE DownloadMissing(c)
      BY <1>0, <3>2 DEF DownloadMissing, Goto, OthersStay, Shape, TypeOK, ImportPcs
    <3>3. CASE CopyBlob(c)
      BY <1>0, <3>3 DEF CopyBlob, Goto, OthersStay, Shape, TypeOK, ImportPcs
    <3>4. CASE ManifestDone(c)
      BY <1>0, <3>4 DEF ManifestDone, Step, Goto, OthersStay, Shape, TypeOK, ImportPcs
    <3>5. CASE FetchBlob(c)
      BY <1>0, <3>5 DEF FetchBlob, Goto, OthersStay, Shape, TypeOK, ImportPcs
    <3> QED BY <1>4, <3>1, <3>2, <3>3, <3>4, <3>5
  <2>2. run[c] \in RunIds /\ status[run[c]] \in {"running", "deleted"}
    BY <1>0, <1>1, <2>1 DEF CarryPcs, Fits
  <2>3. Fits(pc'[c], status[run[c]], run[c] \in unsaved')
    BY <2>1, <2>2 DEF Fits, CleanPcs, ImportPcs
  <2>4. Calm(c)
    BY <2>1 DEF Calm
  <2>5. Tidy(c)
    BY <1>1, <2>1, <2>2, <2>3, Bounds DEF Tidy, ImportPcs
  <2> QED BY <2>4, <2>5
<1>5. CASE ImportFails(c)
  <2>1. /\ OthersStay(c) /\ UNCHANGED <<jobs, proc, rinst, rkind, at>>
        /\ UNCHANGED <<status, items>> /\ pc[c] \in ImportPcs /\ run'[c] = 0
        /\ unsaved' = unsaved \cup {run[c]}
    BY <1>0, <1>5, ReturnShape DEF ImportFails, OthersStay, ImportPcs
  <2>2. run[c] \in RunIds
    BY <1>0, <1>1, <2>1 DEF CarryPcs
  <2>3. Calm(c)
    BY <2>1 DEF Calm
  <2>4. Tidy(c)
    BY <1>1, <2>1, <2>2, Bounds DEF Tidy
  <2> QED BY <2>3, <2>4
<1>6. CASE ImportItems(c)
  <2>1. /\ OthersStay(c) /\ UNCHANGED <<run, jobs, proc, rinst, rkind, at, unsaved, status>>
        /\ pc[c] \in ImportPcs /\ pc'[c] \in ImportPcs /\ Exists(run[c])
        /\ items' = [items EXCEPT ![run[c]] = held[c]]
    BY <1>0, <1>6 DEF ImportItems, Store, Goto, OthersStay, Shape, TypeOK, ImportPcs
  <2>2. run[c] \in RunIds /\ status[run[c]] = "running"
    BY <1>0, <1>1, <2>1 DEF CarryPcs, Fits, Exists
  <2>3. Fits(pc'[c], status[run[c]], run[c] \in unsaved')
    BY <2>1, <2>2 DEF Fits, CleanPcs, ImportPcs
  <2>4. \A r \in RunIds : run[c] # r => items'[r] = items[r]
    BY <1>0, <2>1, <2>2 DEF Shape, TypeOK
  <2>5. Calm(c)
    BY <2>1, <2>4 DEF Calm
  <2>6. Tidy(c)
    BY <2>1, <2>2, <2>3, Bounds DEF Tidy, ImportPcs
  <2> QED BY <2>5, <2>6
<1>7. CASE CompleteImport(c)
  <2>1. /\ OthersStay(c) /\ UNCHANGED <<jobs, rinst, rkind, at, items>>
        /\ pc[c] \in ImportPcs /\ run'[c] = 0
        /\ \/ SetStatus(run[c], "success") /\ UNCHANGED <<life, unsaved>>
           \/ UNCHANGED status /\ Fault(run[c])
    BY <1>0, <1>7, ReturnShape DEF CompleteImport, OthersStay, ImportPcs
  <2>2. /\ run[c] \in RunIds /\ status[run[c]] \in {"running", "deleted"}
        /\ status[run[c]] = "deleted" => items[run[c]] = {}
    BY <1>0, <1>1, <2>1 DEF CarryPcs, Fits
  <2>3. /\ UNCHANGED proc /\ unsaved \subseteq unsaved'
        /\ \A q \in RunIds : run[c] # q => status'[q] = status[q]
        /\ status'[run[c]] # "none"
        /\ status[run[c]] = "deleted" => status'[run[c]] = "deleted"
        /\ \/ status[run[c]] # "deleted" /\ status'[run[c]] = "success"
           \/ status[run[c]] = "deleted" /\ status'[run[c]] = "deleted"
           \/ run[c] \in unsaved' /\ status'[run[c]] = status[run[c]]
    <3>1. "success" \in Statuses \ {"none"} /\ status[run[c]] # "none"
      BY <2>2 DEF Statuses
    <3> HIDE DEF life
    <3> QED BY <1>0, <2>1, <2>2, <3>1, OwnStatus
  <2>4. Calm(c)
    BY <2>1, <2>2, <2>3 DEF Calm
  <2>5. Tidy(c)
    BY <2>1, <2>2, <2>3, Bounds DEF Tidy
  <2> QED BY <2>4, <2>5
<1> QED BY <1>2, <1>3, <1>4, <1>5, <1>6, <1>7 DEF ImportStep

-----------------------------------------------------------------------------
(* What the rows promise from one state to the next. *)
RowsKept ==
    /\ \A r \in RunIds :
         /\ status[r] \in {"success", "failed"} => status'[r] \in {status[r], "deleted"}
         /\ status[r] = "deleted" => status'[r] = "deleted" /\ items'[r] = {}
    /\ \A r \in RunIds : status[r] # "none" =>
         /\ rinst'[r] = rinst[r] /\ rkind'[r] = rkind[r] /\ at'[r] = at[r]
         /\ status'[r] # "none"
    /\ \A r \in RunIds : status[r] = "none" =>
         IF status'[r] = "none" THEN rinst'[r] = rinst[r]
         ELSE rinst'[r] \in Instances /\ rkind'[r] \in AllKinds

(* A calm step keeps all of it. *)
LEMMA CalmKeeps ==
    ASSUME RunInv, NoStrandedRun, NEW p \in Procs, proc = "up", Calm(p), Tidy(p),
           (status \in [RunIds -> Statuses])'
    PROVE  Owned' /\ Stages' /\ RowsKept /\ NoStrandedRun'
<1>0. /\ \A q \in Procs : run[q] \in RunIds \cup {0}
      /\ \A n \in DOMAIN jobs : jobs[n] \in RunIds
      /\ 0 \notin RunIds
  BY Bounds DEF RunInv, Shape, TypeOK
<1>1. \A q \in Procs \ {p} : run'[q] = run[q] /\ pc'[q] = pc[q]
  BY DEF Calm, OthersStay
<1>2. Owned'
  <2>1. \A q \in Procs : run'[q] \in {0, run[q]}
    BY <1>1 DEF Calm
  <2> QED BY <1>0, <2>1 DEF RunInv, Owned, Calm
<1>3. Stages'
  <2>1. ASSUME NEW q \in Procs, run'[q] # 0
        PROVE  Fits(pc'[q], status'[run'[q]], run'[q] \in unsaved')
    <3>1. CASE q = p
      BY <1>0, <2>1, <3>1 DEF Calm, Tidy
    <3>2. CASE q # p
      <4>1. run[q] \in RunIds /\ run[p] # run[q] /\ run'[q] = run[q] /\ pc'[q] = pc[q]
        BY <1>0, <1>1, <2>1, <3>2 DEF RunInv, Owned
      <4>2. Fits(pc[q], status[run[q]], run[q] \in unsaved)
        BY <1>1, <2>1, <3>2 DEF RunInv, Stages
      <4>3. /\ status'[run[q]] \in {status[run[q]], "deleted"}
            /\ run[q] \in unsaved => run[q] \in unsaved'
        BY <4>1 DEF Calm
      <4> QED BY <4>1, <4>2, <4>3 DEF Fits
    <3> QED BY <3>1, <3>2
  <2>2. ASSUME NEW n \in DOMAIN jobs'
        PROVE  status'[jobs'[n]] \in {"pending", "deleted"}
    BY <1>0 DEF Calm, RunInv, Owned, Stages
  <2>3. ASSUME NEW r \in RunIds, status'[r] \in {"none", "pending", "deleted"}
        PROVE  items'[r] = {}
    BY <2>3 DEF Calm, Tidy, RunInv, Stages
  <2> QED BY <2>1, <2>2, <2>3 DEF Stages
<1>4. RowsKept
  <2>1. ASSUME NEW r \in RunIds
        PROVE  /\ status[r] \in {"success", "failed"} => status'[r] \in {status[r], "deleted"}
               /\ status[r] = "deleted" => status'[r] = "deleted" /\ items'[r] = {}
    <3>1. CASE run[p] = r
      BY <3>1 DEF Tidy
    <3>2. CASE run[p] # r
      BY <3>2 DEF Calm, RunInv, Stages
    <3> QED BY <3>1, <3>2
  <2> QED BY <2>1 DEF RowsKept, Calm
<1>5. NoStrandedRun'
  <2>1. SUFFICES ASSUME NEW r \in RunIds, status'[r] \in {"pending", "running"}, r \notin unsaved'
                 PROVE  \/ \E q \in Procs : run'[q] = r /\ pc'[q] # "clear"
                        \/ \E n \in DOMAIN jobs' : jobs'[n] = r
    BY DEF NoStrandedRun
  <2>2. CASE run[p] = r
    BY <1>0, <2>1, <2>2 DEF Calm, Tidy
  <2>3. CASE run[p] # r
    <3>1. status[r] = status'[r] /\ r \notin unsaved
      BY <2>1, <2>3 DEF Calm
    <3>2. \/ \E q \in Procs : run[q] = r /\ pc[q] # "clear"
          \/ \E n \in DOMAIN jobs : jobs[n] = r
      BY <2>1, <3>1 DEF NoStrandedRun
    <3> QED BY <1>1, <2>3, <3>2 DEF Calm
  <2> QED BY <2>2, <2>3
<1> QED BY <1>2, <1>3, <1>4, <1>5

(* CreateRun and ImportManifest: a new row in the hands of its process. *)
Fresh(c, r, s) ==
    /\ status[r] = "none" /\ status' = [status EXCEPT ![r] = s]
    /\ rinst' = [rinst EXCEPT ![r] = rinst'[r]] /\ rinst'[r] \in Instances
    /\ rkind' = [rkind EXCEPT ![r] = rkind'[r]] /\ rkind'[r] \in AllKinds
    /\ at' = [at EXCEPT ![r] = at'[r]]
    /\ OthersStay(c) /\ run[c] = 0 /\ run'[c] = r
    /\ UNCHANGED <<jobs, proc, items, unsaved>>

LEMMA FreshKeeps ==
    ASSUME RunInv, NoStrandedRun, NEW c \in Queuers, proc = "up",
           NEW r \in RunIds, NEW s \in {"pending", "running"}, Fresh(c, r, s),
           pc'[c] = IF s = "pending" THEN "send" ELSE "import"
    PROVE  Owned' /\ Stages' /\ RowsKept /\ NoStrandedRun'
<1>0. /\ \A q \in Procs : run[q] \in RunIds \cup {0}
      /\ \A n \in DOMAIN jobs : jobs[n] \in RunIds
      /\ 0 \notin RunIds /\ c \in Procs
  BY Bounds DEF RunInv, Shape, TypeOK
<1>1. \A q \in Procs \ {c} : run'[q] = run[q] /\ pc'[q] = pc[q]
  BY DEF Fresh, OthersStay
<1>2. /\ \A q \in RunIds : q # r => status'[q] = status[q] /\ rinst'[q] = rinst[q]
                                    /\ rkind'[q] = rkind[q] /\ at'[q] = at[q]
      /\ status'[r] = s /\ status[r] = "none" /\ run'[c] = r /\ run[c] = 0
      /\ UNCHANGED <<jobs, proc, items, unsaved>>
  BY DEF Fresh, RunInv, Shape, TypeOK
<1>3. \A q \in Procs : run[q] # r
  BY <1>0, <1>2 DEF RunInv, Owned
<1>4. \A n \in DOMAIN jobs : jobs[n] # r
  BY <1>2 DEF RunInv, Owned
<1>5. Owned'
  <2>1. \A p, q \in Procs : run'[p] # 0 /\ run'[p] = run'[q] => p = q
    BY <1>0, <1>1, <1>2, <1>3 DEF RunInv, Owned
  <2>2. \A p \in Procs : run'[p] # 0 => status'[run'[p]] # "none"
    BY <1>0, <1>1, <1>2, <1>3 DEF RunInv, Owned
  <2>3. \A p \in Procs, n \in DOMAIN jobs : run'[p] # jobs[n]
    BY <1>0, <1>1, <1>2, <1>4 DEF RunInv, Owned
  <2>4. \A n \in DOMAIN jobs : status'[jobs[n]] # "none"
    BY <1>0, <1>2, <1>4 DEF RunInv, Owned
  <2> QED BY <1>2, <2>1, <2>2, <2>3, <2>4 DEF RunInv, Owned
<1>6. Stages'
  <2>1. ASSUME NEW q \in Procs, run'[q] # 0
        PROVE  Fits(pc'[q], status'[run'[q]], run'[q] \in unsaved')
    <3>1. CASE q = c
      BY <1>2, <3>1 DEF Fits, CleanPcs, ImportPcs
    <3>2. CASE q # c
      BY <1>0, <1>1, <1>2, <1>3, <2>1, <3>2 DEF RunInv, Stages
    <3> QED BY <3>1, <3>2
  <2>2. \A n \in DOMAIN jobs : status'[jobs[n]] \in {"pending", "deleted"}
    BY <1>0, <1>2, <1>4 DEF RunInv, Stages
  <2>3. \A q \in RunIds : status'[q] \in {"none", "pending", "deleted"} => items'[q] = {}
    BY <1>2 DEF RunInv, Stages
  <2> QED BY <1>2, <2>1, <2>2, <2>3 DEF Stages
<1>7. RowsKept
  BY <1>2 DEF RowsKept, RunInv, Stages, Fresh
<1>8. NoStrandedRun'
  <2>1. SUFFICES ASSUME NEW q \in RunIds, status'[q] \in {"pending", "running"}, q \notin unsaved'
                 PROVE  \/ \E p \in Procs : run'[p] = q /\ pc'[p] # "clear"
                        \/ \E n \in DOMAIN jobs' : jobs'[n] = q
    BY DEF NoStrandedRun
  <2>2. CASE q = r
    BY <1>0, <1>2, <2>2
  <2>3. CASE q # r
    <3>1. \/ \E p \in Procs : run[p] = q /\ pc[p] # "clear"
          \/ \E n \in DOMAIN jobs : jobs[n] = q
      BY <1>2, <2>1, <2>3 DEF NoStrandedRun
    <3> QED BY <1>0, <1>1, <1>2, <2>3, <3>1
  <2> QED BY <2>2, <2>3
<1> QED BY <1>5, <1>6, <1>7, <1>8

(* A job goes into the channel ... *)
LEMMA SendKeeps ==
    ASSUME RunInv, NoStrandedRun, NEW c \in Queuers, SendJob(c), proc = "up"
    PROVE  Owned' /\ Stages' /\ RowsKept /\ NoStrandedRun'
<1>0. /\ \A q \in Procs : run[q] \in RunIds \cup {0}
      /\ \A n \in DOMAIN jobs : jobs[n] \in RunIds
      /\ 0 \notin RunIds /\ c \in Procs /\ jobs \in Seq(RunIds) /\ Shape
  BY Bounds DEF RunInv, Shape, TypeOK
<1>1. /\ pc[c] = "send" /\ jobs' = Append(jobs, run[c])
      /\ run[c] \in RunIds /\ status[run[c]] \in {"pending", "deleted"}
      /\ UNCHANGED <<status, rinst, rkind, at, items, proc, unsaved>>
  <2>1. pc[c] = "send" /\ run[c] \in RunIds
    BY <1>0, RunKnown DEF SendJob, CarryPcs
  <2> QED BY <1>0, <2>1, OwnStage DEF SendJob, rows, life, history, Fits
<1>2. /\ run'[c] = 0 /\ \A q \in Procs \ {c} : run'[q] = run[q] /\ pc'[q] = pc[q]
  BY <1>0, ReturnShape DEF SendJob
<1>3. /\ DOMAIN jobs' = DOMAIN jobs \cup {Len(jobs) + 1} /\ Len(jobs) + 1 \notin DOMAIN jobs
      /\ jobs'[Len(jobs) + 1] = run[c] /\ \A n \in DOMAIN jobs : jobs'[n] = jobs[n]
  BY <1>0, <1>1
<1>4. Owned'
  <2>1. \A p, q \in Procs : run'[p] # 0 /\ run'[p] = run'[q] => p = q
    BY <1>0, <1>2 DEF RunInv, Owned
  <2>2. \A m, n \in DOMAIN jobs' : jobs'[m] = jobs'[n] => m = n
    BY <1>0, <1>3 DEF RunInv, Owned
  <2>3. \A p \in Procs, n \in DOMAIN jobs' : run'[p] # jobs'[n]
    BY <1>0, <1>1, <1>2, <1>3 DEF RunInv, Owned
  <2>4. \A p \in Procs : run'[p] # 0 => status'[run'[p]] # "none"
    BY <1>0, <1>1, <1>2 DEF RunInv, Owned
  <2>5. \A n \in DOMAIN jobs' : status'[jobs'[n]] # "none"
    BY <1>1, <1>3 DEF RunInv, Owned
  <2> QED BY <1>1, <2>1, <2>2, <2>3, <2>4, <2>5 DEF Owned
<1>5. Stages'
  <2>1. \A q \in Procs : run'[q] # 0 => Fits(pc'[q], status'[run'[q]], run'[q] \in unsaved')
    BY <1>1, <1>2 DEF RunInv, Stages
  <2>2. \A n \in DOMAIN jobs' : status'[jobs'[n]] \in {"pending", "deleted"}
    BY <1>1, <1>3 DEF RunInv, Stages
  <2> QED BY <1>1, <2>1, <2>2 DEF RunInv, Stages
<1>6. RowsKept
  BY <1>1 DEF RowsKept, RunInv, Stages
<1>7. NoStrandedRun'
  <2>1. SUFFICES ASSUME NEW r \in RunIds, status'[r] \in {"pending", "running"}, r \notin unsaved'
                 PROVE  \/ \E q \in Procs : run'[q] = r /\ pc'[q] # "clear"
                        \/ \E n \in DOMAIN jobs' : jobs'[n] = r
    BY DEF NoStrandedRun
  <2>2. \/ \E q \in Procs : run[q] = r /\ pc[q] # "clear"
        \/ \E n \in DOMAIN jobs : jobs[n] = r
    BY <1>1, <2>1 DEF NoStrandedRun
  <2> QED BY <1>2, <1>3, <2>2
<1> QED BY <1>4, <1>5, <1>6, <1>7

(* ... and out of it. *)
LEMMA TakeKeeps ==
    ASSUME RunInv, NoStrandedRun, NEW w \in Workers, TakeJob(w)
    PROVE  Owned' /\ Stages' /\ RowsKept /\ NoStrandedRun'
<1>0. /\ \A q \in Procs : run[q] \in RunIds \cup {0}
      /\ \A n \in DOMAIN jobs : jobs[n] \in RunIds
      /\ 0 \notin RunIds /\ w \in Procs /\ jobs \in Seq(RunIds) /\ Shape
  BY Bounds DEF RunInv, Shape, TypeOK
<1>1. /\ jobs # <<>> /\ jobs' = Tail(jobs) /\ proc = "up" /\ run[w] = 0
      /\ UNCHANGED <<status, rinst, rkind, at, items, proc, unsaved>>
      /\ pc'[w] = "mark" /\ run'[w] = jobs[1]
      /\ \A q \in Procs \ {w} : run'[q] = run[q] /\ pc'[q] = pc[q]
  BY <1>0 DEF TakeJob, Goto, rows, life, history, Shape, TypeOK, PathOK
<1>2. /\ 1 \in DOMAIN jobs
      /\ \A n \in DOMAIN jobs' : n + 1 \in DOMAIN jobs /\ n + 1 # 1 /\ jobs'[n] = jobs[n + 1]
      /\ \A n \in DOMAIN jobs \ {1} : n - 1 \in DOMAIN jobs' /\ jobs'[n - 1] = jobs[n]
      /\ DOMAIN jobs' \subseteq Nat
  BY <1>0, <1>1
<1>3. \A n \in DOMAIN jobs' : jobs'[n] # jobs[1]
  BY <1>2 DEF RunInv, Owned
<1>4. Owned'
  <2>1. \A p, q \in Procs : run'[p] # 0 /\ run'[p] = run'[q] => p = q
    BY <1>0, <1>1, <1>2 DEF RunInv, Owned
  <2>2. \A m, n \in DOMAIN jobs' : jobs'[m] = jobs'[n] => m = n
    <3> SUFFICES ASSUME NEW m \in DOMAIN jobs', NEW n \in DOMAIN jobs', jobs'[m] = jobs'[n]
                 PROVE  m = n
      OBVIOUS
    <3>1. m + 1 = n + 1 /\ m \in Nat /\ n \in Nat
      BY <1>2 DEF RunInv, Owned
    <3> QED BY <3>1
  <2>3. \A p \in Procs, n \in DOMAIN jobs' : run'[p] # jobs'[n]
    BY <1>1, <1>2, <1>3 DEF RunInv, Owned
  <2>4. \A p \in Procs : run'[p] # 0 => status'[run'[p]] # "none"
    BY <1>1, <1>2 DEF RunInv, Owned
  <2>5. \A n \in DOMAIN jobs' : status'[jobs'[n]] # "none"
    BY <1>1, <1>2 DEF RunInv, Owned
  <2> QED BY <1>1, <2>1, <2>2, <2>3, <2>4, <2>5 DEF Owned
<1>5. Stages'
  <2>1. \A q \in Procs : run'[q] # 0 => Fits(pc'[q], status'[run'[q]], run'[q] \in unsaved')
    <3>1. Fits("mark", status[jobs[1]], jobs[1] \in unsaved)
      BY <1>2 DEF RunInv, Stages, Fits, CleanPcs, ImportPcs
    <3> QED BY <1>1, <3>1 DEF RunInv, Stages
  <2>2. \A n \in DOMAIN jobs' : status'[jobs'[n]] \in {"pending", "deleted"}
    BY <1>1, <1>2 DEF RunInv, Stages
  <2> QED BY <1>1, <2>1, <2>2 DEF RunInv, Stages
<1>6. RowsKept
  BY <1>1 DEF RowsKept, RunInv, Stages
<1>7. NoStrandedRun'
  <2>1. SUFFICES ASSUME NEW r \in RunIds, status'[r] \in {"pending", "running"}, r \notin unsaved'
                 PROVE  \/ \E q \in Procs : run'[q] = r /\ pc'[q] # "clear"
                        \/ \E n \in DOMAIN jobs' : jobs'[n] = r
    BY DEF NoStrandedRun
  <2>2. \/ \E q \in Procs : run[q] = r /\ pc[q] # "clear"
        \/ \E n \in DOMAIN jobs : jobs[n] = r
    BY <1>1, <2>1 DEF NoStrandedRun
  <2>3. CASE \E q \in Procs : run[q] = r /\ pc[q] # "clear"
    BY <1>0, <1>1, <2>1, <2>3
  <2>4. ASSUME NEW n \in DOMAIN jobs, jobs[n] = r
        PROVE  \/ \E q \in Procs : run'[q] = r /\ pc'[q] # "clear"
               \/ \E m \in DOMAIN jobs' : jobs'[m] = r
    <3>1. CASE n = 1
      BY <1>0, <1>1, <2>4, <3>1
    <3>2. CASE n # 1
      BY <1>2, <2>4, <3>2
    <3> QED BY <3>1, <3>2
  <2> QED BY <2>2, <2>3, <2>4
<1> QED BY <1>4, <1>5, <1>6, <1>7

LEMMA LifeKeeps ==
    ASSUME RunInv, NoStrandedRun, Crash \/ Start
    PROVE  Owned' /\ Stages' /\ RowsKept /\ NoStrandedRun'
<1> USE DEF rows, history
<1>1. CASE Crash
  <2>1. /\ \A p \in Procs : run'[p] = 0 /\ pc'[p] = "idle"
        /\ jobs' = <<>> /\ proc' = "down"
        /\ UNCHANGED <<status, rinst, rkind, at, items>>
    BY <1>1 DEF Crash
  <2>2. DOMAIN jobs' = {}
    BY <2>1
  <2> QED BY <2>1, <2>2 DEF RunInv, Owned, Stages, RowsKept, NoStrandedRun
<1>2. CASE Start
  <2>1. /\ proc = "down" /\ UNCHANGED <<rinst, rkind, at, items, jobs, run, pc>>
        /\ proc' = "up" /\ unsaved \subseteq unsaved'
        /\ \A r \in RunIds :
             \/ status'[r] = "failed" /\ status[r] \in {"pending", "running"}
             \/ /\ status'[r] = status[r]
                /\ status[r] \in {"pending", "running"} => r \in unsaved'
    BY <1>2 DEF Start, Recover, local
  <2>2. jobs = <<>> /\ DOMAIN jobs = {} /\ \A p \in Procs : pc[p] = "idle" /\ run[p] = 0
    BY <2>1, Bounds DEF RunInv, Owned, Shape, PathOK, CarryPcs, ImportPcs, Procs
  <2>3. Owned' /\ Stages'
    BY <2>1, <2>2 DEF RunInv, Owned, Stages
  <2>4. RowsKept
    BY <2>1 DEF RunInv, Stages, RowsKept
  <2>5. NoStrandedRun'
    BY <2>1 DEF NoStrandedRun
  <2> QED BY <2>3, <2>4, <2>5
<1> QED BY <1>1, <1>2

-----------------------------------------------------------------------------
(* CreateRun and ImportManifest make a fresh row. *)
LEMMA CreateFresh ==
    ASSUME RunInv, NEW c \in Queuers, CreateRun(c)
    PROVE  pc'[c] = "send" /\ \E r \in RunIds : Fresh(c, r, "pending")
<1>0. Shape /\ run[c] = 0 /\ wantI[c] \in Instances /\ wantK[c] \in AllKinds
  BY DEF RunInv, Shape, PathOK, CreateRun, CarryPcs, ImportPcs
<1>1. PICK r \in RunIds :
         /\ IsNextId(r) /\ run'[c] = r /\ rinst'[r] = wantI[c] /\ rkind'[r] = wantK[c]
         /\ status' = [status EXCEPT ![r] = "pending"]
         /\ rinst' = [rinst EXCEPT ![r] = wantI[c]]
         /\ rkind' = [rkind EXCEPT ![r] = wantK[c]]
         /\ at' = [at EXCEPT ![r] = r]
  BY <1>0, CreateShape
<1>2. /\ OthersStay(c) /\ pc'[c] = "send"
      /\ UNCHANGED <<items, jobs, proc, unsaved>>
  BY <1>0, CreateShape DEF life, history
<1>3. at'[r] = r
  BY <1>0, <1>1 DEF Shape, TypeOK
<1> QED BY <1>0, <1>1, <1>2, <1>3 DEF Fresh, IsNextId

LEMMA ImportFresh ==
    ASSUME RunInv, NEW c \in Callers, NEW i \in Instances, NEW k \in AllKinds,
           ImportManifest(c, i, k)
    PROVE  pc'[c] = "import" /\ \E r \in RunIds : Fresh(c, r, "running")
<1>0. Shape /\ run[c] = 0 /\ c \in Procs
  BY Bounds DEF RunInv, Shape, PathOK, ImportManifest, CarryPcs, ImportPcs
<1>1. PICK r \in RunIds, a \in 0 .. MaxRuns :
         /\ IsNextId(r)
         /\ status' = [status EXCEPT ![r] = "running"]
         /\ rinst' = [rinst EXCEPT ![r] = i] /\ rkind' = [rkind EXCEPT ![r] = k]
         /\ at' = [at EXCEPT ![r] = a] /\ run' = [run EXCEPT ![c] = r]
  BY DEF ImportManifest
<1>2. /\ rinst'[r] = i /\ rkind'[r] = k /\ at'[r] = a /\ run'[c] = r
      /\ \A q \in Procs \ {c} : run'[q] = run[q]
  BY <1>0, <1>1 DEF Shape, TypeOK
<1>3. /\ pc'[c] = "import" /\ UNCHANGED <<items, jobs, proc, unsaved, held, wantI, wantK>>
      /\ \A q \in Procs \ {c} : pc'[q] = pc[q]
  BY <1>0 DEF ImportManifest, Goto, life, history, Shape, TypeOK
<1> QED BY <1>0, <1>1, <1>2, <1>3 DEF Fresh, IsNextId, OthersStay

(* A process that is not idle is alive. *)
LEMMA Alive ==
    ASSUME RunInv, NEW p \in Procs, pc[p] # "idle"
    PROVE  proc = "up"
BY DEF RunInv, Owned, Shape, TypeOK

(* What every step does to the rows and to who has them. *)
LEMMA RunStep ==
    ASSUME RunInv, NoStrandedRun, Next
    PROVE  Owned' /\ Stages' /\ RowsKept /\ NoStrandedRun'
<1>0. Shape' /\ (status \in [RunIds -> Statuses])'
  BY ShapeKept DEF RunInv, Shape, TypeOK
<1>1. ASSUME NEW c \in Queuers, QueueStep(c)
      PROVE  Owned' /\ Stages' /\ RowsKept /\ NoStrandedRun'
  <2>0. c \in Procs /\ proc = "up"
    <3>1. c \in Procs /\ pc[c] # "idle"
      BY <1>1, Bounds DEF QueueStep, CreateRun, CreateRunFails, SendJob, CancelSend,
           DeleteCanceledRow, Step
    <3> QED BY <3>1, Alive
  <2>1. CASE CreateRun(c)
    <3>1. PICK r \in RunIds : Fresh(c, r, "pending")
      BY <2>1, CreateFresh
    <3>2. pc'[c] = "send"
      BY <2>1, CreateFresh
    <3> QED BY <2>0, <3>1, <3>2, FreshKeeps
  <2>2. CASE SendJob(c)
    BY <2>0, <2>2, SendKeeps
  <2>3. CASE CreateRunFails(c) \/ CancelSend(c) \/ DeleteCanceledRow(c)
    <3>1. Calm(c) /\ Tidy(c)
      BY <2>3, QueueCalm
    <3> QED BY <1>0, <2>0, <3>1, CalmKeeps
  <2> QED BY <1>1, <2>1, <2>2, <2>3 DEF QueueStep
<1>2. ASSUME NEW c \in Queuers, NEW i \in Instances, NEW k \in AllKinds, MarkInstance(c, i, k)
      PROVE  Owned' /\ Stages' /\ RowsKept /\ NoStrandedRun'
  <2>1. c \in Procs /\ proc = "up"
    BY <1>2, Bounds DEF MarkInstance
  <2>2. Calm(c) /\ Tidy(c)
    BY <1>2, QueueCalm
  <2> QED BY <1>0, <2>1, <2>2, CalmKeeps
<1>3. ASSUME NEW w \in Workers, WorkStep(w)
      PROVE  Owned' /\ Stages' /\ RowsKept /\ NoStrandedRun'
  <2>1. CASE TakeJob(w)
    BY <2>1, TakeKeeps
  <2>2. CASE ~TakeJob(w)
    <3>1. w \in Procs /\ pc[w] # "idle"
      BY <1>3, <2>2, Bounds DEF WorkStep, MarkRunning, LoadTorrents, BackUpTorrent, WriteBlob,
           TorrentsDone, ExecuteFails, MarkFailed, MarkSuccess, InsertItems, SelectSurplus,
           RetentionDone, ClearInstance, Step
    <3>2. proc = "up"
      BY <3>1, Alive
    <3>3. Calm(w) /\ Tidy(w)
      BY <1>3, <2>2, WorkCalm
    <3> QED BY <1>0, <3>1, <3>2, <3>3, CalmKeeps
  <2> QED BY <2>1, <2>2
<1>4. ASSUME NEW p \in Workers \cup Callers, CleanStep(p)
      PROVE  Owned' /\ Stages' /\ RowsKept /\ NoStrandedRun'
  <2>1. p \in Procs /\ pc[p] # "idle"
    BY <1>4, Bounds DEF CleanStep, CollectItems, CleanupRuns, CountReferences, UnlinkBlobs, Step
  <2>2. proc = "up"
    BY <2>1, Alive
  <2>3. Calm(p) /\ Tidy(p)
    BY <1>4, CleanCalm
  <2> QED BY <1>0, <2>1, <2>2, <2>3, CalmKeeps
<1>5. ASSUME NEW c \in Callers,
             \/ DeleteNext(c) \/ EndDelete(c) \/ ImportStep(c)
             \/ \E R \in SUBSET RunIds : DeleteRuns(c, R)
      PROVE  Owned' /\ Stages' /\ RowsKept /\ NoStrandedRun'
  <2>1. c \in Procs /\ (pc[c] # "idle" \/ proc = "up")
    BY <1>5, Bounds DEF DeleteNext, EndDelete, ImportStep, ReadManifest, CopyBlob,
         ManifestDone, ImportItems, ImportFails, DownloadMissing, FetchBlob,
         CompleteImport, DeleteRuns, CleanPcs, Step
  <2>2. proc = "up"
    BY <2>1, Alive
  <2>3. Calm(c) /\ Tidy(c)
    BY <1>5, CallCalm
  <2> QED BY <1>0, <2>1, <2>2, <2>3, CalmKeeps
<1>6. ASSUME NEW c \in Callers, NEW i \in Instances, NEW k \in AllKinds, ImportManifest(c, i, k)
      PROVE  Owned' /\ Stages' /\ RowsKept /\ NoStrandedRun'
  <2>1. PICK r \in RunIds : Fresh(c, r, "running")
    BY <1>6, ImportFresh
  <2>2. pc'[c] = "import" /\ proc = "up" /\ c \in Queuers
    BY <1>6, ImportFresh, Bounds DEF ImportManifest
  <2> QED BY <2>1, <2>2, FreshKeeps
<1>7. ASSUME NEW c \in Callers, Request(c)
      PROVE  Owned' /\ Stages' /\ RowsKept /\ NoStrandedRun'
  <2>1. c \in Queuers
    BY Bounds
  <2>2. \/ \E i \in Instances, k \in AllKinds : MarkInstance(c, i, k)
        \/ \E i \in Instances, k \in AllKinds : ImportManifest(c, i, k)
        \/ \E R \in SUBSET RunIds : DeleteRuns(c, R)
    BY <1>7 DEF Request, DeleteRun, DeleteAllRuns
  <2> QED BY <1>2, <1>5, <1>6, <2>1, <2>2
<1>8. ASSUME NEW c \in Callers, CallStep(c)
      PROVE  Owned' /\ Stages' /\ RowsKept /\ NoStrandedRun'
  <2>1. c \in Queuers
    BY Bounds
  <2> QED BY <1>1, <1>5, <1>8, <2>1 DEF CallStep
<1>9. ASSUME NEW i \in Instances, NEW k \in Kinds, ScheduleDueBackup(i, k)
      PROVE  Owned' /\ Stages' /\ RowsKept /\ NoStrandedRun'
  BY <1>2, <1>9, Bounds DEF ScheduleDueBackup, AllKinds
<1>10. CASE Crash \/ Start
  BY <1>10, LifeKeeps
<1> QED BY <1>1, <1>3, <1>4, <1>7, <1>8, <1>9, <1>10, Bounds DEF Next

-----------------------------------------------------------------------------
(* Where the runs of a cleanup come from: retention's selection, or the     *)
(* existing run that a request deletes.                                     *)
BatchStep ==
    \A p \in Procs :
       \/ batch'[p] \subseteq batch[p]
       \/ /\ p \in Callers /\ batch'[p] \subseteq RunIds
          /\ \A r \in batch'[p] : Exists(r)
       \/ /\ p \in Workers /\ UNCHANGED rows
          /\ \E k \in Kinds : Surplus(rinst[run[p]], k, batch'[p])

LEMMA BatchMoves ==
    ASSUME RunInv, Next
    PROVE  BatchStep
<1> USE DEF rows
<1>0. batch \in [Procs -> SUBSET RunIds] /\ Shape
  BY DEF RunInv, Shape, TypeOK
<1>q. ASSUME batch' = batch PROVE BatchStep
  BY <1>q DEF BatchStep
<1>e. ASSUME NEW p \in Procs, batch' = [batch EXCEPT ![p] = {}]
      PROVE  BatchStep
  BY <1>0, <1>e DEF BatchStep
<1>1. ASSUME NEW c \in Queuers, QueueStep(c)
      PROVE  BatchStep
  <2>1. CASE CreateRun(c) \/ CancelSend(c)
    <3>1. batch' = batch
      BY <2>1 DEF CreateRun, CancelSend, Step
    <3> QED BY <1>q, <3>1
  <2>2. CASE CreateRunFails(c) \/ SendJob(c) \/ DeleteCanceledRow(c)
    <3>1. batch' = [batch EXCEPT ![c] = {}] /\ c \in Procs
      BY <2>2, Bounds DEF CreateRunFails, SendJob, DeleteCanceledRow, Return
    <3> QED BY <1>e, <3>1
  <2> QED BY <1>1, <2>1, <2>2 DEF QueueStep
<1>2. ASSUME NEW w \in Workers, WorkStep(w)
      PROVE  BatchStep
  <2>1. CASE \/ TakeJob(w) \/ MarkRunning(w) \/ LoadTorrents(w) \/ BackUpTorrent(w)
             \/ WriteBlob(w) \/ TorrentsDone(w) \/ ExecuteFails(w) \/ MarkFailed(w)
             \/ MarkSuccess(w) \/ InsertItems(w) \/ RetentionDone(w)
    <3>1. batch' = batch
      BY <2>1 DEF TakeJob, MarkRunning, LoadTorrents, BackUpTorrent, WriteBlob, TorrentsDone,
           ExecuteFails, MarkFailed, MarkSuccess, InsertItems, RetentionDone, Step
    <3> QED BY <1>q, <3>1
  <2>2. CASE ClearInstance(w)
    <3>1. batch' = [batch EXCEPT ![w] = {}] /\ w \in Procs
      BY <2>2, Bounds DEF ClearInstance, Return
    <3> QED BY <1>e, <3>1
  <2>3. CASE SelectSurplus(w)
    <3>1. PICK k \in kinds[w] :
             \E S \in SUBSET Rows(rinst[run[w]], k) :
                Surplus(rinst[run[w]], k, S) /\ batch' = [batch EXCEPT ![w] = S]
      BY <2>3 DEF SelectSurplus
    <3>2. UNCHANGED rows /\ k \in Kinds /\ w \in Procs
      BY <1>0, <2>3, Bounds DEF SelectSurplus, Shape, TypeOK
    <3>3. PICK S \in SUBSET Rows(rinst[run[w]], k) :
             Surplus(rinst[run[w]], k, S) /\ batch' = [batch EXCEPT ![w] = S]
      BY <3>1
    <3>4. batch'[w] = S /\ \A p \in Procs \ {w} : batch'[p] = batch[p]
      BY <1>0, <3>2, <3>3
    <3> QED BY <3>2, <3>3, <3>4 DEF BatchStep
  <2> QED BY <1>2, <2>1, <2>2, <2>3 DEF WorkStep
<1>3. ASSUME NEW p \in Workers \cup Callers, CleanStep(p)
      PROVE  BatchStep
  <2>1. p \in Procs /\ (batch' = batch \/ batch' = [batch EXCEPT ![p] = {}])
    BY <1>3, Bounds DEF CleanStep, CollectItems, CleanupRuns, CountReferences, UnlinkBlobs, Step
  <2> QED BY <1>e, <1>q, <2>1
<1>4. ASSUME NEW c \in Callers, CallStep(c) \/ Request(c)
      PROVE  BatchStep
  <2>0. c \in Procs /\ c \in Queuers
    BY Bounds
  <2>1. CASE QueueStep(c)
    BY <1>1, <2>0, <2>1
  <2>2. CASE DeleteNext(c)
    <3>1. PICK r \in rest[c] : batch' = [batch EXCEPT ![c] = IF Exists(r) THEN {r} ELSE {}]
      BY <2>2 DEF DeleteNext
    <3>2. r \in RunIds
      BY <1>0, <2>0 DEF Shape, TypeOK
    <3> QED BY <1>0, <2>0, <3>1, <3>2 DEF BatchStep
  <2>3. CASE EndDelete(c) \/ ImportFails(c) \/ CompleteImport(c)
    <3>1. batch' = [batch EXCEPT ![c] = {}]
      BY <2>3 DEF EndDelete, ImportFails, CompleteImport, Return
    <3> QED BY <1>e, <2>0, <3>1
  <2>4. CASE \/ ReadManifest(c) \/ CopyBlob(c) \/ ManifestDone(c) \/ ImportItems(c)
             \/ DownloadMissing(c) \/ FetchBlob(c) \/ Request(c)
    <3>1. batch' = batch
      BY <2>4 DEF ReadManifest, CopyBlob, ManifestDone, ImportItems, DownloadMissing,
           FetchBlob, Request, MarkInstance, ImportManifest, DeleteAllRuns, DeleteRun,
           DeleteRuns, Step
    <3> QED BY <1>q, <3>1
  <2> QED BY <1>4, <2>1, <2>2, <2>3, <2>4 DEF CallStep, ImportStep
<1>5. CASE Crash \/ Start \/ \E i \in Instances, k \in Kinds : ScheduleDueBackup(i, k)
  <2>1. batch' = batch \/ batch' = [p \in Procs |-> {}]
    BY <1>5 DEF Crash, Start, ScheduleDueBackup, MarkInstance, local
  <2> QED BY <2>1 DEF BatchStep
<1> QED BY <1>1, <1>2, <1>3, <1>4, <1>5, Bounds DEF Next

(* The rows' columns stay, and the runs of a cleanup are rows. *)
LEMMA ColumnsKept ==
    ASSUME RunInv, RowsKept, BatchStep, (batch \in [Procs -> SUBSET RunIds])'
    PROVE  Columns'
<1>1. \A r \in RunIds : IF status'[r] = "none" THEN rinst'[r] = None
                        ELSE rinst'[r] \in Instances /\ rkind'[r] \in AllKinds
  BY DEF RowsKept, RunInv, Columns
<1>2. ASSUME NEW p \in Procs, NEW r \in batch'[p]
      PROVE  status'[r] # "none"
  <2>1. r \in RunIds
    OBVIOUS
  <2>2. CASE r \in batch[p] \/ Exists(r)
    BY <2>1, <2>2 DEF RowsKept, RunInv, Columns, Exists
  <2> QED BY <2>1, <2>2 DEF BatchStep, Surplus, Rows
<1>3. ASSUME NEW w \in Workers, NEW r \in batch'[w]
      PROVE  rkind'[r] \in Kinds
  <2>1. r \in RunIds /\ w \in Procs /\ w \notin Callers
    BY Bounds
  <2>2. CASE r \in batch[w]
    BY <2>1, <2>2 DEF RowsKept, RunInv, Columns
  <2>3. CASE UNCHANGED rows /\ \E k \in Kinds : Surplus(rinst[run[w]], k, batch'[w])
    BY <2>3 DEF rows, Surplus, Rows
  <2> QED BY <2>1, <2>2, <2>3 DEF BatchStep
<1> QED BY <1>1, <1>2, <1>3 DEF Columns

(* Runs of r's instance and kind that were requested with it or later. *)
Newer(r) == {q \in RunIds \ {r} : /\ rinst[q] = rinst[r] /\ rkind[q] = rkind[r]
                                  /\ at[q] >= at[r]}

LEMMA RunIdsFinite == IsFiniteSet(RunIds)
BY FS_Interval, BackupsAssumption DEF RunIds

(* Retention's selection leaves Keep of them. *)
LEMMA SurplusSpares ==
    ASSUME Shape, NEW i, NEW k \in Kinds, NEW S, Surplus(i, k, S), NEW r \in S
    PROVE  Cardinality(Newer(r)) >= Keep[k] /\ rkind[r] = k
<1>1. /\ S \subseteq Rows(i, k) /\ Rows(i, k) \subseteq RunIds
      /\ \A q \in Rows(i, k) \ S : at[r] <= at[q]
  BY DEF Surplus, Rows
<1>2. /\ IsFiniteSet(Rows(i, k)) /\ IsFiniteSet(S) /\ IsFiniteSet(Newer(r))
      /\ IsFiniteSet(Rows(i, k) \ S)
  BY <1>1, RunIdsFinite, FS_Subset DEF Newer
<1>3. Cardinality(S) # 0
  BY <1>2, FS_EmptySet
<1>4. /\ Cardinality(S) \in Nat /\ Cardinality(Rows(i, k)) \in Nat /\ Keep[k] \in Nat
      /\ Cardinality(Newer(r)) \in Nat
  BY <1>2, FS_CardinalityType, BackupsAssumption
<1>5. Cardinality(S) = Cardinality(Rows(i, k)) - Keep[k]
  BY <1>3 DEF Surplus
<1>6. Cardinality(Rows(i, k) \ S) = Cardinality(Rows(i, k)) - Cardinality(Rows(i, k) \cap S)
  BY <1>2, FS_Difference
<1>7. Rows(i, k) \cap S = S
  BY <1>1
<1>8. Cardinality(Rows(i, k) \ S) = Keep[k]
  BY <1>4, <1>5, <1>6, <1>7
<1>9. Rows(i, k) \ S \subseteq Newer(r)
  <2>1. \A q \in RunIds : at[q] \in Nat
    BY Bounds DEF Shape, TypeOK
  <2> QED BY <1>1, <2>1 DEF Newer, Rows
<1>10. Cardinality(Rows(i, k) \ S) <= Cardinality(Newer(r))
  BY <1>2, <1>9, FS_Subset
<1>11. rkind[r] = k
  BY <1>1 DEF Rows
<1> QED BY <1>4, <1>8, <1>10, <1>11

LEMMA RetentionKept ==
    ASSUME RunInv, RetentionSparesNewest, RowsKept, BatchStep, Shape'
    PROVE  RetentionSparesNewest'
<1>1. SUFFICES ASSUME NEW w \in Workers, NEW r \in batch'[w]
               PROVE  Cardinality(Newer(r)') >= Keep[rkind'[r]]
  BY DEF RetentionSparesNewest, Newer
<1>2. r \in RunIds /\ w \in Procs /\ w \notin Callers
  BY Bounds DEF Shape, TypeOK
<1>3. IsFiniteSet(Newer(r)) /\ IsFiniteSet(Newer(r)')
  BY RunIdsFinite, FS_Subset DEF Newer
<1>4. CASE r \in batch[w]
  <2>1. status[r] # "none" /\ rinst[r] \in Instances /\ rkind[r] \in Kinds
    BY <1>2, <1>4 DEF RunInv, Columns
  <2>2. /\ rinst'[r] = rinst[r] /\ rkind'[r] = rkind[r] /\ at'[r] = at[r]
    BY <1>2, <2>1 DEF RowsKept
  <2>3. \A q \in Newer(r) : status[q] # "none"
    BY <2>1, BackupsAssumption DEF Newer, RunInv, Columns
  <2>4. Newer(r) \subseteq Newer(r)'
    BY <2>2, <2>3 DEF Newer, RowsKept
  <2>5. /\ Cardinality(Newer(r)) <= Cardinality(Newer(r)')
        /\ Cardinality(Newer(r)) \in Nat /\ Cardinality(Newer(r)') \in Nat
    BY <1>3, <2>4, FS_Subset, FS_CardinalityType
  <2>6. Cardinality(Newer(r)) >= Keep[rkind[r]] /\ Keep[rkind[r]] \in Nat
    BY <1>4, <2>1, BackupsAssumption DEF RetentionSparesNewest, Newer
  <2> QED BY <2>2, <2>5, <2>6
<1>5. CASE UNCHANGED rows /\ \E k \in Kinds : Surplus(rinst[run[w]], k, batch'[w])
  <2>1. PICK k \in Kinds : Surplus(rinst[run[w]], k, batch'[w])
    BY <1>5
  <2>2. Cardinality(Newer(r)) >= Keep[k] /\ rkind[r] = k
    BY <2>1, SurplusSpares DEF RunInv
  <2>3. Newer(r)' = Newer(r) /\ rkind'[r] = rkind[r]
    BY <1>5 DEF rows, Newer
  <2> QED BY <2>2, <2>3
<1> QED BY <1>2, <1>4, <1>5 DEF BatchStep

-----------------------------------------------------------------------------
LEMMA RunInit == Init => RunInv /\ NoStrandedRun /\ RetentionSparesNewest
<1> SUFFICES ASSUME Init PROVE RunInv /\ NoStrandedRun /\ RetentionSparesNewest
  OBVIOUS
<1>1. /\ \A p \in Procs : run[p] = 0 /\ batch[p] = {} /\ pc[p] = "idle"
      /\ \A r \in RunIds : status[r] = "none" /\ rinst[r] = None /\ items[r] = {}
      /\ jobs = <<>> /\ DOMAIN jobs = {} /\ proc = "up"
  BY DEF Init
<1>2. Shape
  BY ShapeInit
<1>3. Owned /\ Columns /\ Stages
  BY <1>1, Bounds DEF Owned, Columns, Stages
<1>4. NoStrandedRun /\ RetentionSparesNewest
  BY <1>1, Bounds DEF NoStrandedRun, RetentionSparesNewest
<1> QED BY <1>2, <1>3, <1>4 DEF RunInv

LEMMA RunInvKept ==
    RunInv /\ NoStrandedRun /\ RetentionSparesNewest /\ [Next]_vars =>
       RunInv' /\ NoStrandedRun' /\ RetentionSparesNewest' /\ RowsKept
<1> SUFFICES ASSUME RunInv, NoStrandedRun, RetentionSparesNewest, [Next]_vars
             PROVE  RunInv' /\ NoStrandedRun' /\ RetentionSparesNewest' /\ RowsKept
  OBVIOUS
<1>1. Shape'
  BY ShapeKept DEF RunInv
<1>2. CASE Next
  <2>1. Owned' /\ Stages' /\ RowsKept /\ NoStrandedRun'
    BY <1>2, RunStep
  <2>2. BatchStep /\ (batch \in [Procs -> SUBSET RunIds])'
    BY <1>1, <1>2, BatchMoves DEF Shape, TypeOK
  <2> QED BY <1>1, <2>1, <2>2, ColumnsKept, RetentionKept DEF RunInv
<1>3. CASE UNCHANGED vars
  <2>1. UNCHANGED <<status, rinst, rkind, at, items, jobs, run, pc, batch, proc, unsaved>>
    BY <1>3 DEF vars, rows, local, life, history
  <2>2. Owned' /\ Columns' /\ Stages'
    BY <2>1 DEF RunInv, Owned, Columns, Stages
  <2>3. NoStrandedRun'
    BY <2>1 DEF NoStrandedRun
  <2>4. RetentionSparesNewest'
    BY <2>1 DEF RetentionSparesNewest
  <2>5. RowsKept
    BY <2>1 DEF RowsKept, RunInv, Stages
  <2> QED BY <1>1, <2>2, <2>3, <2>4, <2>5 DEF RunInv
<1> QED BY <1>2, <1>3

(* A pending or running row always has a process, a job or a failed write  *)
(* behind it: with all cancellations, deletions, crashes and restarts that *)
(* come between, no row keeps its kind's schedule waiting for nobody.      *)
THEOREM RunsAreAttended == Spec => []NoStrandedRun
<1> QED BY RunInit, RunInvKept, PTL DEF Spec

(* Retention deletes no run with fewer than Keep runs of its kind and      *)
(* instance that are as new: not between the selection and the deletion    *)
(* either, while requests delete and imports add rows.                     *)
THEOREM RetentionIsSafe == Spec => []RetentionSparesNewest
<1> QED BY RunInit, RunInvKept, PTL DEF Spec

(* Success and failure are final until the row is deleted, and deletion is *)
(* final: late writes of workers and imports never bring a row back.       *)
THEOREM FinishedRunsStay == Spec => FinishedStays
<1>1. RowsKept => [\A r \in RunIds :
         /\ status[r] \in {"success", "failed"} => status'[r] \in {status[r], "deleted"}
         /\ status[r] = "deleted" => status'[r] = "deleted" /\ items'[r] = {}]_vars
  BY DEF RowsKept
<1> QED BY <1>1, RunInit, RunInvKept, PTL DEF Spec, FinishedStays

-----------------------------------------------------------------------------
(* The entries of inflight. *)

(* What stands behind an entry has a row of a known instance. *)
LEMMA HolderFacts ==
    ASSUME RunInv
    PROVE  /\ \A c \in Queuers : pc[c] = "create" => wantI[c] \in Instances
           /\ \A c \in Queuers : pc[c] = "send" =>
                 run[c] \in RunIds /\ status[run[c]] # "none" /\ rinst[run[c]] \in Instances
           /\ \A n \in DOMAIN jobs :
                 jobs[n] \in RunIds /\ status[jobs[n]] # "none" /\ rinst[jobs[n]] \in Instances
           /\ \A w \in Workers : pc[w] # "idle" =>
                 run[w] \in RunIds /\ status[run[w]] # "none" /\ rinst[run[w]] \in Instances
           /\ \A i \in Instances : inflight[i] \in RunIds \cup {0, None}
           /\ 0 \notin RunIds /\ None \notin RunIds /\ None # 0
<1>1. /\ \A c \in Queuers : pc[c] = "send" => run[c] \in RunIds /\ run[c] # 0 /\ c \in Procs
      /\ \A w \in Workers : pc[w] # "idle" => run[w] \in RunIds /\ run[w] # 0 /\ w \in Procs
  BY RunKnown, Bounds DEF RunInv, CarryPcs
<1>2. \A n \in DOMAIN jobs : jobs[n] \in RunIds
  BY DEF RunInv, Shape, TypeOK
<1>3. \A c \in Queuers : pc[c] = "create" => wantI[c] \in Instances
  BY DEF RunInv, Shape, PathOK
<1>4. \A i \in Instances : inflight[i] \in RunIds \cup {0, None}
  BY Bounds DEF RunInv, Shape, TypeOK
<1> QED BY <1>1, <1>2, <1>3, <1>4, Bounds DEF RunInv, Owned, Columns

(* A step that moves nobody who stands for an entry. *)
SameHolders ==
    /\ UNCHANGED <<inflight, jobs>>
    /\ \A c \in Queuers :
          /\ pc'[c] = "create" <=> pc[c] = "create"
          /\ pc[c] = "create" => wantI'[c] = wantI[c]
          /\ pc'[c] = "send" <=> pc[c] = "send"
          /\ pc[c] = "send" => run'[c] = run[c]
    /\ \A w \in Workers :
          /\ pc'[w] = "idle" <=> pc[w] = "idle"
          /\ pc[w] # "idle" => run'[w] = run[w]

LEMMA SameEntries ==
    ASSUME RunInv, Entries, RowsKept, SameHolders
    PROVE  Entries'
<1>1. \A r \in RunIds : status[r] # "none" => rinst'[r] = rinst[r]
  BY DEF RowsKept
<1>2. /\ \A c \in Queuers : pc'[c] = "create" => inflight'[wantI'[c]] = 0
      /\ \A c, d \in Queuers :
            pc'[c] = "create" /\ pc'[d] = "create" /\ wantI'[c] = wantI'[d] => c = d
      /\ \A i \in Instances :
            inflight'[i] = 0 => \E c \in Queuers : pc'[c] = "create" /\ wantI'[c] = i
  BY DEF Entries, SameHolders
<1>3. \A c \in Queuers : pc'[c] = "send" => inflight'[rinst'[run'[c]]] = run'[c]
  BY <1>1, HolderFacts DEF Entries, SameHolders
<1>4. \A n \in DOMAIN jobs' : inflight'[rinst'[jobs'[n]]] = jobs'[n]
  BY <1>1, HolderFacts DEF Entries, SameHolders
<1>5. \A w \in Workers : pc'[w] # "idle" => inflight'[rinst'[run'[w]]] = run'[w]
  BY <1>1, HolderFacts DEF Entries, SameHolders
<1>6. ASSUME NEW i \in Instances, NEW r \in RunIds, inflight'[i] = r
      PROVE  /\ rinst'[r] = i
             /\ \/ \E c \in Queuers : pc'[c] = "send" /\ run'[c] = r
                \/ \E n \in DOMAIN jobs' : jobs'[n] = r
                \/ \E w \in Workers : pc'[w] # "idle" /\ run'[w] = r
  <2>1. /\ rinst[r] = i
        /\ \/ \E c \in Queuers : pc[c] = "send" /\ run[c] = r
           \/ \E n \in DOMAIN jobs : jobs[n] = r
           \/ \E w \in Workers : pc[w] # "idle" /\ run[w] = r
    BY <1>6 DEF Entries, SameHolders
  <2>2. status[r] # "none"
    BY <2>1, HolderFacts
  <2> QED BY <1>1, <2>1, <2>2 DEF SameHolders
<1> QED BY <1>2, <1>3, <1>4, <1>5, <1>6 DEF Entries

(* How a step changes the entries, as SingleFlight tells it apart. *)
EntryStep ==
    \/ \A i \in Instances :
          inflight'[i] = inflight[i] \/ {inflight[i], inflight'[i]} \subseteq {0, None}
    \/ \E i \in Instances, r \in RunIds :
          inflight[i] = 0 /\ inflight' = [inflight EXCEPT ![i] = r]
    \/ \E i \in Instances :
          inflight[i] \in RunIds /\ inflight' = [inflight EXCEPT ![i] = None]
    \/ \A i \in Instances : inflight'[i] = None

LEMMA MarkEntries ==
    ASSUME RunInv, Entries, NEW c \in Queuers, NEW i \in Instances, NEW k \in AllKinds,
           MarkInstance(c, i, k)
    PROVE  Entries' /\ EntryStep
<1>1. /\ inflight[i] = None /\ inflight'[i] = 0
      /\ \A j \in Instances : j # i => inflight'[j] = inflight[j]
      /\ pc[c] = "idle" /\ pc'[c] = "create" /\ wantI'[c] = i
      /\ \A d \in Procs : d # c => pc'[d] = pc[d] /\ wantI'[d] = wantI[d]
      /\ UNCHANGED <<rinst, jobs, run>>
  BY Bounds DEF MarkInstance, Goto, rows, RunInv, Shape, TypeOK
<1>2. c \notin Workers /\ \A d \in Queuers : d \in Procs /\ \A w \in Workers : w \in Procs
  BY Bounds
<1>3. /\ \A d \in Queuers : pc[d] = "create" => wantI[d] # i
      /\ \A d \in Queuers : pc[d] = "send" => rinst[run[d]] # i
      /\ \A n \in DOMAIN jobs : rinst[jobs[n]] # i
      /\ \A w \in Workers : pc[w] # "idle" => rinst[run[w]] # i
  BY <1>1, HolderFacts DEF Entries
<1>4. EntryStep
  BY <1>1 DEF EntryStep
<1>5. /\ \A d \in Queuers : pc'[d] = "create" => inflight'[wantI'[d]] = 0
      /\ \A d, e \in Queuers :
            pc'[d] = "create" /\ pc'[e] = "create" /\ wantI'[d] = wantI'[e] => d = e
  BY <1>1, <1>2, <1>3, HolderFacts DEF Entries
<1>6. /\ \A d \in Queuers : pc'[d] = "send" => inflight'[rinst'[run'[d]]] = run'[d]
      /\ \A n \in DOMAIN jobs' : inflight'[rinst'[jobs'[n]]] = jobs'[n]
      /\ \A w \in Workers : pc'[w] # "idle" => inflight'[rinst'[run'[w]]] = run'[w]
  BY <1>1, <1>2, <1>3, HolderFacts, Bounds DEF Entries
<1>7. \A j \in Instances :
         inflight'[j] = 0 => \E d \in Queuers : pc'[d] = "create" /\ wantI'[d] = j
  BY <1>1, <1>2 DEF Entries
<1>8. ASSUME NEW j \in Instances, NEW r \in RunIds, inflight'[j] = r
      PROVE  /\ rinst'[r] = j
             /\ \/ \E d \in Queuers : pc'[d] = "send" /\ run'[d] = r
                \/ \E n \in DOMAIN jobs' : jobs'[n] = r
                \/ \E w \in Workers : pc'[w] # "idle" /\ run'[w] = r
  <2>1. inflight[j] = r
    BY <1>1, <1>8, HolderFacts
  <2>2. /\ rinst[r] = j
        /\ \/ \E d \in Queuers : pc[d] = "send" /\ run[d] = r
           \/ \E n \in DOMAIN jobs : jobs[n] = r
           \/ \E w \in Workers : pc[w] # "idle" /\ run[w] = r
    BY <2>1 DEF Entries
  <2> QED BY <1>1, <1>2, <2>2, Bounds
<1> QED BY <1>4, <1>5, <1>6, <1>7, <1>8 DEF Entries

LEMMA CreateEntries ==
    ASSUME RunInv, Entries, NEW c \in Queuers, CreateRun(c)
    PROVE  Entries' /\ EntryStep
<1>0. Shape
  BY DEF RunInv
<1>1. PICK r \in RunIds :
         /\ IsNextId(r) /\ run'[c] = r
         /\ rinst' = [rinst EXCEPT ![r] = wantI[c]]
         /\ inflight' = [inflight EXCEPT ![wantI[c]] = r]
  BY <1>0, CreateShape
<1>2. OthersStay(c) /\ pc[c] = "create" /\ pc'[c] = "send" /\ UNCHANGED jobs
  BY <1>0, CreateShape
<1>3. PICK i \in Instances : wantI[c] = i
  BY <1>2, HolderFacts
<1>4. /\ inflight[i] = 0 /\ inflight'[i] = r /\ rinst'[r] = i
      /\ \A j \in Instances : j # i => inflight'[j] = inflight[j]
      /\ \A q \in RunIds : q # r => rinst'[q] = rinst[q]
  BY <1>1, <1>2, <1>3 DEF Entries, RunInv, Shape, TypeOK
<1>5. /\ \A d \in Queuers : d # c => pc'[d] = pc[d] /\ wantI'[d] = wantI[d] /\ run'[d] = run[d]
      /\ \A w \in Workers : pc'[w] = pc[w] /\ run'[w] = run[w]
  BY <1>2, Bounds DEF OthersStay
<1>6. status[r] = "none"
  BY <1>1 DEF IsNextId
<1>7. /\ \A d \in Queuers : pc[d] = "create" /\ d # c => wantI[d] # i
      /\ \A d \in Queuers : pc[d] = "send" => rinst[run[d]] # i /\ run[d] # r
      /\ \A n \in DOMAIN jobs : rinst[jobs[n]] # i /\ jobs[n] # r
      /\ \A w \in Workers : pc[w] # "idle" => rinst[run[w]] # i /\ run[w] # r
  BY <1>2, <1>3, <1>4, <1>6, HolderFacts DEF Entries
<1>8. EntryStep
  BY <1>1, <1>3, <1>4 DEF EntryStep
<1>9. /\ \A d \in Queuers : pc'[d] = "create" => inflight'[wantI'[d]] = 0
      /\ \A d, e \in Queuers :
            pc'[d] = "create" /\ pc'[e] = "create" /\ wantI'[d] = wantI'[e] => d = e
  BY <1>2, <1>4, <1>5, <1>7, HolderFacts DEF Entries
<1>10. \A d \in Queuers : pc'[d] = "send" => inflight'[rinst'[run'[d]]] = run'[d]
  BY <1>1, <1>4, <1>5, <1>7, HolderFacts DEF Entries
<1>11. /\ \A n \in DOMAIN jobs' : inflight'[rinst'[jobs'[n]]] = jobs'[n]
       /\ \A w \in Workers : pc'[w] # "idle" => inflight'[rinst'[run'[w]]] = run'[w]
  BY <1>2, <1>4, <1>5, <1>7, HolderFacts DEF Entries
<1>12. \A j \in Instances :
         inflight'[j] = 0 => \E d \in Queuers : pc'[d] = "create" /\ wantI'[d] = j
  <2> SUFFICES ASSUME NEW j \in Instances, inflight'[j] = 0
               PROVE  \E d \in Queuers : pc'[d] = "create" /\ wantI'[d] = j
    OBVIOUS
  <2>1. j # i /\ inflight[j] = 0
    BY <1>4, HolderFacts
  <2> QED BY <1>3, <1>5, <2>1 DEF Entries
<1>13. ASSUME NEW j \in Instances, NEW q \in RunIds, inflight'[j] = q
      PROVE  /\ rinst'[q] = j
             /\ \/ \E d \in Queuers : pc'[d] = "send" /\ run'[d] = q
                \/ \E n \in DOMAIN jobs' : jobs'[n] = q
                \/ \E w \in Workers : pc'[w] # "idle" /\ run'[w] = q
  <2>1. CASE j = i
    BY <1>1, <1>2, <1>4, <1>13, <2>1
  <2>2. CASE j # i
    <3>1. /\ rinst[q] = j
          /\ \/ \E d \in Queuers : pc[d] = "send" /\ run[d] = q
             \/ \E n \in DOMAIN jobs : jobs[n] = q
             \/ \E w \in Workers : pc[w] # "idle" /\ run[w] = q
      BY <1>4, <1>13, <2>2 DEF Entries
    <3>2. q # r
      BY <1>7, <3>1
    <3> QED BY <1>2, <1>4, <1>5, <3>1, <3>2
  <2> QED BY <2>1, <2>2
<1> QED BY <1>8, <1>9, <1>10, <1>11, <1>12, <1>13 DEF Entries

LEMMA FailEntries ==
    ASSUME RunInv, Entries, NEW c \in Queuers, CreateRunFails(c)
    PROVE  Entries' /\ EntryStep
<1>0. Shape /\ c \in Procs
  BY Bounds DEF RunInv
<1>1. pc[c] = "create" /\ Return(c) /\ UNCHANGED <<rinst, jobs>>
  BY DEF CreateRunFails, rows
<1>2. PICK i \in Instances : wantI[c] = i
  BY <1>1, HolderFacts
<1>3. /\ inflight[i] = 0 /\ inflight'[i] = None
      /\ \A j \in Instances : j # i => inflight'[j] = inflight[j]
  BY <1>1, <1>2 DEF Entries, CreateRunFails, RunInv, Shape, TypeOK
<1>4. /\ pc'[c] = "idle"
      /\ \A d \in Queuers : d # c => pc'[d] = pc[d] /\ wantI'[d] = wantI[d] /\ run'[d] = run[d]
      /\ \A w \in Workers : pc'[w] = pc[w] /\ run'[w] = run[w]
  BY <1>0, <1>1, ReturnShape, Bounds
<1>5. /\ \A d \in Queuers : pc[d] = "create" /\ d # c => wantI[d] # i
      /\ \A d \in Queuers : pc[d] = "send" => rinst[run[d]] # i
      /\ \A n \in DOMAIN jobs : rinst[jobs[n]] # i
      /\ \A w \in Workers : pc[w] # "idle" => rinst[run[w]] # i
  BY <1>1, <1>2, <1>3, HolderFacts DEF Entries
<1>6. EntryStep
  BY <1>3 DEF EntryStep
<1>7. /\ \A d \in Queuers : pc'[d] = "create" => inflight'[wantI'[d]] = 0
      /\ \A d, e \in Queuers :
            pc'[d] = "create" /\ pc'[e] = "create" /\ wantI'[d] = wantI'[e] => d = e
  BY <1>3, <1>4, <1>5, HolderFacts DEF Entries
<1>8. /\ \A d \in Queuers : pc'[d] = "send" => inflight'[rinst'[run'[d]]] = run'[d]
      /\ \A n \in DOMAIN jobs' : inflight'[rinst'[jobs'[n]]] = jobs'[n]
      /\ \A w \in Workers : pc'[w] # "idle" => inflight'[rinst'[run'[w]]] = run'[w]
  BY <1>1, <1>3, <1>4, <1>5, HolderFacts DEF Entries
<1>9. \A j \in Instances :
         inflight'[j] = 0 => \E d \in Queuers : pc'[d] = "create" /\ wantI'[d] = j
  <2> SUFFICES ASSUME NEW j \in Instances, inflight'[j] = 0
               PROVE  \E d \in Queuers : pc'[d] = "create" /\ wantI'[d] = j
    OBVIOUS
  <2>1. j # i /\ inflight[j] = 0
    BY <1>3, HolderFacts
  <2> QED BY <1>2, <1>4, <2>1 DEF Entries
<1>10. ASSUME NEW j \in Instances, NEW r \in RunIds, inflight'[j] = r
       PROVE  /\ rinst'[r] = j
              /\ \/ \E d \in Queuers : pc'[d] = "send" /\ run'[d] = r
                 \/ \E n \in DOMAIN jobs' : jobs'[n] = r
                 \/ \E w \in Workers : pc'[w] # "idle" /\ run'[w] = r
  <2>1. inflight[j] = r
    BY <1>3, <1>10, HolderFacts
  <2>2. /\ rinst[r] = j
        /\ \/ \E d \in Queuers : pc[d] = "send" /\ run[d] = r
           \/ \E n \in DOMAIN jobs : jobs[n] = r
           \/ \E w \in Workers : pc[w] # "idle" /\ run[w] = r
    BY <2>1 DEF Entries
  <2> QED BY <1>1, <1>4, <2>2
<1> QED BY <1>6, <1>7, <1>8, <1>9, <1>10 DEF Entries

(* A canceled sender, or a worker that is done, gives its entry up. *)
LEMMA ReleaseEntries ==
    ASSUME RunInv, Entries, NEW p \in Procs, OthersStay(p), UNCHANGED <<rinst, jobs>>,
           \/ p \in Queuers /\ pc[p] = "send" /\ pc'[p] = "undo"
           \/ p \in Workers /\ pc[p] # "idle" /\ pc'[p] = "idle",
           inflight' = [inflight EXCEPT ![rinst[run[p]]] =
                          IF inflight[rinst[run[p]]] = run[p] THEN None
                          ELSE inflight[rinst[run[p]]]]
    PROVE  Entries' /\ EntryStep
<1>1. PICK i \in Instances : rinst[run[p]] = i
  BY HolderFacts
<1>2. inflight[i] = run[p] /\ run[p] \in RunIds
  BY <1>1, HolderFacts DEF Entries
<1>3. /\ inflight' = [inflight EXCEPT ![i] = None] /\ inflight'[i] = None
      /\ \A j \in Instances : j # i => inflight'[j] = inflight[j]
  BY <1>1, <1>2 DEF RunInv, Shape, TypeOK
<1>4. \A q \in Procs : q # p => pc'[q] = pc[q] /\ wantI'[q] = wantI[q] /\ run'[q] = run[q]
  BY DEF OthersStay
<1>5. EntryStep
  BY <1>2, <1>3 DEF EntryStep
<1>6. /\ \A q \in Queuers : q \in Procs /\ q \notin Workers
      /\ \A w \in Workers : w \in Procs
  BY Bounds
<1>7. /\ \A d \in Queuers : pc[d] = "create" => wantI[d] # i
      /\ \A d \in Queuers : pc[d] = "send" /\ d # p => rinst[run[d]] # i
      /\ \A n \in DOMAIN jobs : rinst[jobs[n]] # i
      /\ \A w \in Workers : pc[w] # "idle" /\ w # p => rinst[run[w]] # i
  <2>1. \A q \in Procs : run[q] = run[p] => q = p
    BY <1>2, HolderFacts DEF RunInv, Owned
  <2>2. \A n \in DOMAIN jobs : jobs[n] # run[p]
    BY DEF RunInv, Owned
  <2> QED BY <1>2, <1>6, <2>1, <2>2, HolderFacts DEF Entries
<1>8. /\ \A d \in Queuers : pc'[d] = "create" => inflight'[wantI'[d]] = 0
      /\ \A d, e \in Queuers :
            pc'[d] = "create" /\ pc'[e] = "create" /\ wantI'[d] = wantI'[e] => d = e
  BY <1>3, <1>4, <1>6, <1>7, HolderFacts DEF Entries
<1>9. /\ \A d \in Queuers : pc'[d] = "send" => inflight'[rinst'[run'[d]]] = run'[d]
      /\ \A n \in DOMAIN jobs' : inflight'[rinst'[jobs'[n]]] = jobs'[n]
      /\ \A w \in Workers : pc'[w] # "idle" => inflight'[rinst'[run'[w]]] = run'[w]
  BY <1>3, <1>4, <1>6, <1>7, HolderFacts DEF Entries
<1>10. \A j \in Instances :
         inflight'[j] = 0 => \E d \in Queuers : pc'[d] = "create" /\ wantI'[d] = j
  <2> SUFFICES ASSUME NEW j \in Instances, inflight'[j] = 0
               PROVE  \E d \in Queuers : pc'[d] = "create" /\ wantI'[d] = j
    OBVIOUS
  <2>1. j # i /\ inflight[j] = 0
    BY <1>3, HolderFacts
  <2>2. PICK d \in Queuers : pc[d] = "create" /\ wantI[d] = j
    BY <2>1 DEF Entries
  <2>3. d # p
    BY <1>6, <2>2
  <2> QED BY <1>4, <1>6, <2>2, <2>3
<1>11. ASSUME NEW j \in Instances, NEW r \in RunIds, inflight'[j] = r
       PROVE  /\ rinst'[r] = j
              /\ \/ \E d \in Queuers : pc'[d] = "send" /\ run'[d] = r
                 \/ \E n \in DOMAIN jobs' : jobs'[n] = r
                 \/ \E w \in Workers : pc'[w] # "idle" /\ run'[w] = r
  <2>1. j # i /\ inflight[j] = r
    BY <1>3, <1>11, HolderFacts
  <2>2. /\ rinst[r] = j
        /\ \/ \E d \in Queuers : pc[d] = "send" /\ run[d] = r
           \/ \E n \in DOMAIN jobs : jobs[n] = r
           \/ \E w \in Workers : pc[w] # "idle" /\ run[w] = r
    BY <2>1 DEF Entries
  <2>3. r # run[p]
    BY <1>1, <2>1, <2>2
  <2> QED BY <1>4, <1>6, <2>2, <2>3
<1> QED BY <1>5, <1>8, <1>9, <1>10, <1>11 DEF Entries

(* The job takes the entry over from the sender ... *)
LEMMA SendEntries ==
    ASSUME RunInv, Entries, NEW c \in Queuers, SendJob(c)
    PROVE  Entries' /\ EntryStep
<1>0. Shape /\ c \in Procs /\ jobs \in Seq(RunIds)
  BY Bounds DEF RunInv, Shape, TypeOK
<1>1. /\ pc[c] = "send" /\ Return(c) /\ UNCHANGED <<rinst, inflight>>
      /\ jobs' = Append(jobs, run[c])
  BY DEF SendJob, rows
<1>2. /\ pc'[c] = "idle"
      /\ \A d \in Queuers : d # c => pc'[d] = pc[d] /\ wantI'[d] = wantI[d] /\ run'[d] = run[d]
      /\ \A w \in Workers : pc'[w] = pc[w] /\ run'[w] = run[w]
  BY <1>0, <1>1, ReturnShape, Bounds
<1>3. run[c] \in RunIds /\ inflight[rinst[run[c]]] = run[c]
  BY <1>1, HolderFacts DEF Entries
<1>4. /\ DOMAIN jobs' = DOMAIN jobs \cup {Len(jobs) + 1}
      /\ jobs'[Len(jobs) + 1] = run[c] /\ \A n \in DOMAIN jobs : jobs'[n] = jobs[n]
  BY <1>0, <1>1, <1>3
<1>5. EntryStep
  BY <1>1 DEF EntryStep
<1>6. /\ \A d \in Queuers : pc'[d] = "create" => inflight'[wantI'[d]] = 0
      /\ \A d, e \in Queuers :
            pc'[d] = "create" /\ pc'[e] = "create" /\ wantI'[d] = wantI'[e] => d = e
      /\ \A j \in Instances :
            inflight'[j] = 0 => \E d \in Queuers : pc'[d] = "create" /\ wantI'[d] = j
  BY <1>1, <1>2 DEF Entries
<1>7. /\ \A d \in Queuers : pc'[d] = "send" => inflight'[rinst'[run'[d]]] = run'[d]
      /\ \A w \in Workers : pc'[w] # "idle" => inflight'[rinst'[run'[w]]] = run'[w]
  BY <1>1, <1>2 DEF Entries
<1>8. \A n \in DOMAIN jobs' : inflight'[rinst'[jobs'[n]]] = jobs'[n]
  BY <1>1, <1>3, <1>4 DEF Entries
<1>9. ASSUME NEW j \in Instances, NEW r \in RunIds, inflight'[j] = r
      PROVE  /\ rinst'[r] = j
             /\ \/ \E d \in Queuers : pc'[d] = "send" /\ run'[d] = r
                \/ \E n \in DOMAIN jobs' : jobs'[n] = r
                \/ \E w \in Workers : pc'[w] # "idle" /\ run'[w] = r
  <2>1. /\ rinst[r] = j
        /\ \/ \E d \in Queuers : pc[d] = "send" /\ run[d] = r
           \/ \E n \in DOMAIN jobs : jobs[n] = r
           \/ \E w \in Workers : pc[w] # "idle" /\ run[w] = r
    BY <1>1, <1>9 DEF Entries
  <2> QED BY <1>1, <1>2, <1>4, <2>1
<1> QED BY <1>5, <1>6, <1>7, <1>8, <1>9 DEF Entries

(* ... and the worker from the job. *)
LEMMA TakeEntries ==
    ASSUME RunInv, Entries, NEW w \in Workers, TakeJob(w)
    PROVE  Entries' /\ EntryStep
<1>0. Shape /\ w \in Procs /\ jobs \in Seq(RunIds)
  BY Bounds DEF RunInv, Shape, TypeOK
<1>1. /\ pc[w] = "idle" /\ pc'[w] = "mark" /\ run'[w] = jobs[1]
      /\ jobs # <<>> /\ jobs' = Tail(jobs) /\ UNCHANGED <<rinst, inflight, wantI>>
      /\ \A q \in Procs : q # w => pc'[q] = pc[q] /\ run'[q] = run[q]
  BY <1>0 DEF TakeJob, Goto, rows, Shape, TypeOK
<1>2. /\ 1 \in DOMAIN jobs
      /\ \A n \in DOMAIN jobs' : n + 1 \in DOMAIN jobs /\ jobs'[n] = jobs[n + 1]
      /\ \A n \in DOMAIN jobs \ {1} : n - 1 \in DOMAIN jobs' /\ jobs'[n - 1] = jobs[n]
  BY <1>0, <1>1
<1>3. /\ \A d \in Queuers : pc'[d] = pc[d] /\ run'[d] = run[d]
      /\ \A v \in Workers : v # w => pc'[v] = pc[v] /\ run'[v] = run[v]
  BY <1>1, Bounds
<1>4. EntryStep
  BY <1>1 DEF EntryStep
<1>5. /\ \A d \in Queuers : pc'[d] = "create" => inflight'[wantI'[d]] = 0
      /\ \A d, e \in Queuers :
            pc'[d] = "create" /\ pc'[e] = "create" /\ wantI'[d] = wantI'[e] => d = e
      /\ \A j \in Instances :
            inflight'[j] = 0 => \E d \in Queuers : pc'[d] = "create" /\ wantI'[d] = j
      /\ \A d \in Queuers : pc'[d] = "send" => inflight'[rinst'[run'[d]]] = run'[d]
  BY <1>1, <1>3 DEF Entries
<1>6. \A v \in Workers : pc'[v] # "idle" => inflight'[rinst'[run'[v]]] = run'[v]
  BY <1>1, <1>2, <1>3 DEF Entries
<1>7. \A n \in DOMAIN jobs' : inflight'[rinst'[jobs'[n]]] = jobs'[n]
  BY <1>1, <1>2 DEF Entries
<1>8. ASSUME NEW j \in Instances, NEW r \in RunIds, inflight'[j] = r
      PROVE  /\ rinst'[r] = j
             /\ \/ \E d \in Queuers : pc'[d] = "send" /\ run'[d] = r
                \/ \E n \in DOMAIN jobs' : jobs'[n] = r
                \/ \E v \in Workers : pc'[v] # "idle" /\ run'[v] = r
  <2>1. /\ rinst[r] = j
        /\ \/ \E d \in Queuers : pc[d] = "send" /\ run[d] = r
           \/ \E n \in DOMAIN jobs : jobs[n] = r
           \/ \E v \in Workers : pc[v] # "idle" /\ run[v] = r
    BY <1>1, <1>8 DEF Entries
  <2>2. CASE \E d \in Queuers : pc[d] = "send" /\ run[d] = r
    BY <1>1, <1>3, <2>1, <2>2
  <2>3. ASSUME NEW n \in DOMAIN jobs, jobs[n] = r
        PROVE  \/ \E m \in DOMAIN jobs' : jobs'[m] = r
               \/ \E v \in Workers : pc'[v] # "idle" /\ run'[v] = r
    <3>1. CASE n = 1
      BY <1>1, <2>3, <3>1
    <3>2. CASE n # 1
      BY <1>2, <2>3, <3>2
    <3> QED BY <3>1, <3>2
  <2>4. CASE \E v \in Workers : pc[v] # "idle" /\ run[v] = r
    BY <1>1, <1>3, <2>1, <2>4
  <2> QED BY <1>1, <2>1, <2>2, <2>3, <2>4
<1> QED BY <1>4, <1>5, <1>6, <1>7, <1>8 DEF Entries

(* The other steps leave the entries and those who stand for them alone. *)
LEMMA QuietHolders ==
    ASSUME RunInv, NEW p \in Procs, OthersStay(p), UNCHANGED <<inflight, jobs>>,
           \/ p \in Queuers /\ {pc[p], pc'[p]} \cap {"create", "send"} = {}
           \/ p \in Workers /\ pc[p] # "idle" /\ pc'[p] # "idle" /\ run'[p] = run[p]
    PROVE  SameHolders
BY Bounds DEF SameHolders, OthersStay

LEMMA EntriesKept ==
    ASSUME RunInv, Entries, RowsKept, Next
    PROVE  Entries' /\ EntryStep
<1> USE DEF rows, life, history
<1>0. Shape
  BY DEF RunInv
<1>same. ASSUME SameHolders PROVE Entries' /\ EntryStep
  BY <1>same, SameEntries DEF EntryStep, SameHolders
<1>1. ASSUME NEW c \in Queuers, QueueStep(c)
      PROVE  Entries' /\ EntryStep
  <2>0. c \in Procs
    BY Bounds
  <2>1. CASE CreateRun(c)
    BY <2>1, CreateEntries
  <2>2. CASE CreateRunFails(c)
    BY <2>2, FailEntries
  <2>3. CASE SendJob(c)
    BY <2>3, SendEntries
  <2>4. CASE CancelSend(c)
    <3>1. /\ pc[c] = "send" /\ pc'[c] = "undo" /\ OthersStay(c) /\ UNCHANGED <<rinst, jobs>>
          /\ inflight' = [inflight EXCEPT ![rinst[run[c]]] =
                            IF inflight[rinst[run[c]]] = run[c] THEN None
                            ELSE inflight[rinst[run[c]]]]
      BY <1>0, <2>0, <2>4 DEF CancelSend, Step, Goto, OthersStay, Shape, TypeOK
    <3> QED BY <2>0, <3>1, ReleaseEntries
  <2>5. CASE DeleteCanceledRow(c)
    <3>1. pc[c] = "undo" /\ pc'[c] = "idle" /\ OthersStay(c) /\ UNCHANGED <<inflight, jobs>>
      BY <1>0, <2>0, <2>5, ReturnShape DEF DeleteCanceledRow, OthersStay
    <3>2. SameHolders
      BY <2>0, <3>1, QuietHolders
    <3> QED BY <1>same, <3>2
  <2> QED BY <1>1, <2>1, <2>2, <2>3, <2>4, <2>5 DEF QueueStep
<1>2. ASSUME NEW w \in Workers, WorkStep(w)
      PROVE  Entries' /\ EntryStep
  <2>0. w \in Procs
    BY Bounds
  <2>1. CASE TakeJob(w)
    BY <2>1, TakeEntries
  <2>2. CASE ClearInstance(w)
    <3>1. /\ pc[w] = "clear" /\ pc'[w] = "idle" /\ OthersStay(w) /\ UNCHANGED <<rinst, jobs>>
          /\ inflight' = [inflight EXCEPT ![rinst[run[w]]] =
                            IF inflight[rinst[run[w]]] = run[w] THEN None
                            ELSE inflight[rinst[run[w]]]]
      BY <1>0, <2>0, <2>2, ReturnShape DEF ClearInstance, OthersStay
    <3> QED BY <2>0, <3>1, ReleaseEntries
  <2>3. CASE ~TakeJob(w) /\ ~ClearInstance(w)
    <3>1. OthersStay(w)
      BY <1>2, <2>3, WorkCalm DEF Calm
    <3>2. CASE MarkRunning(w) \/ LoadTorrents(w) \/ TorrentsDone(w)
      BY <1>0, <1>same, <2>0, <3>1, <3>2, QuietHolders
         DEF MarkRunning, LoadTorrents, TorrentsDone, Step, Goto, Shape, TypeOK
    <3>2b. CASE BackUpTorrent(w) \/ WriteBlob(w)
      <4>1. /\ pc[w] \in {"torrents", "write"} /\ pc'[w] \in {"torrents", "write", "fail"}
            /\ UNCHANGED <<inflight, jobs, run>>
        BY <1>0, <2>0, <3>2b DEF BackUpTorrent, WriteBlob, Goto, Shape, TypeOK
      <4> QED BY <1>same, <2>0, <3>1, <4>1, QuietHolders
    <3>3. CASE ExecuteFails(w) \/ MarkFailed(w) \/ MarkSuccess(w)
      BY <1>0, <1>same, <2>0, <3>1, <3>3, QuietHolders
         DEF ExecuteFails, MarkFailed, MarkSuccess, Step, Goto, Shape, TypeOK
    <3>4. CASE InsertItems(w) \/ SelectSurplus(w) \/ RetentionDone(w)
      BY <1>0, <1>same, <2>0, <3>1, <3>4, QuietHolders
         DEF InsertItems, SelectSurplus, RetentionDone, Step, Goto, Shape, TypeOK
    <3> QED BY <1>2, <2>3, <3>2, <3>2b, <3>3, <3>4 DEF WorkStep
  <2> QED BY <2>1, <2>2, <2>3
<1>3. ASSUME NEW p \in Workers \cup Callers, CleanStep(p)
      PROVE  Entries' /\ EntryStep
  <2>0. p \in Procs /\ (p \in Workers \/ p \in Queuers)
    BY Bounds
  <2>1. OthersStay(p)
    BY <1>3, CleanCalm DEF Calm
  <2>2. /\ pc[p] \in CleanPcs /\ pc'[p] \in CleanPcs \cup {"retain", "next"}
        /\ UNCHANGED <<inflight, jobs, run>>
    BY <1>0, <1>3, <2>0 DEF CleanStep, CollectItems, CleanupRuns, CountReferences, UnlinkBlobs,
         Step, Goto, CleanPcs, Shape, TypeOK
  <2>3. SameHolders
    BY <2>0, <2>1, <2>2, QuietHolders DEF CleanPcs
  <2> QED BY <1>same, <2>3
<1>4. ASSUME NEW c \in Callers,
             DeleteNext(c) \/ EndDelete(c) \/ \E R \in SUBSET RunIds : DeleteRuns(c, R)
      PROVE  Entries' /\ EntryStep
  <2>0. c \in Procs /\ c \in Queuers
    BY Bounds
  <2>1. OthersStay(c)
    BY <1>4, CallCalm DEF Calm
  <2>2. /\ pc[c] \in CleanPcs \cup {"next", "idle"} /\ pc'[c] \in {"next", "idle", "collect"}
        /\ UNCHANGED <<inflight, jobs>>
    BY <1>0, <1>4, <2>0 DEF DeleteNext, EndDelete, DeleteRuns, Return, Goto, Shape, TypeOK
  <2>3. SameHolders
    BY <2>0, <2>1, <2>2, QuietHolders DEF CleanPcs
  <2> QED BY <1>same, <2>3
<1>5. ASSUME NEW c \in Callers, ImportStep(c)
      PROVE  Entries' /\ EntryStep
  <2>0. c \in Procs /\ c \in Queuers
    BY Bounds
  <2>1. OthersStay(c)
    BY <1>5, CallCalm DEF Calm
  <2>2. /\ pc[c] \in ImportPcs /\ pc'[c] \in ImportPcs \cup {"idle"}
        /\ UNCHANGED <<inflight, jobs>>
    <3>1. CASE ReadManifest(c) \/ CopyBlob(c) \/ ManifestDone(c) \/ ImportItems(c)
      BY <1>0, <2>0, <3>1 DEF ReadManifest, CopyBlob, ManifestDone, ImportItems, Step,
           Goto, Shape, TypeOK, ImportPcs
    <3>2. CASE ImportFails(c) \/ DownloadMissing(c) \/ FetchBlob(c) \/ CompleteImport(c)
      BY <1>0, <2>0, <3>2 DEF ImportFails, DownloadMissing, FetchBlob, CompleteImport,
           Return, Goto, Shape, TypeOK, ImportPcs
    <3> QED BY <1>5, <3>1, <3>2 DEF ImportStep
  <2>3. SameHolders
    BY <2>0, <2>1, <2>2, QuietHolders DEF ImportPcs
  <2> QED BY <1>same, <2>3
<1>6. ASSUME NEW c \in Callers, Request(c)
      PROVE  Entries' /\ EntryStep
  <2>0. c \in Procs /\ c \in Queuers
    BY Bounds
  <2>1. CASE \E i \in Instances, k \in AllKinds : MarkInstance(c, i, k)
    BY <2>0, <2>1, MarkEntries
  <2>2. ASSUME NEW i \in Instances, NEW k \in AllKinds, ImportManifest(c, i, k)
        PROVE  Entries' /\ EntryStep
    <3>1. /\ OthersStay(c) /\ pc'[c] = "import"
      BY <2>2, ImportFresh DEF Fresh
    <3>2. pc[c] = "idle" /\ UNCHANGED <<inflight, jobs>>
      BY <2>2 DEF ImportManifest
    <3>3. SameHolders
      BY <2>0, <3>1, <3>2, QuietHolders
    <3> QED BY <1>same, <3>3
  <2>3. CASE \E R \in SUBSET RunIds : DeleteRuns(c, R)
    BY <1>4, <2>3
  <2> QED BY <1>6, <2>1, <2>2, <2>3 DEF Request, DeleteRun, DeleteAllRuns
<1>7. ASSUME NEW i \in Instances, NEW k \in Kinds, ScheduleDueBackup(i, k)
      PROVE  Entries' /\ EntryStep
  BY <1>7, MarkEntries, Bounds DEF ScheduleDueBackup, AllKinds
<1>8. CASE Crash
  <2>1. /\ \A i \in Instances : inflight'[i] = None
        /\ \A p \in Procs : pc'[p] = "idle"
        /\ jobs' = <<>>
    BY <1>8 DEF Crash
  <2>2. DOMAIN jobs' = {} /\ None # 0 /\ None \notin RunIds
    BY <2>1, HolderFacts
  <2> QED BY <2>1, <2>2, Bounds DEF Entries, EntryStep
<1>9. CASE Start
  <2>1. SameHolders
    BY <1>9 DEF Start, SameHolders, local
  <2> QED BY <1>same, <2>1
<1>10. ASSUME NEW c \in Callers, CallStep(c)
       PROVE  Entries' /\ EntryStep
  BY <1>1, <1>4, <1>5, <1>10, Bounds DEF CallStep
<1> QED BY <1>1, <1>2, <1>3, <1>6, <1>7, <1>8, <1>9, <1>10, Bounds DEF Next

(* What the entries say of AtWork and of Holders. *)
LEMMA WorkAtEntry ==
    ASSUME RunInv, Entries, NEW i \in Instances
    PROVE  AtWork(i) = IF inflight[i] \in RunIds THEN {inflight[i]} ELSE {}
<1>0. /\ \A c \in Queuers : pc[c] = "send" => run[c] \in RunIds
      /\ \A n \in DOMAIN jobs : jobs[n] \in RunIds
      /\ \A w \in Workers : pc[w] # "idle" => run[w] \in RunIds
  <2>1. TypeOK /\ PathOK BY DEF RunInv, Shape
  <2>2. \A p \in Procs : run[p] # 0 => run[p] \in RunIds
    BY <2>1, Bounds DEF TypeOK, RunIds
  <2>3. \A n \in DOMAIN jobs : jobs[n] \in RunIds BY <2>1 DEF TypeOK
  <2>4. \A c \in Queuers : pc[c] = "send" => run[c] # 0 BY <2>1 DEF PathOK, CarryPcs
  <2>5. \A w \in Workers : pc[w] # "idle" => run[w] # 0 BY <2>1 DEF PathOK
  <2> QED BY <2>2, <2>3, <2>4, <2>5 DEF Procs
<1>1. \A r \in AtWork(i) : r \in RunIds /\ r = inflight[i]
  BY <1>0 DEF AtWork, Attended, Entries
<1>2. \A r \in RunIds : inflight[i] = r => r \in AtWork(i)
  BY DEF AtWork, Attended, Entries
<1> QED BY <1>1, <1>2

LEMMA OneHolder ==
    ASSUME RunInv, Entries, NEW i \in Instances
    PROVE  IF inflight[i] = None THEN Holders(i) = {} ELSE \E h : Holders(i) = {h}
<1>1. /\ \A c \in Queuers : pc[c] = "create" /\ wantI[c] = i => inflight[i] = 0
      /\ \A c \in Queuers : pc[c] = "send" /\ rinst[run[c]] = i => inflight[i] = run[c]
      /\ \A n \in DOMAIN jobs : rinst[jobs[n]] = i => inflight[i] = jobs[n]
      /\ \A w \in Workers : pc[w] # "idle" /\ rinst[run[w]] = i => inflight[i] = run[w]
  BY DEF Entries
<1>2. CASE inflight[i] = None
  BY <1>1, <1>2, HolderFacts DEF Holders
<1>3. CASE inflight[i] = 0
  <2>1. PICK c \in Queuers : pc[c] = "create" /\ wantI[c] = i
    BY <1>3 DEF Entries
  <2>2. \A d \in Queuers : pc[d] = "create" /\ wantI[d] = i => d = c
    BY <2>1 DEF Entries
  <2>3. Holders(i) = {c}
    BY <1>1, <1>3, <2>1, <2>2, HolderFacts DEF Holders
  <2> QED BY <1>3, <2>3, HolderFacts
<1>4. ASSUME NEW r \in RunIds, inflight[i] = r
      PROVE  \E h : Holders(i) = {h}
  <2>0. rinst[r] = i /\ 0 # r /\ \A c \in Queuers : ~(pc[c] = "create" /\ wantI[c] = i)
    BY <1>1, <1>4, HolderFacts DEF Entries
  <2>1. /\ \A p, q \in Procs : run[p] = r /\ run[q] = r => p = q
        /\ \A m, n \in DOMAIN jobs : jobs[m] = r /\ jobs[n] = r => m = n
        /\ \A p \in Procs, n \in DOMAIN jobs : ~(run[p] = r /\ jobs[n] = r)
    BY <2>0 DEF RunInv, Owned
  <2>2. ASSUME NEW c \in Queuers, pc[c] = "send", run[c] = r
        PROVE  Holders(i) = {c}
    BY <1>1, <1>4, <2>0, <2>1, <2>2, Bounds DEF Holders
  <2>3. ASSUME NEW n \in DOMAIN jobs, jobs[n] = r
        PROVE  Holders(i) = {n}
    BY <1>1, <1>4, <2>0, <2>1, <2>3, Bounds DEF Holders
  <2>4. ASSUME NEW w \in Workers, pc[w] # "idle", run[w] = r
        PROVE  Holders(i) = {w}
    BY <1>1, <1>4, <2>0, <2>1, <2>4, Bounds DEF Holders
  <2>5. \/ \E c \in Queuers : pc[c] = "send" /\ run[c] = r
        \/ \E n \in DOMAIN jobs : jobs[n] = r
        \/ \E w \in Workers : pc[w] # "idle" /\ run[w] = r
    BY <1>4 DEF Entries
  <2> HIDE DEF Holders
  <2> QED BY <2>2, <2>3, <2>4, <2>5
<1> QED BY <1>2, <1>3, <1>4, HolderFacts

(* RunInv and the properties it carries along. *)
RunsInv == RunInv /\ NoStrandedRun /\ RetentionSparesNewest

LEMMA EntriesInit == Init => Entries
<1> SUFFICES ASSUME Init PROVE Entries
  OBVIOUS
<1>1. /\ \A p \in Procs : pc[p] = "idle" /\ run[p] = 0
      /\ \A i \in Instances : inflight[i] = None
      /\ jobs = <<>> /\ DOMAIN jobs = {} /\ None # 0 /\ None \notin RunIds
  BY Bounds DEF Init
<1> QED BY <1>1, Bounds DEF Entries

LEMMA EntriesInvariant == RunsInv /\ Entries /\ [Next]_vars => RunsInv' /\ Entries'
<1> SUFFICES ASSUME RunsInv, Entries, [Next]_vars PROVE RunsInv' /\ Entries'
  OBVIOUS
<1>1. RunsInv' /\ RowsKept
  BY RunInvKept DEF RunsInv
<1>2. CASE Next
  BY <1>1, <1>2, EntriesKept DEF RunsInv
<1>3. CASE UNCHANGED vars
  BY <1>1, <1>3 DEF vars, rows, local, Entries
<1> QED BY <1>1, <1>2, <1>3

(* An instance has an entry exactly while one request, job or worker       *)
(* stands for it, for any number of instances, requests and workers.       *)
THEOREM InflightIsExact == Spec => []InflightExact
<1>1. RunsInv /\ Entries => InflightExact
  <2> SUFFICES ASSUME RunsInv, Entries, NEW i \in Instances
               PROVE  Cardinality(Holders(i)) = IF inflight[i] = None THEN 0 ELSE 1
    BY DEF InflightExact
  <2>1. IF inflight[i] = None THEN Holders(i) = {} ELSE \E h : Holders(i) = {h}
    BY OneHolder DEF RunsInv
  <2> QED BY <2>1, FS_EmptySet, FS_Singleton
<1>2. Init => RunsInv /\ Entries
  BY RunInit, EntriesInit DEF RunsInv
<1> QED BY <1>1, <1>2, EntriesInvariant, PTL DEF Spec

(* The service implements SingleFlight with instances as keys: CreateRun   *)
(* begins a job, a canceled send and the end of a worker's job end it, a   *)
(* crash ends all.                                                         *)
THEOREM OneBackupRefines == Spec => OneBackupPerInstance
<1> DEFINE Busy == [i \in Instances |-> AtWork(i)]
<1>1. Init => Exclusion!Init
  <2> SUFFICES ASSUME Init PROVE Exclusion!Init
    OBVIOUS
  <2>1. RunInv /\ Entries
    BY RunInit, EntriesInit
  <2>2. \A i \in Instances : AtWork(i) = {}
    BY <2>1, WorkAtEntry, Bounds DEF Init
  <2> QED BY <2>2 DEF Exclusion!Init
<1>2. RunsInv /\ Entries /\ [Next]_vars => [Exclusion!Next]_Busy
  <2> SUFFICES ASSUME RunsInv, Entries, [Next]_vars
               PROVE  Exclusion!Next \/ Busy' = Busy
    OBVIOUS
  <2>1. RunInv /\ RunInv' /\ Entries' /\ RowsKept
    BY EntriesInvariant, RunInvKept DEF RunsInv
  <2>2. EntryStep
    <3>1. CASE Next
      BY <2>1, <3>1, EntriesKept
    <3>2. CASE UNCHANGED vars
      BY <3>2 DEF vars, EntryStep
    <3> QED BY <3>1, <3>2
  <2>3. \A i \in Instances :
           AtWork(i) = IF inflight[i] \in RunIds THEN {inflight[i]} ELSE {}
    BY <2>1, WorkAtEntry
  <2>4. \A i \in Instances :
           AtWork(i)' = IF inflight'[i] \in RunIds THEN {inflight'[i]} ELSE {}
    <3> SUFFICES ASSUME NEW i \in Instances
                 PROVE  (AtWork(i) = IF inflight[i] \in RunIds THEN {inflight[i]} ELSE {})'
      OBVIOUS
    <3> QED BY <2>1, WorkAtEntry, PTL
  <2>5. inflight \in [Instances -> RunIds \cup {0, None}] /\ 0 \notin RunIds /\ None \notin RunIds
    BY <2>1, HolderFacts, Bounds DEF RunInv, Shape, TypeOK
  <2>6. CASE \A i \in Instances :
                inflight'[i] = inflight[i] \/ {inflight[i], inflight'[i]} \subseteq {0, None}
    <3>1. \A i \in Instances : AtWork(i)' = AtWork(i)
      BY <2>3, <2>4, <2>5, <2>6
    <3> QED BY <3>1
  <2>7. ASSUME NEW i \in Instances, NEW r \in RunIds,
               inflight[i] = 0 /\ inflight' = [inflight EXCEPT ![i] = r]
        PROVE  Exclusion!Next
    <3>1. AtWork(i) = {} /\ AtWork(i)' = {r}
      BY <2>3, <2>4, <2>5, <2>7
    <3>2. \A j \in Instances \ {i} : AtWork(j)' = AtWork(j)
      BY <2>3, <2>4, <2>5, <2>7
    <3>3. Exclusion!Begin(i, r)
      BY <3>1, <3>2 DEF Exclusion!Begin
    <3> QED BY <3>3 DEF Exclusion!Next
  <2>8. ASSUME NEW i \in Instances,
               inflight[i] \in RunIds /\ inflight' = [inflight EXCEPT ![i] = None]
        PROVE  Exclusion!Next
    <3>1. AtWork(i) # {} /\ AtWork(i)' = {}
      BY <2>3, <2>4, <2>5, <2>8
    <3>2. \A j \in Instances \ {i} : AtWork(j)' = AtWork(j)
      BY <2>3, <2>4, <2>5, <2>8
    <3>3. Exclusion!End(i)
      BY <3>1, <3>2 DEF Exclusion!End
    <3> QED BY <3>3 DEF Exclusion!Next
  <2>9. CASE \A i \in Instances : inflight'[i] = None
    <3>1. \A i \in Instances : AtWork(i)' = {}
      BY <2>4, <2>5, <2>9
    <3> QED BY <3>1 DEF Exclusion!Next, Exclusion!Restart
  <2> QED BY <2>2, <2>6, <2>7, <2>8, <2>9 DEF EntryStep
<1>3. Init => RunsInv /\ Entries
  BY RunInit, EntriesInit DEF RunsInv
<1> QED BY <1>1, <1>2, <1>3, EntriesInvariant, PTL
        DEF Spec, OneBackupPerInstance, Exclusion!Spec

-----------------------------------------------------------------------------
(* Blobs. *)

(* A step of p that leaves the files the others rely on, or exposes them. *)
Aside(p) ==
    /\ OthersStay(p)
    /\ \A q \in Procs \ {p} : /\ todo'[q] = todo[q] /\ doomed'[q] = doomed[q]
                              /\ late[q] \subseteq late'[q]
    /\ exposed \subseteq exposed'
    /\ \A b \in Safe : b \in Safe' \/ Users(b) \subseteq exposed'

(* A blob stays safe when its file stays and nobody closes it. *)
LEMMA SafeStays ==
    ASSUME NEW p \in Procs, OthersStay(p), \A q \in Procs \ {p} : sought'[q] = sought[q],
           NEW b \in Safe, b \in blobs => b \in blobs', b \in torn => b \in torn' \cup blobs',
           b \notin Opens(p)
    PROVE  b \in Safe'
<1>1. CASE b \in blobs
  BY <1>1 DEF Safe
<1>2. CASE b \in torn /\ b \in Copying
  <2>1. PICK q \in Procs : b \in Opens(q)
    BY <1>2 DEF Copying
  <2>2. q # p /\ pc'[q] = pc[q] /\ sought'[q] = sought[q]
    BY <2>1 DEF OthersStay
  <2>3. b \in Opens(q)'
    BY <2>1, <2>2 DEF Opens
  <2>4. b \in Copying'
    BY <2>3 DEF Copying
  <2> QED BY <1>2, <2>4 DEF Safe
<1> QED BY <1>1, <1>2 DEF Safe

(* Most steps leave the files alone. *)
LEMMA AsideSame ==
    ASSUME NEW p \in Procs, OthersStay(p), pc[p] # "copy", UNCHANGED <<blobs, torn>>,
           \A q \in Procs \ {p} : /\ todo'[q] = todo[q] /\ doomed'[q] = doomed[q]
                                  /\ late[q] \subseteq late'[q] /\ sought'[q] = sought[q],
           exposed \subseteq exposed'
    PROVE  Aside(p) /\ Safe \subseteq Safe'
<1>1. Opens(p) = {}
  BY DEF Opens
<1>2. ASSUME NEW b \in Safe PROVE b \in Safe'
  BY <1>1, SafeStays
<1> QED BY <1>2 DEF Aside

(* The runs of items and of holders are users of their blobs. *)
LEMMA UserFacts ==
    /\ \A r \in RunIds : \A b \in BlobOf(items[r]) : r \in Users(b)
    /\ \A q \in Procs : pc[q] \in HoldPcs => \A b \in Needs(q) : run[q] \in Users(b)
<1>1. \A r \in RunIds : \A b \in BlobOf(items[r]) : r \in Users(b)
  BY DEF BlobOf, Users
<1>2. ASSUME NEW q \in Procs, pc[q] \in HoldPcs, NEW b \in Needs(q)
      PROVE  run[q] \in Users(b)
  <2>1. b \in Relies(q)
    BY <1>2 DEF Needs, HoldPcs, Relies
  <2> QED BY <2>1 DEF Users
<1> QED BY <1>1, <1>2

(* What p needs stays safe when it is not exposed. *)
LEMMA NeedsStay ==
    ASSUME Files, NEW p \in Procs, Aside(p), pc[p] \in HoldPcs, run[p] \notin exposed'
    PROVE  Needs(p) \subseteq Safe'
<1>1. run[p] \notin exposed /\ Needs(p) \subseteq Safe
  BY DEF Aside, Files, FilesOf
<1> QED BY <1>1, UserFacts DEF Aside

LEMMA FilesKept ==
    ASSUME Files, NEW p \in Procs, Aside(p), FilesOf(p)',
           \A r \in RunIds :
              \/ items'[r] \subseteq items[r]
              \/ /\ \A q \in Procs \ {p} : pc[q] = "unlink" => r \in late'[q]
                 /\ r \in exposed' \/ BlobOf(items'[r]) \subseteq Safe'
    PROVE  Files'
<1>0. /\ exposed \subseteq exposed'
      /\ \A b \in Safe : b \in Safe' \/ Users(b) \subseteq exposed'
  BY DEF Aside
<1>1. ASSUME NEW q \in Procs, q # p
      PROVE  FilesOf(q)'
  <2>1. /\ pc'[q] = pc[q] /\ run'[q] = run[q] /\ held'[q] = held[q] /\ todo'[q] = todo[q]
        /\ doomed'[q] = doomed[q] /\ late[q] \subseteq late'[q] /\ FilesOf(q)
    BY <1>1 DEF Aside, OthersStay, Files
  <2>2. ASSUME pc[q] = "unlink", NEW r \in RunIds \ late'[q]
        PROVE  BlobOf(items'[r]) \cap doomed[q] = {}
    <3>1. items'[r] \subseteq items[r] /\ r \notin late[q]
      BY <1>1, <2>1, <2>2
    <3>2. BlobOf(items[r]) \cap doomed[q] = {}
      BY <2>1, <2>2, <3>1 DEF FilesOf
    <3> QED BY <3>1, <3>2 DEF BlobOf
  <2>3. Needs(q)' = Needs(q)
    BY <2>1 DEF Needs
  <2>4. ASSUME pc[q] \in HoldPcs, run[q] \notin exposed'
        PROVE  Needs(q) \subseteq Safe'
    <3>1. Needs(q) \subseteq Safe
      BY <1>0, <2>1, <2>4 DEF FilesOf
    <3>2. \A b \in Needs(q) : run[q] \in Users(b)
      BY <2>4, UserFacts
    <3> QED BY <1>0, <2>4, <3>1, <3>2
  <2>5. pc[q] \in {"idle", "mark", "load"} => held[q] = {}
    BY <2>1 DEF FilesOf
  <2> QED BY <2>1, <2>2, <2>3, <2>4, <2>5 DEF FilesOf, BlobOf
<1>2. ASSUME NEW r \in RunIds \ exposed'
      PROVE  BlobOf(items'[r]) \subseteq Safe'
  <2>1. CASE items'[r] \subseteq items[r]
    <3>1. BlobOf(items[r]) \subseteq Safe
      BY <1>0 DEF Files
    <3>2. BlobOf(items[r]) \subseteq Safe'
      BY <1>0, <3>1, UserFacts
    <3> QED BY <2>1, <3>2 DEF BlobOf
  <2>2. CASE r \in exposed' \/ BlobOf(items'[r]) \subseteq Safe'
    BY <2>2
  <2> QED BY <2>1, <2>2
<1>3. Files' <=> /\ \A q \in Procs : FilesOf(q)'
                 /\ \A r \in RunIds \ exposed' : BlobOf(items'[r]) \subseteq Safe'
  BY DEF Files, BlobOf
<1> QED BY <1>1, <1>2, <1>3

(* Where p has no files to care for. *)
LEMMA NoFiles ==
    ASSUME NEW p \in Procs,
           \/ pc'[p] \notin HoldPcs \cup {"idle", "mark", "load", "unlink"}
           \/ pc'[p] = "idle" /\ held'[p] = {}
    PROVE  FilesOf(p)'
BY DEF FilesOf, HoldPcs

(* Where p goes on with what it holds. *)
LEMMA HoldFiles ==
    ASSUME Files, NEW p \in Procs, Aside(p), pc[p] \in HoldPcs, pc'[p] \in HoldPcs,
           run'[p] = run[p], run[p] \in exposed' \/ Needs(p)' \subseteq Needs(p) \cup Safe'
    PROVE  FilesOf(p)'
<1>1. run[p] \notin exposed' => Needs(p)' \subseteq Safe'
  BY NeedsStay
<1> QED BY <1>1 DEF FilesOf, HoldPcs

(* Processes that return. *)
LEMMA ReturnFiles ==
    ASSUME RunInv, Files, NEW p \in Procs, Return(p), UNCHANGED <<items, files, late, exposed>>,
           pc[p] # "copy"
    PROVE  Files'
<1>1. /\ OthersStay(p) /\ pc'[p] = "idle" /\ held'[p] = {}
      /\ \A q \in Procs \ {p} : todo'[q] = todo[q] /\ doomed'[q] = doomed[q]
  BY ReturnShape DEF OthersStay, RunInv
<1>2. Aside(p)
  BY <1>1, AsideSame
<1>3. FilesOf(p)'
  BY <1>1, NoFiles
<1> QED BY <1>2, <1>3, FilesKept

(* Processes that only move on, with what they hold. *)
LEMMA StepFiles ==
    ASSUME RunInv, Files, NEW p \in Procs, NEW from, NEW to, Step(p, from, to),
           UNCHANGED <<files, late, exposed>>, from # "copy",
           \A r \in RunIds : items'[r] \subseteq items[r],
           \/ to \notin HoldPcs \cup {"idle", "mark", "load", "unlink"}
           \/ from = "mark" /\ to = "load"
           \/ from \in HoldPcs /\ to \in HoldPcs
    PROVE  Files'
<1>1. /\ OthersStay(p) /\ pc[p] = from /\ pc'[p] = to /\ UNCHANGED <<held, run, todo, doomed>>
  BY DEF Step, Goto, OthersStay, RunInv, Shape, TypeOK
<1>2. Aside(p)
  BY <1>1, AsideSame
<1>3. FilesOf(p)'
  <2>1. CASE to \notin HoldPcs \cup {"idle", "mark", "load", "unlink"}
    BY <1>1, <2>1, NoFiles
  <2>2. CASE from = "mark" /\ to = "load"
    BY <1>1, <2>2 DEF Files, FilesOf, HoldPcs
  <2>3. CASE from \in HoldPcs /\ to \in HoldPcs
    <3>1. Needs(p)' = Needs(p)
      BY <1>1 DEF Needs
    <3> QED BY <1>1, <1>2, <2>3, <3>1, HoldFiles
  <2> QED BY <2>1, <2>2, <2>3
<1> QED BY <1>2, <1>3, FilesKept

LEMMA QueueFiles ==
    ASSUME RunInv, Files, NEW c \in Queuers,
           QueueStep(c) \/ \E i \in Instances, k \in AllKinds : MarkInstance(c, i, k)
    PROVE  Files'
<1> USE DEF rows, life, history
<1>0. c \in Procs /\ Shape
  BY Bounds DEF RunInv
<1>1. CASE CreateRun(c)
  <2>1. /\ OthersStay(c) /\ pc[c] = "create" /\ pc'[c] = "send"
        /\ UNCHANGED <<items, files, todo, doomed, late, exposed>>
    BY <1>0, <1>1, CreateShape
  <2>2. Aside(c)
    BY <1>0, <2>1, AsideSame
  <2>3. FilesOf(c)'
    BY <1>0, <2>1, NoFiles DEF HoldPcs
  <2> QED BY <1>0, <2>1, <2>2, <2>3, FilesKept
<1>2. CASE CreateRunFails(c) \/ SendJob(c) \/ DeleteCanceledRow(c)
  <2>1. Return(c) /\ UNCHANGED <<items, files, late, exposed>> /\ pc[c] # "copy"
    BY <1>2 DEF CreateRunFails, SendJob, DeleteCanceledRow
  <2> QED BY <1>0, <2>1, ReturnFiles
<1>3. CASE CancelSend(c)
  <2>1. Step(c, "send", "undo") /\ UNCHANGED <<items, files, late, exposed>>
    BY <1>3 DEF CancelSend
  <2> QED BY <1>0, <2>1, StepFiles DEF HoldPcs
<1>4. ASSUME NEW i \in Instances, NEW k \in AllKinds, MarkInstance(c, i, k)
      PROVE  Files'
  <2>1. /\ OthersStay(c) /\ pc[c] = "idle" /\ pc'[c] = "create"
        /\ UNCHANGED <<items, files, todo, doomed, late, exposed>>
    BY <1>0, <1>4 DEF MarkInstance, Goto, OthersStay, Shape, TypeOK
  <2>2. Aside(c)
    BY <1>0, <2>1, AsideSame
  <2>3. FilesOf(c)'
    BY <1>0, <2>1, NoFiles DEF HoldPcs
  <2> QED BY <1>0, <2>1, <2>2, <2>3, FilesKept
<1> QED BY <1>1, <1>2, <1>3, <1>4 DEF QueueStep

(* Looking at a torrent: a file that is there, or that has to be written. *)
LEMMA LookFiles ==
    ASSUME RunInv, Files, NEW w \in Workers, BackUpTorrent(w)
    PROVE  Files'
<1>0. w \in Procs /\ Shape /\ w \notin Queuers
  BY Bounds DEF RunInv
<1>1. /\ pc[w] = "torrents" /\ pc'[w] \in {"torrents", "write"} /\ OthersStay(w)
      /\ UNCHANGED <<items, blobs, torn, run, doomed, late>> /\ exposed \subseteq exposed'
      /\ \A q \in Procs \ {w} : todo'[q] = todo[q] /\ sought'[q] = sought[q]
  BY <1>0 DEF BackUpTorrent, Goto, OthersStay, Shape, TypeOK, rows
<1>2. Aside(w)
  BY <1>0, <1>1, AsideSame
<1>3. run[w] \in exposed' \/ Needs(w)' \subseteq Needs(w) \cup Safe'
  <2>1. PICK t \in todo[w] :
           \/ \E b \in blobs \cup torn :
                /\ held' = [held EXCEPT ![w] = held[w] \cup {<<t, b>>}]
                /\ exposed' = IF b \in torn THEN exposed \cup {run[w]} ELSE exposed
           \/ UNCHANGED held
    BY DEF BackUpTorrent
  <2>2. CASE UNCHANGED held
    <3>1. Needs(w)' \subseteq Needs(w)
      BY <1>0, <2>2 DEF Needs
    <3> QED BY <3>1
  <2>3. ASSUME NEW b \in blobs \cup torn, held' = [held EXCEPT ![w] = held[w] \cup {<<t, b>>}],
               exposed' = IF b \in torn THEN exposed \cup {run[w]} ELSE exposed
        PROVE  run[w] \in exposed' \/ Needs(w)' \subseteq Needs(w) \cup Safe'
    <3>1. held'[w] = held[w] \cup {<<t, b>>}
      BY <1>0, <2>3 DEF Shape, TypeOK
    <3>2. Needs(w)' \subseteq Needs(w) \cup {b}
      BY <1>0, <3>1 DEF Needs
    <3>3. CASE b \in torn
      BY <2>3, <3>3
    <3>4. CASE b \in blobs
      BY <1>1, <3>2, <3>4 DEF Safe
    <3> QED BY <2>3, <3>3, <3>4
  <2> QED BY <2>1, <2>2, <2>3
<1>4. FilesOf(w)'
  <2>1. pc[w] \in HoldPcs /\ pc'[w] \in HoldPcs /\ run'[w] = run[w]
    BY <1>1 DEF HoldPcs
  <2> QED BY <1>0, <1>2, <1>3, <2>1, HoldFiles
<1> QED BY <1>0, <1>1, <1>2, <1>4, FilesKept

(* os.WriteFile by p, who has no file open. *)
LEMMA WriteAside ==
    ASSUME NEW p \in Procs, OthersStay(p), pc[p] # "copy", NEW b \in Blobs,
           FileWritten(b) \/ FileCut(b) \/ UNCHANGED <<blobs, torn, exposed>>,
           \A q \in Procs \ {p} : /\ todo'[q] = todo[q] /\ doomed'[q] = doomed[q]
                                  /\ late[q] \subseteq late'[q] /\ sought'[q] = sought[q]
    PROVE  Aside(p)
<1>1. Opens(p) = {}
  BY DEF Opens
<1>2. exposed \subseteq exposed'
  BY DEF FileWritten, FileCut
<1>3. ASSUME NEW a \in Safe, ~(Users(a) \subseteq exposed') PROVE a \in Safe'
  <2>1. /\ a \in blobs => a \in blobs'
        /\ a \in torn => a \in torn' \cup blobs'
    <3>1. CASE FileWritten(b)
      BY <3>1 DEF FileWritten
    <3>2. CASE FileCut(b)
      <4>1. a # b
        BY <1>3, <3>2 DEF FileCut
      <4> QED BY <3>2, <4>1 DEF FileCut
    <3>3. CASE UNCHANGED <<blobs, torn, exposed>>
      BY <3>3
    <3> QED BY <3>1, <3>2, <3>3
  <2> QED BY <1>1, <2>1, SafeStays
<1> QED BY <1>2, <1>3 DEF Aside

LEMMA WriteFiles ==
    ASSUME RunInv, Files, NEW w \in Workers, WriteBlob(w)
    PROVE  Files'
<1>0. w \in Procs /\ Shape /\ w \notin Queuers
  BY Bounds DEF RunInv
<1>1. /\ pc[w] = "write" /\ OthersStay(w) /\ UNCHANGED <<items, run, todo, doomed, late>>
      /\ \A q \in Procs \ {w} : sought'[q] = sought[q]
  BY <1>0 DEF WriteBlob, Goto, OthersStay, Shape, TypeOK, rows
<1>2. PICK t \in Torrents, b \in Blobs :
         \/ /\ FileWritten(b) /\ pc' = [pc EXCEPT ![w] = "torrents"]
            /\ held' = [held EXCEPT ![w] = held[w] \cup {<<t, b>>}]
         \/ /\ FileCut(b) \/ UNCHANGED <<blobs, torn, exposed>>
            /\ pc' = [pc EXCEPT ![w] = "fail"]
  BY DEF WriteBlob, Goto
<1>3. Aside(w)
  <2>1. FileWritten(b) \/ FileCut(b) \/ UNCHANGED <<blobs, torn, exposed>>
    BY <1>2
  <2> QED BY <1>0, <1>1, <2>1, WriteAside
<1>4. FilesOf(w)'
  <2>1. CASE /\ FileWritten(b) /\ pc' = [pc EXCEPT ![w] = "torrents"]
             /\ held' = [held EXCEPT ![w] = held[w] \cup {<<t, b>>}]
    <3>1. pc'[w] = "torrents" /\ held'[w] = held[w] \cup {<<t, b>>}
      BY <1>0, <2>1 DEF Shape, TypeOK
    <3>2. b \in Safe'
      BY <2>1 DEF FileWritten, Safe
    <3>3. Needs(w)' \subseteq Needs(w) \cup Safe'
      BY <1>0, <3>1, <3>2 DEF Needs
    <3>4. pc[w] \in HoldPcs /\ pc'[w] \in HoldPcs /\ run'[w] = run[w]
      BY <1>1, <3>1 DEF HoldPcs
    <3> QED BY <1>0, <1>3, <3>3, <3>4, HoldFiles
  <2>2. CASE pc' = [pc EXCEPT ![w] = "fail"]
    <3>1. pc'[w] = "fail"
      BY <1>0, <2>2 DEF Shape, TypeOK
    <3> QED BY <1>0, <3>1, NoFiles DEF HoldPcs
  <2> QED BY <1>2, <2>1, <2>2
<1> QED BY <1>0, <1>1, <1>3, <1>4, FilesKept

LEMMA WorkFiles ==
    ASSUME RunInv, Files, NEW w \in Workers, WorkStep(w)
    PROVE  Files'
<1> USE DEF rows, life, history
<1>0. w \in Procs /\ Shape /\ w \notin Queuers /\ FilesOf(w)
  BY Bounds DEF RunInv, Files
<1>1. CASE TakeJob(w)
  <2>1. /\ OthersStay(w) /\ pc[w] = "idle" /\ pc'[w] = "mark"
        /\ UNCHANGED <<held, items, files, todo, doomed, late, exposed>>
    BY <1>0, <1>1 DEF TakeJob, Goto, OthersStay, Shape, TypeOK
  <2>2. Aside(w)
    BY <1>0, <2>1, AsideSame
  <2>3. FilesOf(w)'
    BY <1>0, <2>1 DEF FilesOf, HoldPcs
  <2> QED BY <1>0, <2>1, <2>2, <2>3, FilesKept
<1>2. CASE MarkRunning(w)
  <2>1. /\ Step(w, "mark", "load") \/ Step(w, "mark", "clear")
        /\ UNCHANGED <<items, files, late, exposed>>
    BY <1>2 DEF MarkRunning
  <2>2. CASE Step(w, "mark", "load")
    BY <1>0, <2>1, <2>2, StepFiles DEF HoldPcs
  <2>3. CASE Step(w, "mark", "clear")
    BY <1>0, <2>1, <2>3, StepFiles DEF HoldPcs
  <2> QED BY <2>1, <2>2, <2>3
<1>3. CASE LoadTorrents(w)
  <2>1. /\ OthersStay(w) /\ pc[w] = "load" /\ pc'[w] = "torrents"
        /\ UNCHANGED <<held, items, files, doomed, late, exposed>>
        /\ \A q \in Procs \ {w} : todo'[q] = todo[q]
    BY <1>0, <1>3 DEF LoadTorrents, Goto, OthersStay, Shape, TypeOK
  <2>2. Aside(w)
    BY <1>0, <2>1, AsideSame
  <2>3. held'[w] = {}
    BY <1>0, <2>1 DEF FilesOf
  <2>4. FilesOf(w)'
    BY <1>0, <2>1, <2>3 DEF FilesOf, Needs
  <2> QED BY <1>0, <2>1, <2>2, <2>4, FilesKept
<1>4. CASE BackUpTorrent(w) \/ WriteBlob(w)
  BY <1>4, LookFiles, WriteFiles
<1>5. CASE TorrentsDone(w)
  <2>1. Step(w, "torrents", "success") /\ UNCHANGED <<items, files, late, exposed>>
    BY <1>5 DEF TorrentsDone
  <2> QED BY <1>0, <2>1, StepFiles DEF HoldPcs
<1>6. CASE ExecuteFails(w)
  <2>1. Step(w, pc[w], "fail") /\ UNCHANGED <<items, files, late, exposed>> /\ pc[w] # "copy"
    BY <1>6 DEF ExecuteFails
  <2> QED BY <1>0, <2>1, StepFiles DEF HoldPcs
<1>7. CASE MarkFailed(w)
  <2>1. Step(w, "fail", "clear") /\ UNCHANGED <<items, files, late, exposed>>
    BY <1>7 DEF MarkFailed
  <2> QED BY <1>0, <2>1, StepFiles DEF HoldPcs
<1>8. CASE MarkSuccess(w)
  <2>1. Step(w, "success", "items") /\ UNCHANGED <<items, files, late, exposed>>
    BY <1>8 DEF MarkSuccess
  <2> QED BY <1>0, <2>1, StepFiles DEF HoldPcs
<1>9. CASE InsertItems(w)
  <2>1. /\ pc[w] = "items" /\ OthersStay(w) /\ pc'[w] = "retain"
        /\ UNCHANGED <<files, todo, doomed, exposed>>
    BY <1>0, <1>9 DEF InsertItems, Goto, OthersStay, Shape, TypeOK
  <2>2. FilesOf(w)'
    BY <1>0, <2>1, NoFiles DEF HoldPcs
  <2>3. CASE Store(run[w], held[w])
    <3>0. \A q \in Procs : late[q] \subseteq late'[q]
      BY <2>3 DEF Store
    <3>1. Aside(w)
      BY <1>0, <2>1, <3>0, AsideSame
    <3>2. \A q \in Procs : pc[q] = "unlink" => run[w] \in late'[q]
      BY <2>3 DEF Store
    <3>3. \A r \in RunIds : items'[r] = items[r] \/ (r = run[w] /\ items'[r] = held[w])
      BY <1>0, <2>3 DEF Store, Shape, TypeOK
    <3>4. run[w] \in exposed' \/ BlobOf(held[w]) \subseteq Safe'
      <4>1. BlobOf(held[w]) = Needs(w)
        BY <1>0 DEF BlobOf, Needs
      <4> QED BY <1>0, <2>1, <3>1, <4>1, NeedsStay DEF HoldPcs
    <3> QED BY <1>0, <2>2, <3>1, <3>2, <3>3, <3>4, FilesKept
  <2>4. CASE UNCHANGED <<items, late>>
    <3>1. Aside(w)
      BY <1>0, <2>1, <2>4, AsideSame
    <3> QED BY <1>0, <2>2, <2>4, <3>1, FilesKept
  <2> QED BY <1>9, <2>3, <2>4 DEF InsertItems
<1>10. CASE SelectSurplus(w)
  <2>1. /\ OthersStay(w) /\ pc[w] = "retain" /\ pc'[w] \in {"retain", "collect"}
        /\ UNCHANGED <<items, files, todo, doomed, late, exposed>>
    BY <1>0, <1>10 DEF SelectSurplus, Goto, OthersStay, Shape, TypeOK
  <2>2. Aside(w)
    BY <1>0, <2>1, AsideSame
  <2>3. FilesOf(w)'
    BY <1>0, <2>1, NoFiles DEF HoldPcs
  <2> QED BY <1>0, <2>1, <2>2, <2>3, FilesKept
<1>11. CASE RetentionDone(w)
  <2>1. Step(w, "retain", "clear") /\ UNCHANGED <<items, files, late, exposed>>
    BY <1>11 DEF RetentionDone
  <2> QED BY <1>0, <2>1, StepFiles DEF HoldPcs
<1>12. CASE ClearInstance(w)
  <2>1. Return(w) /\ UNCHANGED <<items, files, late, exposed>> /\ pc[w] # "copy"
    BY <1>12 DEF ClearInstance
  <2> QED BY <1>0, <2>1, ReturnFiles
<1> QED BY <1>1, <1>2, <1>3, <1>4, <1>5, <1>6, <1>7, <1>8, <1>9, <1>10, <1>11, <1>12 DEF WorkStep

(* Unlinking: who relied on a blob that goes is exposed from then on. *)
LEMMA UnlinkFiles ==
    ASSUME RunInv, Files, NEW p \in Workers \cup Callers, UnlinkBlobs(p)
    PROVE  Files'
<1>0. p \in Procs /\ (p \in Workers \/ p \in Queuers)
  BY Bounds
<1>1. /\ pc[p] = "unlink" /\ OthersStay(p) /\ pc'[p] \in {"retain", "next"}
      /\ blobs' = blobs \ doomed[p] /\ torn' = torn \ doomed[p]
      /\ UNCHANGED <<run, held, todo, items, sought>>
      /\ \A q \in Procs \ {p} : doomed'[q] = doomed[q] /\ late'[q] = late[q]
  BY <1>0 DEF UnlinkBlobs, Goto, rows, OthersStay, RunInv, Shape, TypeOK
<1>2. /\ exposed \subseteq exposed'
      /\ \A r \in late[p] :
           (\E t \in Torrents, b \in doomed[p] : <<t, b>> \in items[r]) => r \in exposed'
      /\ \A q \in Procs : Relies(q) \cap doomed[p] # {} => run[q] \in exposed'
  BY DEF UnlinkBlobs
<1>3. ASSUME NEW b \in doomed[p], b \in Blobs PROVE Users(b) \subseteq exposed'
  <2>1. ASSUME NEW r \in RunIds, NEW t \in Torrents, <<t, b>> \in items[r] PROVE r \in exposed'
    <3>1. CASE r \in late[p]
      BY <1>2, <2>1, <3>1
    <3>2. CASE r \notin late[p]
      <4>1. BlobOf(items[r]) \cap doomed[p] = {}
        BY <1>0, <1>1, <3>2 DEF Files, FilesOf
      <4>2. b \in BlobOf(items[r])
        BY <1>3, <2>1 DEF BlobOf
      <4> QED BY <4>1, <4>2
    <3> QED BY <3>1, <3>2
  <2>2. \A q \in Procs : b \in Relies(q) => run[q] \in exposed'
    BY <1>2
  <2> QED BY <2>1, <2>2 DEF Users
<1>4. ASSUME NEW b \in Safe PROVE b \in Safe' \/ Users(b) \subseteq exposed'
  <2>0. b \in Blobs
    BY DEF Safe, RunInv, Shape, TypeOK
  <2>1. CASE b \in doomed[p]
    BY <1>3, <2>0, <2>1
  <2>2. CASE b \notin doomed[p]
    <3>1. b \notin Opens(p)
      BY <1>1 DEF Opens
    <3> QED BY <1>0, <1>1, <2>2, <3>1, SafeStays
  <2> QED BY <2>1, <2>2
<1>5. Aside(p)
  BY <1>1, <1>2, <1>4 DEF Aside
<1>6. FilesOf(p)'
  BY <1>0, <1>1, NoFiles DEF HoldPcs
<1> QED BY <1>0, <1>1, <1>5, <1>6, FilesKept

LEMMA CleanFiles ==
    ASSUME RunInv, Files, NEW p \in Workers \cup Callers, CleanStep(p)
    PROVE  Files'
<1> USE DEF rows, life, history
<1>0. p \in Procs /\ Shape /\ (p \in Workers \/ p \in Queuers)
  BY Bounds DEF RunInv
<1>1. CASE CollectItems(p)
  <2>1. /\ OthersStay(p) /\ pc[p] = "collect" /\ pc'[p] \in {"rows", "retain"}
        /\ UNCHANGED <<items, files, todo, late, exposed>>
        /\ \A q \in Procs \ {p} : doomed'[q] = doomed[q]
    BY <1>0, <1>1 DEF CollectItems, Goto, OthersStay, Shape, TypeOK
  <2>2. Aside(p)
    BY <1>0, <2>1, AsideSame
  <2>3. FilesOf(p)'
    BY <1>0, <2>1, NoFiles DEF HoldPcs
  <2> QED BY <1>0, <2>1, <2>2, <2>3, FilesKept
<1>2. CASE CleanupRuns(p)
  <2>1. /\ Step(p, "rows", "count") /\ UNCHANGED <<files, late, exposed>>
        /\ \A r \in RunIds : items'[r] \subseteq items[r]
    BY <1>2 DEF CleanupRuns
  <2> QED BY <1>0, <2>1, StepFiles DEF HoldPcs
<1>3. CASE CountReferences(p)
  <2>1. /\ OthersStay(p) /\ pc[p] = "count" /\ pc'[p] = "unlink"
        /\ UNCHANGED <<items, files, todo, exposed>>
        /\ \A q \in Procs \ {p} : doomed'[q] = doomed[q] /\ late'[q] = late[q]
    BY <1>0, <1>3 DEF CountReferences, Goto, OthersStay, Shape, TypeOK
  <2>2. late'[p] = RunIds \/ doomed'[p] = doomed[p] \ Referenced
    BY <1>0, <1>3 DEF CountReferences, Shape, TypeOK
  <2>3. \A r \in RunIds : BlobOf(items[r]) \subseteq Referenced
    BY DEF BlobOf, Referenced
  <2>4. Aside(p)
    BY <1>0, <2>1, AsideSame
  <2>5. \A r \in RunIds \ late'[p] : BlobOf(items'[r]) \cap doomed'[p] = {}
    BY <2>1, <2>2, <2>3
  <2>6. FilesOf(p)'
    BY <1>0, <2>1, <2>5 DEF FilesOf, BlobOf, HoldPcs
  <2> QED BY <1>0, <2>1, <2>4, <2>6, FilesKept
<1>4. CASE UnlinkBlobs(p)
  BY <1>4, UnlinkFiles
<1> QED BY <1>1, <1>2, <1>3, <1>4 DEF CleanStep

(* An import opens a blob: its content is safe with the copy, whoever      *)
(* shares it.                                                              *)
LEMMA OpenFiles ==
    ASSUME RunInv, Files, NEW c \in Callers, ReadManifest(c)
    PROVE  Files'
<1>0. c \in Procs /\ Shape /\ c \in Queuers
  BY Bounds DEF RunInv
<1>1. /\ OthersStay(c) /\ pc[c] = "import" /\ UNCHANGED <<items, doomed, late, exposed, run>>
      /\ \A q \in Procs \ {c} : todo'[q] = todo[q] /\ sought'[q] = sought[q]
  <2>1. OthersStay(c)
    BY CallCalm DEF Calm, ImportStep
  <2>2. /\ pc[c] = "import" /\ UNCHANGED <<items, doomed, late, exposed, run>>
        /\ \A q \in Procs \ {c} : todo'[q] = todo[q] /\ sought'[q] = sought[q]
    BY <1>0 DEF ReadManifest, Shape, TypeOK, rows, history
  <2> QED BY <2>1, <2>2
<1>2. PICK t \in Torrents, b \in Blobs :
         \/ /\ blobs' = blobs \ {b} /\ torn' = torn \cup {b}
            /\ sought' = [sought EXCEPT ![c] = {<<t, b>>}]
            /\ pc' = [pc EXCEPT ![c] = "copy"] /\ UNCHANGED <<held, todo>>
         \/ /\ held' = [held EXCEPT ![c] = held[c] \cup {<<t, b>>}]
            /\ todo' = [todo EXCEPT ![c] = todo[c] \cup {t}]
            /\ UNCHANGED <<files, pc>>
  BY DEF ReadManifest, Goto
<1>o. Opens(c) = {}
  BY <1>1 DEF Opens
<1>3. CASE /\ blobs' = blobs \ {b} /\ torn' = torn \cup {b}
           /\ sought' = [sought EXCEPT ![c] = {<<t, b>>}]
           /\ pc' = [pc EXCEPT ![c] = "copy"] /\ UNCHANGED <<held, todo>>
  <2>1. pc'[c] = "copy" /\ sought'[c] = {<<t, b>>}
    BY <1>0, <1>3 DEF Shape, TypeOK
  <2>2. b \in Safe'
    <3>1. b \in Opens(c)'
      BY <2>1 DEF Opens
    <3>2. b \in Copying'
      BY <1>0, <3>1 DEF Copying
    <3> QED BY <1>3, <3>2 DEF Safe
  <2>3. ASSUME NEW a \in Safe PROVE a \in Safe'
    <3>1. CASE a = b
      BY <2>2, <3>1
    <3>2. CASE a # b
      BY <1>0, <1>1, <1>3, <1>o, <3>2, SafeStays
    <3> QED BY <3>1, <3>2
  <2>4. Aside(c)
    BY <1>1, <2>3 DEF Aside
  <2>5. FilesOf(c)'
    <3>1. Needs(c)' = Needs(c)
      BY <1>3 DEF Needs
    <3>2. pc[c] \in HoldPcs /\ pc'[c] \in HoldPcs /\ run'[c] = run[c]
      BY <1>1, <2>1 DEF HoldPcs
    <3> QED BY <1>0, <2>4, <3>1, <3>2, HoldFiles
  <2> QED BY <1>0, <1>1, <2>4, <2>5, FilesKept
<1>4. CASE /\ held' = [held EXCEPT ![c] = held[c] \cup {<<t, b>>}]
           /\ todo' = [todo EXCEPT ![c] = todo[c] \cup {t}]
           /\ UNCHANGED <<files, pc>>
  <2>1. /\ held'[c] = held[c] \cup {<<t, b>>} /\ todo'[c] = todo[c] \cup {t}
    BY <1>0, <1>4 DEF Shape, TypeOK
  <2>2. Aside(c)
    BY <1>0, <1>1, <1>4, AsideSame
  <2>3. Needs(c)' \subseteq Needs(c)
    BY <1>0, <2>1 DEF Needs
  <2>4. pc[c] \in HoldPcs /\ pc'[c] \in HoldPcs /\ run'[c] = run[c]
    BY <1>1, <1>4 DEF HoldPcs
  <2>5. FilesOf(c)'
    BY <1>0, <2>2, <2>3, <2>4, HoldFiles
  <2> QED BY <1>0, <1>1, <2>2, <2>5, FilesKept
<1> QED BY <1>2, <1>3, <1>4

(* ... and closes it: it is whole, or another copy of it is open, or those *)
(* who relied on it are exposed.                                           *)
LEMMA CloseFiles ==
    ASSUME RunInv, Files, NEW c \in Callers, CopyBlob(c)
    PROVE  Files'
<1>0. c \in Procs /\ Shape /\ c \in Queuers
  BY Bounds DEF RunInv
<1>1. /\ OthersStay(c) /\ pc[c] = "copy" /\ pc'[c] = "import"
      /\ UNCHANGED <<items, doomed, late, run>>
      /\ \A q \in Procs \ {c} : todo'[q] = todo[q] /\ sought'[q] = sought[q]
  <2>1. OthersStay(c)
    BY CallCalm DEF Calm, ImportStep
  <2>2. /\ pc[c] = "copy" /\ pc'[c] = "import" /\ UNCHANGED <<items, doomed, late, run>>
    BY <1>0 DEF CopyBlob, Goto, Shape, TypeOK, rows
  <2>3. \A q \in Procs \ {c} : todo'[q] = todo[q] /\ sought'[q] = sought[q]
    BY <1>0 DEF CopyBlob, Shape, TypeOK
  <2> QED BY <2>1, <2>2, <2>3
<1>2. PICK t \in Torrents, b \in Blobs :
         /\ sought[c] = {<<t, b>>}
         /\ held' = [held EXCEPT ![c] = held[c] \cup {<<t, b>>}]
         /\ \/ b \in torn /\ FileWritten(b) /\ UNCHANGED todo
            \/ /\ b \in blobs \/ (b \in torn /\ \E q \in Procs \ {c} : b \in Opens(q))
               /\ UNCHANGED <<blobs, torn, exposed, todo>>
            \/ /\ run[c] \in exposed /\ exposed' = exposed \cup Users(b)
               /\ UNCHANGED <<blobs, torn, todo>>
            \/ /\ todo' = [todo EXCEPT ![c] = todo[c] \cup {t}]
               /\ \/ blobs' = blobs \ {b} /\ torn' = torn \ {b}
                  \/ UNCHANGED <<blobs, torn>>
               /\ exposed' = IF b \in blobs' THEN exposed ELSE exposed \cup Users(b)
  BY DEF CopyBlob
<1>3. /\ exposed \subseteq exposed'
      /\ \A a \in blobs : a # b => a \in blobs'
      /\ \A a \in torn : a # b => a \in torn'
  BY <1>2 DEF FileWritten
<1>4. b \in Safe' \/ Users(b) \subseteq exposed'
  <2>1. CASE FileWritten(b)
    BY <2>1 DEF FileWritten, Safe
  <2>2. CASE b \in blobs /\ UNCHANGED blobs
    BY <2>2 DEF Safe
  <2>3. CASE b \in torn /\ UNCHANGED torn /\ \E q \in Procs \ {c} : b \in Opens(q)
    <3>1. PICK q \in Procs \ {c} : b \in Opens(q)
      BY <2>3
    <3>2. pc'[q] = pc[q] /\ sought'[q] = sought[q]
      BY <1>1 DEF OthersStay
    <3>3. b \in Opens(q)'
      BY <3>1, <3>2 DEF Opens
    <3>4. b \in Copying'
      BY <3>3 DEF Copying
    <3> QED BY <2>3, <3>4 DEF Safe
  <2>4. CASE b \in blobs'
    BY <2>4 DEF Safe
  <2>5. CASE Users(b) \subseteq exposed'
    BY <2>5
  <2> QED BY <1>2, <2>1, <2>2, <2>3, <2>4, <2>5
<1>5. ASSUME NEW a \in Safe PROVE a \in Safe' \/ Users(a) \subseteq exposed'
  <2>1. CASE a = b
    BY <1>4, <2>1
  <2>2. CASE a # b
    <3>1. a \notin Opens(c)
      BY <1>2, <2>2 DEF Opens
    <3> QED BY <1>0, <1>1, <1>3, <2>2, <3>1, SafeStays
  <2> QED BY <2>1, <2>2
<1>6. Aside(c)
  BY <1>1, <1>3, <1>5 DEF Aside
<1>7. held'[c] = held[c] \cup {<<t, b>>}
  BY <1>0, <1>2 DEF Shape, TypeOK
<1>8. run[c] \in exposed' \/ Needs(c)' \subseteq Needs(c) \cup Safe'
  <2>1. CASE todo' = [todo EXCEPT ![c] = todo[c] \cup {t}]
    <3>1. todo'[c] = todo[c] \cup {t}
      BY <1>0, <2>1 DEF Shape, TypeOK
    <3> QED BY <1>0, <1>7, <3>1 DEF Needs
  <2>2. CASE UNCHANGED todo
    <3>1. Needs(c)' \subseteq Needs(c) \cup {b}
      BY <1>0, <1>7, <2>2 DEF Needs
    <3>2. run[c] \in Users(b)
      <4>1. b \in Relies(c)
        BY <1>1, <1>2 DEF Relies, Opens
      <4> QED BY <1>0, <4>1 DEF Users
    <3> QED BY <1>4, <3>1, <3>2
  <2> QED BY <1>2, <2>1, <2>2
<1>9. FilesOf(c)'
  <2>1. pc[c] \in HoldPcs /\ pc'[c] \in HoldPcs /\ run'[c] = run[c]
    BY <1>1 DEF HoldPcs
  <2> QED BY <1>0, <1>6, <1>8, <2>1, HoldFiles
<1> QED BY <1>0, <1>1, <1>6, <1>9, FilesKept

LEMMA CallFiles ==
    ASSUME RunInv, Files, NEW c \in Callers, CallStep(c) \/ Request(c)
    PROVE  Files'
<1> USE DEF rows, life, history
<1>0. c \in Procs /\ Shape /\ c \in Queuers /\ c \notin Workers /\ FilesOf(c)
  BY Bounds DEF RunInv, Files
<1>1. CASE QueueStep(c) \/ \E i \in Instances, k \in AllKinds : MarkInstance(c, i, k)
  BY <1>0, <1>1, QueueFiles
<1>2. CASE EndDelete(c) \/ ImportFails(c) \/ CompleteImport(c)
  <2>1. Return(c) /\ UNCHANGED <<items, files, late, exposed>> /\ pc[c] # "copy"
    BY <1>2 DEF EndDelete, ImportFails, CompleteImport, CleanPcs
  <2> QED BY <1>0, <2>1, ReturnFiles
<1>3. CASE DeleteNext(c) \/ \E R \in SUBSET RunIds : DeleteRuns(c, R)
  <2>1. /\ OthersStay(c) /\ pc[c] # "copy" /\ pc'[c] \in {"next", "collect"}
        /\ UNCHANGED <<items, files, todo, doomed, late, exposed>>
    BY <1>0, <1>3 DEF DeleteNext, DeleteRuns, Goto, OthersStay, Shape, TypeOK
  <2>2. Aside(c)
    BY <1>0, <2>1, AsideSame
  <2>3. FilesOf(c)'
    BY <1>0, <2>1, NoFiles DEF HoldPcs
  <2> QED BY <1>0, <2>1, <2>2, <2>3, FilesKept
<1>4. ASSUME NEW i \in Instances, NEW k \in AllKinds, ImportManifest(c, i, k)
      PROVE  Files'
  <2>1. OthersStay(c) /\ pc'[c] = "import"
    BY <1>4, ImportFresh DEF Fresh
  <2>2. UNCHANGED <<items, files, todo, held, doomed, late, exposed>> /\ pc[c] = "idle"
    BY <1>4 DEF ImportManifest
  <2>3. Aside(c)
    BY <1>0, <2>1, <2>2, AsideSame
  <2>4. held'[c] = {}
    BY <1>0, <2>2 DEF FilesOf
  <2>5. FilesOf(c)'
    BY <2>1, <2>4 DEF FilesOf, Needs
  <2> QED BY <1>0, <2>2, <2>3, <2>5, FilesKept
<1>5. CASE ReadManifest(c) \/ CopyBlob(c)
  BY <1>5, OpenFiles, CloseFiles
<1>5d. CASE ManifestDone(c)
  <2>1. Step(c, "import", "insert") /\ UNCHANGED <<items, files, late, exposed>>
    BY <1>5d DEF ManifestDone
  <2> QED BY <1>0, <2>1, StepFiles DEF HoldPcs
<1>6. CASE ImportItems(c)
  <2>1. OthersStay(c)
    BY <1>6, CallCalm DEF Calm, ImportStep
  <2>2. /\ pc[c] = "insert" /\ pc'[c] \in {"finish", "download"}
        /\ Store(run[c], held[c]) /\ UNCHANGED <<files, todo, doomed, run>>
        /\ exposed' = IF todo[c] = {} THEN exposed ELSE exposed \cup {run[c]}
    BY <1>0, <1>6 DEF ImportItems, Goto, Shape, TypeOK
  <2>2a. \A q \in Procs : late[q] \subseteq late'[q]
    BY <2>2 DEF Store
  <2>3. Aside(c)
    BY <1>0, <2>1, <2>2, <2>2a, AsideSame
  <2>4. \A q \in Procs : pc[q] = "unlink" => run[c] \in late'[q]
    BY <2>2 DEF Store
  <2>5. \A r \in RunIds : items'[r] = items[r] \/ (r = run[c] /\ items'[r] = held[c])
    BY <1>0, <2>2 DEF Store, Shape, TypeOK
  <2>6. run[c] \in exposed' \/ BlobOf(held[c]) \subseteq Safe'
    <3>1. todo[c] = {} => BlobOf(held[c]) = Needs(c)
      BY DEF BlobOf, Needs
    <3>2. pc[c] \in HoldPcs
      BY <2>2 DEF HoldPcs
    <3> QED BY <1>0, <2>2, <2>3, <3>1, <3>2, NeedsStay
  <2>7. FilesOf(c)'
    BY <1>0, <2>2, NoFiles DEF HoldPcs
  <2> QED BY <1>0, <2>3, <2>4, <2>5, <2>6, <2>7, FilesKept
<1>7. CASE DownloadMissing(c)
  <2>1. OthersStay(c)
    BY <1>7, CallCalm DEF Calm, ImportStep
  <2>2. /\ pc[c] = "download" /\ pc'[c] \in {"complete", "download", "fetch"}
        /\ UNCHANGED <<items, blobs, torn, doomed, late, exposed>>
        /\ \A q \in Procs \ {c} : todo'[q] = todo[q] /\ sought'[q] = sought[q]
    BY <1>0, <1>7 DEF DownloadMissing, Goto, Shape, TypeOK
  <2>3. Aside(c)
    BY <1>0, <2>1, <2>2, AsideSame
  <2>4. FilesOf(c)'
    BY <1>0, <2>2, NoFiles DEF HoldPcs
  <2> QED BY <1>0, <2>2, <2>3, <2>4, FilesKept
<1>7f. CASE FetchBlob(c)
  <2>1. OthersStay(c)
    BY <1>7f, CallCalm DEF Calm, ImportStep
  <2>2. /\ pc[c] = "fetch" /\ pc'[c] \in {"complete", "download"}
        /\ UNCHANGED <<items, todo, doomed, late>>
        /\ \A q \in Procs \ {c} : sought'[q] = sought[q]
    BY <1>0, <1>7f DEF FetchBlob, Goto, Shape, TypeOK
  <2>3. PICK b \in Blobs : FileWritten(b) \/ FileCut(b) \/ UNCHANGED <<blobs, torn, exposed>>
    BY <1>7f DEF FetchBlob
  <2>4. Aside(c)
    BY <1>0, <2>1, <2>2, <2>3, WriteAside
  <2>5. FilesOf(c)'
    BY <1>0, <2>2, NoFiles DEF HoldPcs
  <2> QED BY <1>0, <2>2, <2>4, <2>5, FilesKept
<1>8. CASE Request(c)
  BY <1>1, <1>3, <1>4, <1>8 DEF Request, DeleteRun, DeleteAllRuns
<1> QED BY <1>1, <1>2, <1>3, <1>5, <1>5d, <1>6, <1>7, <1>7f, <1>8 DEF CallStep, ImportStep

(* Nothing that files depend on changes. *)
LEMMA SameFiles ==
    ASSUME Files, UNCHANGED <<items, files, pc, run, held, todo, doomed, late, exposed>>
    PROVE  Files'
<1>1. Safe' = Safe
  BY DEF Safe, Copying, Opens
<1>2. ASSUME NEW p \in Procs PROVE FilesOf(p)'
  <2>1. FilesOf(p) /\ Needs(p)' = Needs(p)
    BY DEF Files, Needs
  <2> QED BY <1>1, <2>1 DEF FilesOf, BlobOf
<1>3. \A r \in RunIds \ exposed' : BlobOf(items'[r]) \subseteq Safe'
  BY <1>1 DEF Files
<1>4. Files' <=> /\ \A p \in Procs : FilesOf(p)'
                 /\ \A r \in RunIds \ exposed' : BlobOf(items'[r]) \subseteq Safe'
  BY DEF Files, BlobOf
<1> QED BY <1>2, <1>3, <1>4

LEMMA FilesStep ==
    ASSUME RunInv, Files, [Next]_vars
    PROVE  Files'
<1>1. CASE UNCHANGED vars
  BY <1>1, SameFiles DEF vars, rows, local, history
<1>2. CASE Crash
  <2>1. /\ \A p \in Procs : pc'[p] = "idle" /\ held'[p] = {}
        /\ UNCHANGED <<items, blobs, torn>> /\ exposed \subseteq exposed'
        /\ \A b \in torn \cap Copying : Users(b) \subseteq exposed'
    BY <1>2 DEF Crash, rows
  <2>2. \A p \in Procs : FilesOf(p)'
    BY <2>1, NoFiles
  <2>3. ASSUME NEW r \in RunIds \ exposed', NEW b \in BlobOf(items[r]) PROVE b \in Safe'
    <3>1. b \in Safe /\ r \in Users(b)
      BY <2>1, <2>3, UserFacts DEF Files
    <3> QED BY <2>1, <2>3, <3>1 DEF Safe
  <2> QED BY <2>1, <2>2, <2>3 DEF Files, BlobOf
<1>3. CASE Start
  <2>1. UNCHANGED <<items, files, local, late, exposed>>
    BY <1>3 DEF Start
  <2> QED BY <2>1, SameFiles DEF local
<1>4. ASSUME NEW i \in Instances, NEW k \in Kinds, ScheduleDueBackup(i, k)
      PROVE  Files'
  BY <1>4, QueueFiles, Bounds DEF ScheduleDueBackup, AllKinds
<1> QED BY <1>1, <1>2, <1>3, <1>4, QueueFiles, WorkFiles, CleanFiles, CallFiles, Bounds DEF Next

-----------------------------------------------------------------------------
(* Counts. *)

LEMMA CountsKept ==
    ASSUME RunInv, Counts, NEW p \in Procs, Calm(p), CountsOf(p)',
           \A r \in RunIds : run[p] # r => count'[r] = count[r],
           \A r \in RunIds : run[p] = r =>
              /\ IsFiniteSet(items'[r])
              /\ status'[r] = "success" /\ r \notin unsaved' =>
                    \/ Cardinality(items'[r]) >= count'[r]
                    \/ p \in Workers /\ pc'[p] = "items" /\ run'[p] = r
    PROVE  Counts'
<1>0. \A q \in Procs \ {p} : pc'[q] = pc[q] /\ run'[q] = run[q] /\ held'[q] = held[q]
  BY DEF Calm, OthersStay
<1>1. ASSUME NEW q \in Procs, q # p
      PROVE  CountsOf(q)'
  <2>1. CASE run[q] = 0
    BY <1>0, <1>1, <2>1, Bounds DEF CountsOf, RunInv, Shape, PathOK, CarryPcs, ImportPcs
  <2>2. CASE run[q] # 0
    <3>1. run[q] \in RunIds /\ run[p] # run[q]
      BY <1>1, <2>2, Bounds DEF RunInv, Shape, TypeOK, Owned
    <3>2. /\ count'[run[q]] = count[run[q]] /\ unsaved \subseteq unsaved'
          /\ \/ status'[run[q]] = status[run[q]] /\ items'[run[q]] = items[run[q]]
             \/ status'[run[q]] = "deleted"
      BY <3>1 DEF Calm
    <3>3. CountsOf(q)
      BY DEF Counts
    <3> QED BY <1>0, <1>1, <3>2, <3>3 DEF CountsOf, Exists
  <2> QED BY <2>1, <2>2
<1>2. ASSUME NEW r \in RunIds
      PROVE  IsFiniteSet(items'[r])
  <2>1. CASE run[p] = r
    BY <2>1
  <2>2. CASE run[p] # r
    BY <2>2, FS_EmptySet DEF Calm, Counts
  <2> QED BY <2>1, <2>2
<1>3. SnapshotComplete'
  <2> SUFFICES ASSUME NEW r \in RunIds, r \notin unsaved', status'[r] = "success"
               PROVE  \/ Cardinality(items'[r]) >= count'[r]
                      \/ \E w \in Workers : pc'[w] = "items" /\ run'[w] = r
    BY DEF SnapshotComplete
  <2>1. CASE run[p] = r
    BY <2>1
  <2>2. CASE run[p] # r
    <3>1. /\ status[r] = "success" /\ items'[r] = items[r] /\ count'[r] = count[r]
          /\ r \notin unsaved
      BY <2>2 DEF Calm
    <3>2. \/ Cardinality(items[r]) >= count[r]
          \/ \E w \in Workers : pc[w] = "items" /\ run[w] = r
      BY <3>1 DEF Counts, SnapshotComplete
    <3> QED BY <1>0, <2>2, <3>1, <3>2, Bounds
  <2> QED BY <2>1, <2>2
<1> QED BY <1>1, <1>2, <1>3 DEF Counts

(* Most steps do not come near the counts. *)
LEMMA PlainCounts ==
    ASSUME RunInv, Counts, NEW p \in Procs, Calm(p), UNCHANGED count, pc[p] # "items",
           \/ p \in Workers /\ pc'[p] # "items"
           \/ p \in Queuers /\ pc'[p] \notin {"finish", "download", "fetch", "complete"},
           \A r \in RunIds : run[p] = r =>
              \/ status'[r] = status[r] /\ items'[r] = items[r]
              \/ status'[r] # "success" /\ items'[r] = items[r]
              \/ status'[r] = "deleted" /\ items'[r] = {}
    PROVE  Counts'
<1>1. CountsOf(p)'
  BY Bounds DEF CountsOf
<1>2. ASSUME NEW r \in RunIds, run[p] = r
      PROVE  /\ IsFiniteSet(items'[r])
             /\ status'[r] = "success" /\ r \notin unsaved' => Cardinality(items'[r]) >= count'[r]
  <2>1. IsFiniteSet(items'[r])
    BY <1>2, FS_EmptySet DEF Counts
  <2>2. ASSUME status'[r] = "success", r \notin unsaved'
        PROVE  Cardinality(items'[r]) >= count'[r]
    <3>1. status[r] = "success" /\ items'[r] = items[r] /\ r \notin unsaved
      BY <1>2, <2>2 DEF Calm
    <3>2. \/ Cardinality(items[r]) >= count[r]
          \/ \E w \in Workers : pc[w] = "items" /\ run[w] = r
      BY <3>1 DEF Counts, SnapshotComplete
    <3>3. ~ \E w \in Workers : pc[w] = "items" /\ run[w] = r
      BY <1>2, Bounds DEF RunInv, Owned
    <3> QED BY <3>1, <3>2, <3>3
  <2> QED BY <2>1, <2>2
<1> QED BY <1>1, <1>2, CountsKept

LEMMA QueueCounts ==
    ASSUME RunInv, Counts, NEW c \in Queuers,
           \/ CreateRunFails(c) \/ CancelSend(c) \/ DeleteCanceledRow(c)
           \/ \E i \in Instances, k \in AllKinds : MarkInstance(c, i, k)
    PROVE  Counts'
<1> USE DEF rows, life, history
<1>0. c \in Procs /\ Shape /\ Calm(c)
  BY Bounds, QueueCalm DEF RunInv
<1>1. /\ UNCHANGED <<count, items>> /\ pc[c] \in {"create", "send", "undo", "idle"}
      /\ pc'[c] \in {"idle", "undo", "create"}
  BY <1>0 DEF CreateRunFails, CancelSend, DeleteCanceledRow, MarkInstance, Return, Step, Goto,
       Shape, TypeOK
<1>2. \A r \in RunIds : run[c] = r => status'[r] = status[r] \/ status'[r] # "success"
  BY <1>0 DEF CreateRunFails, CancelSend, DeleteCanceledRow, MarkInstance, SetStatus, Shape, TypeOK
<1> QED BY <1>0, <1>1, <1>2, PlainCounts

LEMMA WorkCounts ==
    ASSUME RunInv, Counts, NEW w \in Workers, WorkStep(w), ~TakeJob(w)
    PROVE  Counts'
<1> USE DEF rows, life, history
<1>0. /\ w \in Procs /\ Shape /\ w \notin Queuers /\ Calm(w) /\ Tidy(w) /\ CountsOf(w)
      /\ IsFiniteSet(held[w])
  BY Bounds, WorkCalm DEF RunInv, Counts, Shape, PathOK
<1>1. pc[w] # "idle" /\ run[w] \in RunIds /\ run[w] # 0
  BY <1>0, RunKnown, Bounds DEF WorkStep, MarkRunning, LoadTorrents, BackUpTorrent, WriteBlob,
       TorrentsDone, ExecuteFails, MarkFailed, MarkSuccess, InsertItems, SelectSurplus,
       RetentionDone, ClearInstance, Step
<1>2. CASE MarkRunning(w) \/ MarkFailed(w)
  <2>1. /\ UNCHANGED <<count, items>> /\ pc[w] \in {"mark", "fail"}
        /\ pc'[w] \in {"load", "clear"}
    BY <1>0, <1>2 DEF MarkRunning, MarkFailed, Step, Goto, Shape, TypeOK
  <2>2. status'[run[w]] = status[run[w]] \/ status'[run[w]] # "success"
    BY <1>0, <1>1, <1>2 DEF MarkRunning, MarkFailed, SetStatus, Shape, TypeOK
  <2> QED BY <1>0, <2>1, <2>2, PlainCounts
<1>3. CASE \/ LoadTorrents(w) \/ BackUpTorrent(w) \/ WriteBlob(w) \/ TorrentsDone(w)
           \/ ExecuteFails(w) \/ SelectSurplus(w) \/ RetentionDone(w) \/ ClearInstance(w)
  <2>1. /\ UNCHANGED <<count, items, status>> /\ pc[w] # "items" /\ pc'[w] # "items"
    BY <1>0, <1>3 DEF LoadTorrents, BackUpTorrent, WriteBlob, TorrentsDone, ExecuteFails,
         SelectSurplus, RetentionDone, ClearInstance, Return, Step, Goto, Shape, TypeOK
  <2> QED BY <1>0, <2>1, PlainCounts
<1>4. CASE MarkSuccess(w)
  <2>1. /\ pc'[w] = "items" /\ UNCHANGED <<run, held, items>>
    BY <1>0, <1>4 DEF MarkSuccess, Step, Goto, Shape, TypeOK
  <2>2. /\ \A r \in RunIds : run[w] # r => count'[r] = count[r]
        /\ \/ Exists(run[w]) /\ count'[run[w]] = Cardinality(held[w])
           \/ ~Exists(run[w]) /\ status' = status
           \/ run[w] \in unsaved'
    BY <1>0, <1>1, <1>4 DEF MarkSuccess, SetStatus, Fault, Shape, TypeOK
  <2>3. CountsOf(w)'
    BY <1>0, <2>1, <2>2 DEF CountsOf, Exists
  <2>4. IsFiniteSet(items'[run[w]])
    BY <1>1, <2>1 DEF Counts
  <2> QED BY <1>0, <2>1, <2>2, <2>3, <2>4, CountsKept
<1>5. CASE InsertItems(w)
  <2>1. pc[w] = "items" /\ pc'[w] = "retain" /\ UNCHANGED <<status, count, run>>
    BY <1>0, <1>5 DEF InsertItems, Goto, Shape, TypeOK
  <2>2. \/ /\ unsaved' = unsaved
           /\ items'[run[w]] = IF Exists(run[w]) THEN held[w] ELSE items[run[w]]
        \/ run[w] \in unsaved' /\ items' = items
    BY <1>0, <1>1, <1>5 DEF InsertItems, Store, Fault, Shape, TypeOK
  <2>3. IsFiniteSet(items'[run[w]])
    BY <1>0, <1>1, <2>2 DEF Counts
  <2>4. CountsOf(w)'
    BY <1>0, <2>1 DEF CountsOf
  <2>5. ASSUME status'[run[w]] = "success", run[w] \notin unsaved'
        PROVE  Cardinality(items'[run[w]]) >= count'[run[w]]
    <3>1. Exists(run[w]) /\ run[w] \notin unsaved /\ items'[run[w]] = held[w]
      BY <2>1, <2>2, <2>5 DEF Exists
    <3>2. count[run[w]] = Cardinality(held[w]) /\ count[run[w]] \in Nat
      BY <1>0, <1>1, <2>1, <3>1 DEF CountsOf, Shape, TypeOK
    <3> QED BY <2>1, <3>1, <3>2
  <2> QED BY <1>0, <2>1, <2>3, <2>4, <2>5, CountsKept
<1> QED BY <1>2, <1>3, <1>4, <1>5 DEF WorkStep

LEMMA CleanCounts ==
    ASSUME RunInv, Counts, NEW p \in Workers \cup Callers, CleanStep(p)
    PROVE  Counts'
<1>0. p \in Procs /\ Shape /\ (p \in Workers \/ p \in Queuers) /\ Calm(p)
  BY Bounds, CleanCalm DEF RunInv
<1>1. /\ UNCHANGED count /\ pc[p] \in CleanPcs /\ pc'[p] \in CleanPcs \cup {"retain", "next"}
      /\ \A r \in RunIds : \/ status'[r] = status[r] /\ items'[r] = items[r]
                           \/ status'[r] = "deleted" /\ items'[r] = {}
  BY <1>0 DEF CleanStep, CollectItems, CleanupRuns, CountReferences, UnlinkBlobs, Step, Goto,
       CleanPcs, rows, Shape, TypeOK
<1> QED BY <1>0, <1>1, PlainCounts DEF CleanPcs

LEMMA CallCounts ==
    ASSUME RunInv, Counts, NEW c \in Callers,
           \/ DeleteNext(c) \/ EndDelete(c) \/ ImportStep(c)
           \/ \E R \in SUBSET RunIds : DeleteRuns(c, R)
    PROVE  Counts'
<1> USE DEF rows, life, history
<1>0. /\ c \in Procs /\ Shape /\ c \in Queuers /\ c \notin Workers /\ Calm(c) /\ CountsOf(c)
      /\ IsFiniteSet(held[c])
  BY Bounds, CallCalm DEF RunInv, Counts, Shape, PathOK
<1>1. CASE \/ DeleteNext(c) \/ EndDelete(c) \/ ReadManifest(c) \/ CopyBlob(c)
           \/ ManifestDone(c) \/ ImportFails(c) \/ \E R \in SUBSET RunIds : DeleteRuns(c, R)
  <2>1. /\ UNCHANGED <<status, items, count>> /\ pc[c] # "items"
        /\ pc'[c] \in {"next", "collect", "idle", "import", "copy", "insert"}
    <3>1. CASE ReadManifest(c) \/ CopyBlob(c) \/ ManifestDone(c)
      BY <1>0, <3>1 DEF ReadManifest, CopyBlob, ManifestDone, Step, Goto, Shape, TypeOK
    <3>2. CASE ~(ReadManifest(c) \/ CopyBlob(c) \/ ManifestDone(c))
      BY <1>0, <1>1, <3>2 DEF DeleteNext, EndDelete, ImportFails, DeleteRuns, Return,
           Goto, CleanPcs, Shape, TypeOK
    <3> QED BY <3>1, <3>2
  <2> QED BY <1>0, <2>1, PlainCounts
<1>2. CASE ImportItems(c) \/ DownloadMissing(c) \/ FetchBlob(c) \/ CompleteImport(c)
  <2>1. pc[c] \in ImportPcs /\ run[c] \in RunIds /\ IsFiniteSet(items[run[c]])
    BY <1>0, <1>2, RunKnown DEF ImportItems, DownloadMissing, FetchBlob, CompleteImport,
         ImportPcs, CarryPcs, Counts
  <2>2. CASE ImportItems(c)
    <3>1. /\ UNCHANGED run /\ items'[run[c]] = held[c]
          /\ \A r \in RunIds : run[c] # r => count'[r] = count[r]
          /\ count'[run[c]] = Cardinality(held[c])
      BY <1>0, <2>1, <2>2 DEF ImportItems, Store, Shape, TypeOK
    <3>2. Cardinality(held[c]) \in Nat
      BY <1>0, FS_CardinalityType
    <3>3. CountsOf(c)'
      BY <1>0, <3>1, <3>2 DEF CountsOf
    <3> QED BY <1>0, <3>1, <3>2, <3>3, CountsKept
  <2>3. CASE DownloadMissing(c) \/ FetchBlob(c)
    <3>1. UNCHANGED <<status, items, count, run>> /\ pc[c] \in {"download", "fetch"}
      BY <2>3 DEF DownloadMissing, FetchBlob
    <3>2. CountsOf(c)'
      BY <1>0, <3>1 DEF CountsOf, Exists
    <3>3. status[run[c]] = "success" => Cardinality(items[run[c]]) >= count[run[c]]
      BY <1>0, <3>1 DEF CountsOf, Exists
    <3> QED BY <1>0, <2>1, <3>1, <3>2, <3>3, CountsKept
  <2>4. CASE CompleteImport(c)
    <3>1. /\ UNCHANGED <<items, count>> /\ pc[c] \in {"finish", "complete"} /\ pc'[c] = "idle"
      BY <1>0, <2>4 DEF CompleteImport, Return, Shape, TypeOK
    <3>2. CountsOf(c)'
      BY <1>0, <3>1 DEF CountsOf
    <3>3. status'[run[c]] = "success" => Exists(run[c])
      BY <2>4 DEF CompleteImport, SetStatus, Exists
    <3>4. Exists(run[c]) => Cardinality(items[run[c]]) >= count[run[c]]
      BY <1>0, <3>1 DEF CountsOf
    <3> QED BY <1>0, <2>1, <3>1, <3>2, <3>3, <3>4, CountsKept
  <2> QED BY <1>2, <2>2, <2>3, <2>4
<1> QED BY <1>1, <1>2 DEF ImportStep

(* A process that starts or hands over a run, without a write to it. *)
LEMMA HandoverCounts ==
    ASSUME RunInv, Counts, NEW p \in Procs, OthersStay(p), UNCHANGED <<items, count, unsaved>>,
           \A r \in RunIds : status'[r] = status[r] \/ (status[r] = "none" /\ status'[r] # "success"),
           pc[p] # "items", pc'[p] \in {"idle", "send", "import", "mark"}
    PROVE  Counts'
<1>0. \A q \in Procs \ {p} : pc'[q] = pc[q] /\ run'[q] = run[q] /\ held'[q] = held[q]
  BY DEF OthersStay
<1>1. ASSUME NEW q \in Procs
      PROVE  CountsOf(q)'
  <2>1. CASE q = p
    BY <2>1 DEF CountsOf
  <2>2. CASE q # p /\ run[q] = 0
    BY <1>0, <2>2, Bounds DEF CountsOf, RunInv, Shape, PathOK, CarryPcs, ImportPcs
  <2>3. CASE q # p /\ run[q] # 0
    <3>1. run[q] \in RunIds /\ status'[run[q]] = status[run[q]]
      BY <2>3, OwnStage
    <3>2. CountsOf(q)
      BY DEF Counts
    <3> QED BY <1>0, <2>3, <3>1, <3>2 DEF CountsOf, Exists
  <2> QED BY <2>1, <2>2, <2>3
<1>2. SnapshotComplete'
  <2> SUFFICES ASSUME NEW r \in RunIds, r \notin unsaved', status'[r] = "success"
               PROVE  \/ Cardinality(items'[r]) >= count'[r]
                      \/ \E w \in Workers : pc'[w] = "items" /\ run'[w] = r
    BY DEF SnapshotComplete
  <2>1. \/ Cardinality(items[r]) >= count[r]
        \/ \E w \in Workers : pc[w] = "items" /\ run[w] = r
    BY DEF Counts, SnapshotComplete
  <2> QED BY <1>0, <2>1, Bounds
<1> QED BY <1>1, <1>2 DEF Counts

LEMMA LifeCounts ==
    ASSUME RunInv, Counts, Crash \/ Start
    PROVE  Counts'
<1> USE DEF rows, history, local
<1>1. CASE Crash
  <2>1. /\ \A p \in Procs : pc'[p] = "idle"
        /\ UNCHANGED <<items, count, status>> /\ unsaved' = unsaved \cup Halfway
    BY <1>1 DEF Crash
  <2>2. SnapshotComplete'
    <3> SUFFICES ASSUME NEW r \in RunIds, r \notin unsaved', status[r] = "success"
                 PROVE  Cardinality(items[r]) >= count[r]
      BY <2>1 DEF SnapshotComplete
    <3>1. ASSUME NEW w \in Workers, pc[w] = "items", run[w] = r
          PROVE  Cardinality(items[r]) >= count[r]
      <4>1. held[w] = {} /\ r \notin unsaved
        BY <2>1, <3>1 DEF Halfway
      <4>2. count[r] = Cardinality(held[w])
        BY <3>1, <4>1, Bounds DEF Counts, CountsOf, Exists
      <4>3. Cardinality(items[r]) \in Nat /\ Cardinality({}) = 0
        BY FS_CardinalityType, FS_EmptySet DEF Counts
      <4> QED BY <4>1, <4>2, <4>3
    <3> QED BY <2>1, <3>1 DEF Counts, SnapshotComplete
  <2> QED BY <2>1, <2>2 DEF Counts, CountsOf
<1>2. CASE Start
  <2>1. /\ proc = "down" /\ UNCHANGED <<items, count, pc, run>> /\ unsaved \subseteq unsaved'
        /\ \A r \in RunIds : status'[r] = "success" => status[r] = "success"
    BY <1>2 DEF Start, Recover
  <2>2. \A p \in Procs : pc[p] = "idle"
    BY <2>1 DEF RunInv, Owned
  <2>3. SnapshotComplete'
    BY <2>1 DEF Counts, SnapshotComplete
  <2> QED BY <2>1, <2>2, <2>3 DEF Counts, CountsOf
<1> QED BY <1>1, <1>2

LEMMA CountsStep ==
    ASSUME RunInv, Counts, Next
    PROVE  Counts'
<1> USE DEF rows, life, history
<1>0. Shape
  BY DEF RunInv
<1>1. ASSUME NEW c \in Queuers, QueueStep(c)
      PROVE  Counts'
  <2>0. c \in Procs
    BY Bounds
  <2>1. CASE CreateRun(c)
    <3>1. /\ OthersStay(c) /\ pc[c] = "create" /\ pc'[c] = "send"
          /\ UNCHANGED <<items, count, unsaved>>
      BY <1>0, <2>1, CreateShape
    <3>2. PICK r \in RunIds : Fresh(c, r, "pending")
      BY <2>1, CreateFresh
    <3>3. \A q \in RunIds : status'[q] = status[q] \/ (status[q] = "none" /\ status'[q] # "success")
      BY <1>0, <3>2 DEF Fresh, Shape, TypeOK
    <3> QED BY <2>0, <3>1, <3>3, HandoverCounts
  <2>2. CASE SendJob(c)
    <3>1. /\ OthersStay(c) /\ pc[c] = "send" /\ pc'[c] = "idle"
          /\ UNCHANGED <<items, count, unsaved, status>>
      BY <1>0, <2>0, <2>2, ReturnShape DEF SendJob, OthersStay
    <3> QED BY <2>0, <3>1, HandoverCounts
  <2> QED BY <1>1, <2>1, <2>2, QueueCounts DEF QueueStep
<1>2. ASSUME NEW w \in Workers, WorkStep(w)
      PROVE  Counts'
  <2>1. CASE TakeJob(w)
    <3>1. /\ w \in Procs /\ OthersStay(w) /\ pc[w] = "idle" /\ pc'[w] = "mark"
          /\ UNCHANGED <<items, count, unsaved, status>>
      BY <1>0, <2>1, Bounds DEF TakeJob, Goto, OthersStay, Shape, TypeOK
    <3> QED BY <3>1, HandoverCounts
  <2> QED BY <1>2, <2>1, WorkCounts
<1>3. ASSUME NEW c \in Callers, NEW i \in Instances, NEW k \in AllKinds, ImportManifest(c, i, k)
      PROVE  Counts'
  <2>1. PICK r \in RunIds : Fresh(c, r, "running")
    BY <1>3, ImportFresh
  <2>2. /\ c \in Procs /\ OthersStay(c) /\ pc[c] = "idle" /\ pc'[c] = "import"
        /\ UNCHANGED <<items, count, unsaved>>
    <3>1. pc'[c] = "import"
      BY <1>3, ImportFresh
    <3>2. OthersStay(c)
      BY <2>1 DEF Fresh
    <3>3. c \in Procs /\ pc[c] = "idle" /\ UNCHANGED <<items, count, unsaved>>
      BY <1>3, Bounds DEF ImportManifest
    <3> QED BY <3>1, <3>2, <3>3
  <2>3. \A q \in RunIds : status'[q] = status[q] \/ (status[q] = "none" /\ status'[q] # "success")
    BY <1>0, <2>1 DEF Fresh, Shape, TypeOK
  <2> QED BY <2>2, <2>3, HandoverCounts
<1>4. ASSUME NEW c \in Callers, Request(c)
      PROVE  Counts'
  BY <1>3, <1>4, QueueCounts, CallCounts, Bounds DEF Request, DeleteRun, DeleteAllRuns
<1>5. ASSUME NEW c \in Callers, CallStep(c)
      PROVE  Counts'
  BY <1>1, <1>5, CallCounts, Bounds DEF CallStep
<1>6. ASSUME NEW i \in Instances, NEW k \in Kinds, ScheduleDueBackup(i, k)
      PROVE  Counts'
  BY <1>6, QueueCounts, Bounds DEF ScheduleDueBackup, AllKinds
<1> QED BY <1>1, <1>2, <1>4, <1>5, <1>6, CleanCounts, LifeCounts, Bounds DEF Next

LEMMA SnapshotsInit == Init => Files /\ Counts
<1> SUFFICES ASSUME Init PROVE Files /\ Counts
  OBVIOUS
<1>1. /\ \A p \in Procs : pc[p] = "idle" /\ held[p] = {}
      /\ \A r \in RunIds : items[r] = {} /\ status[r] = "none"
  BY DEF Init
<1>2. \A r \in RunIds : IsFiniteSet(items[r])
  BY <1>1, FS_EmptySet
<1>3. Files
  <2>1. \A p \in Procs : FilesOf(p)
    BY <1>1 DEF FilesOf, HoldPcs
  <2>2. \A r \in RunIds : BlobOf(items[r]) = {}
    BY <1>1 DEF BlobOf
  <2> QED BY <2>1, <2>2 DEF Files
<1>4. Counts
  BY <1>1, <1>2 DEF Counts, CountsOf, SnapshotComplete
<1> QED BY <1>3, <1>4

(* What a restore relies on, always: a successful run has the items its    *)
(* count claims and the blobs of stored items are on disk and whole, or an *)
(* import is rewriting them, outside of the failed writes and copies and   *)
(* the overlaps with a cleanup that the property names.                    *)
THEOREM SnapshotsAreUsable == Spec => []SnapshotsUsable
<1>1. RunsInv /\ Files /\ Counts /\ [Next]_vars => RunsInv' /\ Files' /\ Counts'
  <2> SUFFICES ASSUME RunsInv, Files, Counts, [Next]_vars PROVE RunsInv' /\ Files' /\ Counts'
    OBVIOUS
  <2>1. RunsInv'
    BY RunInvKept DEF RunsInv
  <2>2. Files'
    BY FilesStep DEF RunsInv
  <2>3. Counts'
    <3>1. CASE Next
      BY <3>1, CountsStep DEF RunsInv
    <3>2. CASE UNCHANGED vars
      BY <3>2 DEF vars, rows, local, history, Counts, CountsOf, SnapshotComplete, Exists
    <3> QED BY <3>1, <3>2
  <2> QED BY <2>1, <2>2, <2>3
<1>2. Init => RunsInv /\ Files /\ Counts
  BY RunInit, SnapshotsInit DEF RunsInv
<1>3. Files /\ Counts => SnapshotsUsable
  BY DEF Files, Counts, BlobOf, Safe, BlobsKept, SnapshotsUsable
<1> QED BY <1>1, <1>2, <1>3, PTL DEF Spec
=============================================================================
