---------------------------- MODULE OrphanFiles -----------------------------
(***************************************************************************)
(* Which files one orphan-scan run flags and deletes, while torrents come  *)
(* and go on several Transmission instances: buildFileMap, executeScan and *)
(* executeDeletion of internal/services/orphanscan/service.go, with        *)
(* delete.go, walker.go and filemap.go.                                    *)
(*                                                                         *)
(* The file map is assembled from several reads: this instance's torrents, *)
(* then each other instance's save paths and, where they overlap, its      *)
(* torrents.  Every read is a step, so torrents change between them, and   *)
(* between the scan and the deletion that may follow days later.  The life *)
(* of the run row itself is OrphanRuns' subject.                           *)
(*                                                                         *)
(* The code reads torrents from the client's sync cache, about 2 s old at  *)
(* most, or up to MaxSyncAge when syncs fail.  A step that reads stands    *)
(* for the moment of the sync whose result it sees, so "unchanged since    *)
(* the scan, or the deletion, began" means since the first such sync.      *)
(*                                                                         *)
(* A path is a file or a root (a directory used as a save path).  Disc     *)
(* folders, which the walker reports as one entry, are left out: every     *)
(* entry of the preview is one file.  The cleanup of directories that have *)
(* become empty removes no file and is left out.                           *)
(***************************************************************************)
EXTENDS Naturals, FiniteSets

CONSTANTS
    Files,       \* the paths that may exist on disk
    Roots,       \* the directories used as save paths or ignore paths
    Under,       \* [Files \cup Roots -> SUBSET Roots]: the roots a path is in, itself included
    Torrents,
    SavePath,    \* [Torrents -> Roots]
    TFiles,      \* [Torrents -> SUBSET Files]
    Me,          \* the instance being scanned
    Others,      \* the other active instances with local filesystem access
    Nowhere,     \* not an instance: the torrent is not loaded
    MaxFiles,    \* settings.MaxFilesPerRun
    MaxChanges   \* bound: changes of the world during the run

Instances == {Me} \cup Others

ASSUME OrphanFilesAssumption ==
    /\ Under \in [Files \cup Roots -> SUBSET Roots]
    /\ \A r \in Roots : r \in Under[r]
    /\ SavePath \in [Torrents -> Roots]
    /\ TFiles \in [Torrents -> SUBSET Files]
    /\ \A t \in Torrents, f \in Files : f \in TFiles[t] => SavePath[t] \in Under[f]
    /\ \A f \in Files, q, r \in Roots :       \* the roots of a file are nested
          q \in Under[f] /\ r \in Under[f] => q \in Under[r] \/ r \in Under[q]
    /\ Me \notin Others /\ Nowhere \notin Instances
    /\ MaxFiles \in Nat \ {0} /\ MaxChanges \in Nat

VARIABLES
    \* the world
    where,        \* the instance each torrent is loaded in, or Nowhere
    mode,         \* "listed": its files are known; "transient": not yet, and its
                  \* state says so (metaDL, checking, moving); "missing": no list
                  \* although its state is a stable one
    ready,        \* the instances that are healthy and freshly synced
    disk,         \* the files that exist
    ignorePaths,  \* settings.IgnorePaths
    changes,      \* how often the world has changed
    \* the run
    status, pc,
    fileMap, scanRoots, skippedRoots,   \* buildFileMapResult
    todo, cur,                          \* other instances left to look at; the one in hand
    scanPaths,                          \* the row's scan_paths
    entry,                              \* the orphan_scan_files rows: file -> status
    loadedIgnore,                       \* the ignore paths executeDeletion loaded
    touched                             \* history: torrents changed since the scan,
                                        \* or the deletion, began

world == <<where, mode, ready, disk, ignorePaths, changes>>
result == <<fileMap, scanRoots, skippedRoots, todo, cur>>
run == <<scanPaths, entry, loadedIgnore>>
vars == <<world, status, pc, result, run, touched>>

Init ==
    /\ where \in [Torrents -> Instances \cup {Nowhere}]
    /\ mode \in [Torrents -> {"listed", "transient"}]
    /\ ready = Instances
    /\ disk = Files
    /\ ignorePaths \in SUBSET Roots
    /\ changes = 0
    /\ status = "pending" /\ pc = "idle"
    /\ fileMap = {} /\ scanRoots = {} /\ skippedRoots = {}
    /\ todo = {} /\ cur = Nowhere
    /\ scanPaths = {}
    /\ entry = [f \in Files |-> "none"]
    /\ loadedIgnore = {}
    /\ touched = {}

-----------------------------------------------------------------------------
(* The world: users, *arr applications, Transmission and the network. *)

Change ==
    /\ changes < MaxChanges
    /\ changes' = changes + 1
    /\ UNCHANGED <<status, pc, result, run>>

(* A torrent is added, removed, moved to another instance, or its state or *)
(* the availability of its file list changes.                              *)
TorrentChanges(t) ==
    /\ Change
    /\ \E i \in Instances \cup {Nowhere}, m \in {"listed", "transient", "missing"} :
         /\ where' = [where EXCEPT ![t] = i]
         /\ mode' = [mode EXCEPT ![t] = m]
    /\ touched' = touched \cup {t}
    /\ UNCHANGED <<ready, disk, ignorePaths>>

ReadinessChanges(i) ==
    /\ Change
    /\ ready' = IF i \in ready THEN ready \ {i} ELSE ready \cup {i}
    /\ UNCHANGED <<where, mode, disk, ignorePaths, touched>>

FileVanishes(f) ==
    /\ Change
    /\ disk' = disk \ {f}
    /\ UNCHANGED <<where, mode, ready, ignorePaths, touched>>

SettingsChange(r) ==
    /\ Change
    /\ ignorePaths' = ignorePaths \cup {r}
    /\ UNCHANGED <<where, mode, ready, disk, touched>>

-----------------------------------------------------------------------------
(* buildFileMap, for the scan (status "scanning") and again for the        *)
(* deletion (status "deleting").                                           *)

In(i) == {t \in Torrents : where[t] = i}

(* buildFileMapFromTorrents *)
MapOf(i) == UNION {TFiles[t] : t \in {u \in In(i) : mode[u] = "listed"}}
SkippedOf(i) == {SavePath[t] : t \in {u \in In(i) : mode[u] = "transient"}}
ListedRootsOf(i) == {SavePath[t] : t \in {u \in In(i) : mode[u] = "listed"}}
PartialData(i) == \E t \in In(i) : mode[t] = "missing"
Readable(i) == i \in ready /\ ~PartialData(i)

(* filterScanRootsCoveredBySkippedRoots *)
Uncovered(roots, skipped) == {r \in roots : Under[r] \cap skipped = {}}

(* scanRootsFromTorrents and scanRootsOverlap.  They, and the own map, also *)
(* look at content_path, which the compat layer puts together from the save *)
(* path and the name (toQBT): it lies below the save path and adds neither  *)
(* a root nor an overlap.                                                   *)
RootsOf(i) == {SavePath[t] : t \in In(i)}
Overlap(a, b) == \E q \in a, r \in b : q \in Under[r] \/ r \in Under[q]

Fail ==
    /\ status' = "failed" /\ pc' = "idle"
    /\ UNCHANGED <<world, result, run, touched>>

BuildOwn ==
    /\ pc = "own" /\ Readable(Me)
    /\ fileMap' = MapOf(Me)
    /\ skippedRoots' = SkippedOf(Me)
    /\ scanRoots' = Uncovered(ListedRootsOf(Me), SkippedOf(Me))
    /\ todo' = Others /\ cur' = Nowhere
    /\ pc' = "others"
    /\ UNCHANGED <<world, status, run, touched>>

(* Mutant: the instance in hand is not recorded. *)
CheckOverlapStale(i) ==
    /\ pc = "others" /\ i \in todo
    /\ \/ i \in ready /\ pc' = IF Overlap(scanRoots, RootsOf(i)) THEN "merge" ELSE "confirm"
       \/ i \notin ready /\ pc' \in {"merge", "confirm"}
    /\ UNCHANGED <<world, status, fileMap, scanRoots, skippedRoots, todo, cur, run, touched>>

(* instanceScanRootsForOverlap: the live save paths; when they cannot be   *)
(* read, those of the last completed run, which may be any.                *)
CheckOverlap(i) ==
    /\ pc = "others" /\ i \in todo
    /\ cur' = i
    /\ \/ i \in ready /\ pc' = IF Overlap(scanRoots, RootsOf(i)) THEN "merge" ELSE "confirm"
       \/ i \notin ready /\ pc' \in {"merge", "confirm"}
    /\ UNCHANGED <<world, status, fileMap, scanRoots, skippedRoots, todo, run, touched>>

(* A non-overlap is believed only after a second, live read. *)
ConfirmNoOverlap ==
    /\ pc = "confirm" /\ cur \in ready
    /\ \/ Overlap(scanRoots, RootsOf(cur)) /\ pc' = "merge" /\ UNCHANGED <<todo, cur>>
       \/ /\ ~Overlap(scanRoots, RootsOf(cur))
          /\ pc' = "others" /\ todo' = todo \ {cur} /\ cur' = Nowhere
    /\ UNCHANGED <<world, status, fileMap, scanRoots, skippedRoots, run, touched>>

MergeOther ==
    /\ pc = "merge" /\ Readable(cur)
    /\ fileMap' = fileMap \cup MapOf(cur)
    /\ skippedRoots' = skippedRoots \cup SkippedOf(cur)
    /\ scanRoots' = Uncovered(scanRoots, skippedRoots')
    /\ pc' = "others" /\ todo' = todo \ {cur} /\ cur' = Nowhere
    /\ UNCHANGED <<world, status, run, touched>>

(* Every failure of a read ends the run: failRun. *)
BuildFails ==
    /\ \/ pc = "own" /\ ~Readable(Me)
       \/ pc = "others" /\ \E i \in todo : i \notin ready
       \/ pc = "confirm" /\ cur \notin ready
       \/ pc = "merge" /\ ~Readable(cur)
    /\ Fail

Built == pc = "others" /\ todo = {}

-----------------------------------------------------------------------------
(* executeScan *)

StartScan ==
    /\ status = "pending"
    /\ status' = "scanning" /\ pc' = "own"
    /\ touched' = {}
    /\ UNCHANGED <<world, result, run>>

(* Mutant: the walk does not leave out the skipped roots. *)
CandidatesAnywhere ==
    {f \in disk : /\ Under[f] \cap scanRoots # {}
                  /\ f \notin fileMap
                  /\ Under[f] \cap ignorePaths = {}}

(* walkScanRoot: existing files below a scan root that no torrent has and  *)
(* that no ignore path or skipped root covers.                             *)
Candidates ==
    {f \in disk : /\ Under[f] \cap scanRoots # {}
                  /\ f \notin fileMap
                  /\ Under[f] \cap (ignorePaths \cup skippedRoots) = {}}

(* Any part of the candidates may be younger than the grace period; the    *)
(* rest is sorted, and cut to MaxFilesPerRun.  UpdateRunScanPaths may fail, *)
(* which is only logged.                                                   *)
SavePreview ==
    /\ Built /\ status = "scanning" /\ scanRoots # {}
    /\ scanPaths' \in {scanRoots, scanPaths}
    /\ \E found \in SUBSET Candidates :
         /\ Cardinality(found) <= MaxFiles
         /\ entry' = [f \in Files |-> IF f \in found THEN "pending" ELSE "none"]
         /\ status' = IF found = {} THEN "completed" ELSE "preview_ready"
    /\ pc' = "idle"
    /\ UNCHANGED <<world, result, loadedIgnore, touched>>

(* No scan roots, or every root failed to be walked. *)
ScanFails ==
    /\ Built /\ status = "scanning"
    /\ Fail

-----------------------------------------------------------------------------
(* executeDeletion *)

StartDeletion ==
    /\ status = "preview_ready"
    /\ status' = "deleting" /\ pc' = "own"
    /\ touched' = {}
    /\ UNCHANGED <<world, result, run>>

(* Mutant: the deletion checks the scanned instance's torrents only. *)
LoadDeletionOwnOnly ==
    /\ Built /\ status = "deleting"
    /\ fileMap' = fileMap \cap MapOf(Me)
    /\ loadedIgnore' \in {ignorePaths, {}}
    /\ pc' = "loop"
    /\ UNCHANGED <<world, status, scanRoots, skippedRoots, todo, cur, scanPaths,
                   entry, touched>>

(* Of the fresh result only the file map is used: tfm := fileMapResult.fileMap. *)
(* Settings that cannot be read are logged, and leave no ignore paths.          *)
LoadDeletion ==
    /\ Built /\ status = "deleting"
    /\ loadedIgnore' \in {ignorePaths, {}}
    /\ pc' = "loop"
    /\ UNCHANGED <<world, status, result, scanPaths, entry, touched>>

(* The run or its files cannot be loaded: failRun. *)
LoadFails == Built /\ status = "deleting" /\ Fail

(* isPathProtectedByIgnorePaths; a root is never below a file. *)
Ignored(f) == Under[f] \cap loadedIgnore # {}

(* Mutant: the fresh file map is not consulted again. *)
DispositionTrusting(f) ==
    CASE Under[f] \cap scanPaths = {} -> "failed"
      [] Under[f] \cap scanPaths # {} /\ (Ignored(f) \/ f \notin disk) -> "skipped"
      [] OTHER -> "deleted"

(* findScanRoot and safeDeleteTarget: what becomes of one entry. *)
Disposition(f) ==
    CASE Under[f] \cap scanPaths = {} -> "failed"
      [] Under[f] \cap scanPaths # {} /\ Ignored(f) -> "skipped"
      [] Under[f] \cap scanPaths # {} /\ ~Ignored(f) /\ f \notin disk -> "skipped"
      [] Under[f] \cap scanPaths # {} /\ ~Ignored(f) /\ f \in disk /\ f \in fileMap -> "skipped"
      [] OTHER -> "deleted"

DeleteEntry(f) ==
    /\ pc = "loop" /\ entry[f] = "pending"
    /\ entry' = [entry EXCEPT ![f] = Disposition(f)]
    /\ disk' = IF Disposition(f) = "deleted" THEN disk \ {f} ELSE disk
    /\ UNCHANGED <<where, mode, ready, ignorePaths, changes, status, pc, result,
                   scanPaths, loadedIgnore, touched>>

(* os.Remove fails: a read-only file system, missing permissions. *)
RemoveFails(f) ==
    /\ pc = "loop" /\ entry[f] = "pending" /\ Disposition(f) = "deleted"
    /\ entry' = [entry EXCEPT ![f] = "failed"]
    /\ UNCHANGED <<world, status, pc, result, scanPaths, loadedIgnore, touched>>

FinishDeletion ==
    /\ pc = "loop" /\ \A f \in Files : entry[f] # "pending"
    /\ status' = IF /\ \E f \in Files : entry[f] = "failed"
                    /\ \A f \in Files : entry[f] # "deleted"
                 THEN "failed" ELSE "completed"
    /\ pc' = "idle"
    /\ UNCHANGED <<world, result, run, touched>>

-----------------------------------------------------------------------------
(* CancelRun: the goroutine sees its canceled context (the scan before its *)
(* next root, the deletion before its next file) and leaves the rest as it *)
(* is; a pending run or a preview is just given up.  OrphanRuns shows when *)
(* a deletion can be canceled at all.                                      *)
CancelRun ==
    /\ status \in {"pending", "scanning", "preview_ready", "deleting"}
    /\ status' = "canceled" /\ pc' = "idle"
    /\ UNCHANGED <<world, result, run, touched>>

-----------------------------------------------------------------------------
World ==
    \/ \E t \in Torrents : TorrentChanges(t)
    \/ \E i \in Instances : ReadinessChanges(i)
    \/ \E f \in Files : FileVanishes(f)
    \/ \E r \in Roots : SettingsChange(r)

BuildStep ==
    \/ BuildOwn \/ ConfirmNoOverlap \/ MergeOther \/ BuildFails
    \/ \E i \in Others : CheckOverlap(i)

ScanStep == SavePreview \/ ScanFails

DeletionStep ==
    \/ LoadDeletion \/ LoadFails \/ FinishDeletion
    \/ \E f \in Files : DeleteEntry(f) \/ RemoveFails(f)

Next ==
    \/ World
    \/ StartScan \/ StartDeletion \/ CancelRun
    \/ BuildStep \/ ScanStep \/ DeletionStep

Spec == Init /\ [][Next]_vars

-----------------------------------------------------------------------------
Statuses == {"pending", "scanning", "preview_ready", "deleting", "completed", "failed",
             "canceled"}
Pcs == {"idle", "own", "others", "confirm", "merge", "loop"}

(* Type invariant. *)
TypeOK ==
    /\ where \in [Torrents -> Instances \cup {Nowhere}]
    /\ mode \in [Torrents -> {"listed", "transient", "missing"}]
    /\ ready \subseteq Instances /\ disk \subseteq Files
    /\ ignorePaths \subseteq Roots /\ changes \in 0 .. MaxChanges
    /\ status \in Statuses /\ pc \in Pcs
    /\ fileMap \subseteq Files /\ scanRoots \subseteq Roots /\ skippedRoots \subseteq Roots
    /\ todo \subseteq Others /\ cur \in Others \cup {Nowhere}
    /\ scanPaths \subseteq Roots /\ loadedIgnore \subseteq Roots
    /\ entry \in [Files -> {"none", "pending", "deleted", "skipped", "failed"}]
    /\ touched \subseteq Torrents
    /\ pc \in {"confirm", "merge"} => cur \in Others

Loaded(t) == where[t] \in Instances

(* The preview never offers a file of a torrent that has been loaded, in    *)
(* this or in any other active instance, and has not changed since the scan *)
(* began: whether its files were listed, or withheld and its save path      *)
(* skipped.                                                                 *)
PreviewOnlyOrphans ==
    status = "preview_ready" =>
       \A t \in Torrents \ touched : Loaded(t) =>
          \A f \in TFiles[t] : entry[f] # "pending"

(* What a deletion step must not do to file f as long as torrent t has it. *)
Deletes(f) == entry[f] = "pending" /\ entry'[f] = "deleted"

(* The deletion looks again: a file of a listed torrent of this instance,   *)
(* unchanged since the deletion began, survives, however late the torrent   *)
(* was added after the scan.                                                *)
OwnFilesSurvive ==
    [][\A t \in Torrents \ touched : where[t] = Me /\ mode[t] = "listed" =>
          \A f \in TFiles[t] : ~Deletes(f)]_vars

(* The same for a listed torrent of another instance, as long as its save   *)
(* path overlaps a root that this instance's torrents still make a scan     *)
(* root when the deletion starts.                                           *)
SharedFilesSurvive ==
    [][\A t \in Torrents \ touched :
          /\ where[t] \in Others /\ mode[t] = "listed"
          /\ Overlap(scanRoots, {SavePath[t]})
          => \A f \in TFiles[t] : ~Deletes(f)]_vars

-----------------------------------------------------------------------------
(* What the documentation says and the code does not do. *)

(* documentation/docs/features/orphan-scan.md: when the SavePath            *)
(* directories of the instances' torrents overlap, "qui-Transmission also   *)
(* protects files referenced by torrents from those other instances".  The  *)
(* overlap is taken here between the torrents now loaded; buildFileMap      *)
(* takes it after the skipped roots have been filtered out.                 *)
OtherInstancesProtected ==
    [][\A t \in Torrents \ touched :
          /\ where[t] \in Others /\ mode[t] = "listed"
          /\ \E u \in In(Me) \ touched : Overlap({SavePath[u]}, {SavePath[t]})
          => \A f \in TFiles[t] : ~Deletes(f)]_vars

(* delete.go: "Re-checks TorrentFileMap before deletion to handle torrents  *)
(* added since scan."  A torrent whose file list is not available yet       *)
(* protects its save path from the scan; here, from the deletion.           *)
TransientProtected ==
    [][\A t \in Torrents \ touched : where[t] = Me /\ mode[t] = "transient" =>
          \A f \in TFiles[t] : ~Deletes(f)]_vars
=============================================================================
