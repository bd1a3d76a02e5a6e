------------------------- MODULE OrphanFilesProofs --------------------------
(***************************************************************************)
(* OrphanFiles for every set of files, roots, torrents and instances, and  *)
(* any number of changes of the world.                                     *)
(*                                                                         *)
(* The file map is read piece by piece, so no piece need describe the      *)
(* world as it is when the map is used.  What survives is a statement      *)
(* about the torrents that have not changed since the reading began:       *)
(* CoverInv says that each of them, once its instance has been read, is    *)
(* covered by the map or by a skipped root, or lies apart from every scan  *)
(* root.                                                                   *)
(***************************************************************************)
EXTENDS OrphanFiles, TLAPS

InUse == pc \in {"others", "confirm", "merge", "loop"}

Covered(t) ==
    /\ mode[t] \in {"listed", "transient"}
    /\ mode[t] = "listed" => TFiles[t] \subseteq fileMap
    /\ mode[t] = "transient" => SavePath[t] \in skippedRoots

Apart(t) == \A r \in scanRoots : r \notin Under[SavePath[t]] /\ SavePath[t] \notin Under[r]

OwnCovered ==
    InUse => \A t \in Torrents \ touched : where[t] = Me => Covered(t)

OthersCovered ==
    InUse => \A t \in Torrents \ touched :
                where[t] \in Others \ todo => Covered(t) \/ Apart(t)

CoverInv ==
    /\ OwnCovered /\ OthersCovered
    /\ pc = "loop" => todo = {}
    /\ PreviewOnlyOrphans

-----------------------------------------------------------------------------
(* Every step keeps every variable in its type. *)
LEMMA TypeStep == TypeOK /\ [Next]_vars => TypeOK'
<1> SUFFICES ASSUME TypeOK, [Next]_vars PROVE TypeOK'
  OBVIOUS
<1> USE OrphanFilesAssumption DEF TypeOK, Statuses, Pcs, world, result, run
<1>1. ASSUME NEW t \in Torrents, TorrentChanges(t) PROVE TypeOK'
  BY <1>1 DEF TorrentChanges, Change
<1>2. ASSUME NEW i \in Instances, ReadinessChanges(i) PROVE TypeOK'
  BY <1>2 DEF ReadinessChanges, Change
<1>3. ASSUME NEW f \in Files, FileVanishes(f) PROVE TypeOK'
  BY <1>3 DEF FileVanishes, Change
<1>4. ASSUME NEW r \in Roots, SettingsChange(r) PROVE TypeOK'
  BY <1>4 DEF SettingsChange, Change
<1>5. CASE StartScan BY <1>5 DEF StartScan
<1>6. CASE StartDeletion BY <1>6 DEF StartDeletion
<1>7. CASE BuildOwn
  BY <1>7 DEF BuildOwn, MapOf, SkippedOf, ListedRootsOf, Uncovered, In
<1>8. CASE ConfirmNoOverlap BY <1>8 DEF ConfirmNoOverlap
<1>9. CASE MergeOther
  BY <1>9 DEF MergeOther, MapOf, SkippedOf, Uncovered, In
<1>10. CASE BuildFails BY <1>10 DEF BuildFails, Fail
<1>11. ASSUME NEW i \in Others, CheckOverlap(i) PROVE TypeOK'
  BY <1>11 DEF CheckOverlap
<1>12. CASE SavePreview BY <1>12 DEF SavePreview
<1>13. CASE ScanFails BY <1>13 DEF ScanFails, Fail
<1>14. CASE LoadDeletion BY <1>14 DEF LoadDeletion
<1>15. CASE LoadFails BY <1>15 DEF LoadFails, Fail
<1>16. CASE FinishDeletion BY <1>16 DEF FinishDeletion
<1>17. ASSUME NEW f \in Files, DeleteEntry(f) PROVE TypeOK'
  <2>1. Disposition(f) \in {"deleted", "skipped", "failed"} BY DEF Disposition
  <2> QED BY <1>17, <2>1 DEF DeleteEntry
<1>18. ASSUME NEW f \in Files, RemoveFails(f) PROVE TypeOK'
  BY <1>18 DEF RemoveFails
<1>19. CASE UNCHANGED vars BY <1>19 DEF vars
<1>20. CASE CancelRun BY <1>20 DEF CancelRun
<1> QED
  BY <1>1, <1>2, <1>3, <1>4, <1>5, <1>6, <1>7, <1>8, <1>9, <1>10, <1>11, <1>12,
     <1>13, <1>14, <1>15, <1>16, <1>17, <1>18, <1>19, <1>20
  DEF Next, World, BuildStep, ScanStep, DeletionStep

(* The type invariant of a run's file handling, for all constants. *)
THEOREM TypeCorrect == Spec => []TypeOK
<1>1. Init => TypeOK
  BY OrphanFilesAssumption DEF Init, TypeOK, Statuses, Pcs
<1> QED BY <1>1, TypeStep, PTL DEF Spec

-----------------------------------------------------------------------------
(* Reading an instance's torrents covers them; a non-overlap leaves them     *)
(* apart; a candidate for the preview is neither covered nor apart.          *)
LEMMA ReadCovers ==
  ASSUME TypeOK, NEW i, Readable(i), NEW t \in Torrents, where[t] = i
  PROVE  /\ mode[t] \in {"listed", "transient"}
         /\ mode[t] = "listed" => TFiles[t] \subseteq MapOf(i)
         /\ mode[t] = "transient" => SavePath[t] \in SkippedOf(i)
<1>1. mode[t] \in {"listed", "transient"}
  BY DEF TypeOK, Readable, PartialData, In
<1>2. mode[t] = "listed" => TFiles[t] \subseteq MapOf(i)
  BY DEF MapOf, In
<1>3. mode[t] = "transient" => SavePath[t] \in SkippedOf(i)
  BY DEF SkippedOf, In
<1> QED BY <1>1, <1>2, <1>3

LEMMA NoOverlapIsApart ==
  ASSUME NEW i, ~Overlap(scanRoots, RootsOf(i)), NEW t \in Torrents, where[t] = i
  PROVE  Apart(t)
<1>1. SavePath[t] \in RootsOf(i) BY DEF RootsOf, In
<1> QED BY <1>1 DEF Overlap, Apart

LEMMA CandidatesAreFree ==
  ASSUME TypeOK, NEW t \in Torrents, Covered(t) \/ Apart(t), NEW f \in TFiles[t]
  PROVE  f \notin Candidates
<1> USE OrphanFilesAssumption
<1>1. f \in Files /\ SavePath[t] \in Under[f] /\ SavePath[t] \in Roots
  OBVIOUS
<1>2. CASE Covered(t) BY <1>1, <1>2 DEF Covered, Candidates
<1>3. CASE Apart(t)
  <2>1. SUFFICES ASSUME NEW r \in scanRoots, r \in Under[f] PROVE FALSE
    BY DEF Candidates
  <2>2. r \in Roots BY DEF TypeOK
  <2>3. r \in Under[SavePath[t]] \/ SavePath[t] \in Under[r]
    BY <1>1, <2>1, <2>2
  <2> QED BY <1>3, <2>1, <2>3 DEF Apart
<1> QED BY <1>2, <1>3

(* Changes of the world only concern torrents they mark as touched. *)
LEMMA WorldStep == TypeOK /\ CoverInv /\ World => CoverInv'
<1> SUFFICES ASSUME TypeOK, CoverInv, World PROVE CoverInv'
  OBVIOUS
<1>1. UNCHANGED <<status, pc, fileMap, scanRoots, skippedRoots, todo, entry>>
  BY DEF World, TorrentChanges, ReadinessChanges, FileVanishes, SettingsChange, Change,
     result, run
<1>2. \A t \in Torrents \ touched' :
         t \notin touched /\ where'[t] = where[t] /\ mode'[t] = mode[t]
  <2>1. ASSUME NEW u \in Torrents, TorrentChanges(u)
        PROVE \A t \in Torrents \ touched' :
                 t \notin touched /\ where'[t] = where[t] /\ mode'[t] = mode[t]
    BY <2>1 DEF TorrentChanges, TypeOK
  <2> QED BY <2>1 DEF World, ReadinessChanges, FileVanishes, SettingsChange
<1>3. OwnCovered' BY <1>1, <1>2 DEF CoverInv, OwnCovered, InUse, Covered
<1>4. OthersCovered' BY <1>1, <1>2 DEF CoverInv, OthersCovered, InUse, Covered, Apart
<1>5. PreviewOnlyOrphans' BY <1>1, <1>2 DEF CoverInv, PreviewOnlyOrphans, Loaded
<1> QED BY <1>1, <1>3, <1>4, <1>5 DEF CoverInv

(* Every step of the program keeps the torrents it has read covered. *)
LEMMA CoverStep == TypeOK /\ CoverInv /\ [Next]_vars => CoverInv'
<1> SUFFICES ASSUME TypeOK, CoverInv, [Next]_vars PROVE CoverInv'
  OBVIOUS
<1> USE OrphanFilesAssumption DEF CoverInv, OwnCovered, OthersCovered, PreviewOnlyOrphans,
        InUse, Covered, Apart, Loaded, world, result, run
<1>1. CASE World BY <1>1, WorldStep
<1>2. CASE StartScan BY <1>2 DEF StartScan
<1>3. CASE StartDeletion BY <1>3 DEF StartDeletion
<1>4. CASE BuildOwn
  <2>1. Readable(Me) BY <1>4 DEF BuildOwn
  <2>2. \A t \in Torrents : where[t] = Me =>
          /\ mode[t] \in {"listed", "transient"}
          /\ mode[t] = "listed" => TFiles[t] \subseteq fileMap'
          /\ mode[t] = "transient" => SavePath[t] \in skippedRoots'
    BY <1>4, <2>1, ReadCovers DEF BuildOwn
  <2>3. status' = status /\ entry' = entry BY <1>4 DEF BuildOwn
  <2> QED BY <1>4, <2>2, <2>3 DEF BuildOwn
<1>5. CASE ConfirmNoOverlap
  <2>1. UNCHANGED <<where, mode, fileMap, scanRoots, skippedRoots, status, entry, touched>>
    BY <1>5 DEF ConfirmNoOverlap
  <2>2. CASE UNCHANGED todo BY <1>5, <2>1, <2>2 DEF ConfirmNoOverlap
  <2>3. CASE ~Overlap(scanRoots, RootsOf(cur)) /\ todo' = todo \ {cur} /\ pc' = "others"
    <3>1. \A t \in Torrents : where[t] = cur => Apart(t)
      BY <2>3, NoOverlapIsApart
    <3> QED BY <1>5, <2>1, <2>3, <3>1 DEF ConfirmNoOverlap
  <2> QED BY <1>5, <2>2, <2>3 DEF ConfirmNoOverlap
<1>6. CASE MergeOther
  <2>1. UNCHANGED <<where, mode, status, entry, touched>> BY <1>6 DEF MergeOther
  <2>2. /\ fileMap \subseteq fileMap' /\ skippedRoots \subseteq skippedRoots'
        /\ scanRoots' \subseteq scanRoots
    BY <1>6 DEF MergeOther, Uncovered
  <2>3. \A t \in Torrents : where[t] = cur =>
          /\ mode[t] \in {"listed", "transient"}
          /\ mode[t] = "listed" => TFiles[t] \subseteq fileMap'
          /\ mode[t] = "transient" => SavePath[t] \in skippedRoots'
    BY <1>6, ReadCovers DEF MergeOther
  <2>4. pc = "merge" /\ pc' = "others" /\ todo' = todo \ {cur} BY <1>6 DEF MergeOther
  <2>5. OwnCovered' BY <2>1, <2>2, <2>4
  <2>6. OthersCovered' BY <2>1, <2>2, <2>3, <2>4
  <2> QED BY <2>1, <2>4, <2>5, <2>6
<1>7. CASE BuildFails BY <1>7 DEF BuildFails, Fail
<1>8. ASSUME NEW i \in Others, CheckOverlap(i) PROVE CoverInv'
  BY <1>8 DEF CheckOverlap
<1>9. CASE SavePreview
  <2>1. todo = {} /\ InUse BY <1>9 DEF SavePreview, Built
  <2>2. \A t \in Torrents \ touched : Loaded(t) => Covered(t) \/ Apart(t)
    BY <2>1 DEF Instances
  <2>3. \A t \in Torrents \ touched : Loaded(t) => \A f \in TFiles[t] : f \notin Candidates
    BY <2>2, CandidatesAreFree DEF Covered, Apart
  <2>4. \A f \in Files : entry'[f] = "pending" => f \in Candidates
    BY <1>9 DEF SavePreview
  <2>5. UNCHANGED <<where, touched>> /\ pc' = "idle" BY <1>9 DEF SavePreview
  <2> QED BY <2>3, <2>4, <2>5
<1>10. CASE ScanFails BY <1>10 DEF ScanFails, Fail
<1>11. CASE LoadDeletion BY <1>11 DEF LoadDeletion, Built
<1>12. CASE LoadFails BY <1>12 DEF LoadFails, Fail
<1>13. CASE FinishDeletion BY <1>13 DEF FinishDeletion
<1>14. ASSUME NEW f \in Files, DeleteEntry(f) PROVE CoverInv'
  BY <1>14 DEF DeleteEntry
<1>15. ASSUME NEW f \in Files, RemoveFails(f) PROVE CoverInv'
  BY <1>15 DEF RemoveFails
<1>16. CASE UNCHANGED vars BY <1>16 DEF vars
<1>17. CASE CancelRun BY <1>17 DEF CancelRun
<1> QED
  BY <1>1, <1>2, <1>3, <1>4, <1>5, <1>6, <1>7, <1>8, <1>9, <1>10, <1>11, <1>12,
     <1>13, <1>14, <1>15, <1>16, <1>17
  DEF Next, BuildStep, ScanStep, DeletionStep

LEMMA CoverInvariant == Spec => []CoverInv
<1>1. Init => CoverInv
  BY OrphanFilesAssumption
  DEF Init, CoverInv, OwnCovered, OthersCovered, PreviewOnlyOrphans, InUse
<1> QED BY <1>1, CoverStep, TypeCorrect, PTL DEF Spec

(* No scan, however its reads interleave with changes on any instance, puts  *)
(* into the preview a file of a loaded torrent that stayed as it was.        *)
THEOREM PreviewIsOrphans == Spec => []PreviewOnlyOrphans
<1>1. CoverInv => PreviewOnlyOrphans BY DEF CoverInv
<1> QED BY <1>1, CoverInvariant, PTL

-----------------------------------------------------------------------------
(* Only the deletion loop deletes, and only what the fresh map does not hold. *)
LEMMA DeletesOnlyUnmapped ==
  ASSUME TypeOK, [Next]_vars, NEW f \in Files, Deletes(f)
  PROVE  /\ pc = "loop" /\ f \notin fileMap
         /\ \E r \in scanPaths : r \in Under[f]
<1> USE DEF Deletes, TypeOK, world, result, run
<1>1. ASSUME NEW g \in Files, DeleteEntry(g)
      PROVE  pc = "loop" /\ f \notin fileMap /\ \E r \in scanPaths : r \in Under[f]
  <2>1. f = g /\ Disposition(f) = "deleted" /\ pc = "loop" BY <1>1 DEF DeleteEntry
  <2> QED BY <2>1 DEF Disposition
<1>2. CASE World
  BY <1>2 DEF World, TorrentChanges, ReadinessChanges, FileVanishes, SettingsChange, Change
<1>3. CASE SavePreview BY <1>3 DEF SavePreview
<1>4. ASSUME NEW g \in Files, RemoveFails(g) PROVE FALSE BY <1>4 DEF RemoveFails
<1>5. CASE StartScan \/ StartDeletion BY <1>5 DEF StartScan, StartDeletion
<1>6. CASE BuildStep
  BY <1>6 DEF BuildStep, BuildOwn, ConfirmNoOverlap, MergeOther, BuildFails, Fail, CheckOverlap
<1>7. CASE ScanFails \/ LoadDeletion \/ LoadFails \/ FinishDeletion \/ CancelRun
  BY <1>7 DEF ScanFails, LoadDeletion, LoadFails, FinishDeletion, Fail, CancelRun
<1>8. CASE UNCHANGED vars BY <1>8 DEF vars
<1> QED BY <1>1, <1>2, <1>3, <1>4, <1>5, <1>6, <1>7, <1>8 DEF Next, ScanStep, DeletionStep

(* The deletion spares every file of a listed torrent of the scanned          *)
(* instance that stayed as it was since the deletion began.                   *)
THEOREM OwnSurvive == Spec => OwnFilesSurvive
<1>1. TypeOK /\ CoverInv /\ [Next]_vars =>
        [\A t \in Torrents \ touched : where[t] = Me /\ mode[t] = "listed" =>
            \A f \in TFiles[t] : ~Deletes(f)]_vars
  <2>1. SUFFICES ASSUME TypeOK, CoverInv, [Next]_vars,
                        NEW t \in Torrents \ touched, where[t] = Me, mode[t] = "listed",
                        NEW f \in TFiles[t], Deletes(f)
                 PROVE  FALSE
    OBVIOUS
  <2>2. f \in Files BY OrphanFilesAssumption
  <2>3. pc = "loop" /\ f \notin fileMap BY <2>1, <2>2, DeletesOnlyUnmapped
  <2> QED BY <2>1, <2>3 DEF CoverInv, OwnCovered, InUse, Covered
<1> QED BY <1>1, TypeCorrect, CoverInvariant, PTL DEF Spec, OwnFilesSurvive

(* It spares those of another instance's torrents too, where their save path  *)
(* overlaps a scan root of the deletion's own file map.                       *)
THEOREM SharedSurvive == Spec => SharedFilesSurvive
<1>1. TypeOK /\ CoverInv /\ [Next]_vars =>
        [\A t \in Torrents \ touched :
            /\ where[t] \in Others /\ mode[t] = "listed"
            /\ Overlap(scanRoots, {SavePath[t]})
            => \A f \in TFiles[t] : ~Deletes(f)]_vars
  <2>1. SUFFICES ASSUME TypeOK, CoverInv, [Next]_vars,
                        NEW t \in Torrents \ touched, where[t] \in Others,
                        mode[t] = "listed", Overlap(scanRoots, {SavePath[t]}),
                        NEW f \in TFiles[t], Deletes(f)
                 PROVE  FALSE
    OBVIOUS
  <2>2. f \in Files BY OrphanFilesAssumption
  <2>3. pc = "loop" /\ f \notin fileMap BY <2>1, <2>2, DeletesOnlyUnmapped
  <2>4. ~Apart(t) BY <2>1 DEF Overlap, Apart
  <2> QED BY <2>1, <2>3, <2>4 DEF CoverInv, OthersCovered, InUse, Covered
<1> QED BY <1>1, TypeCorrect, CoverInvariant, PTL DEF Spec, SharedFilesSurvive
=============================================================================
