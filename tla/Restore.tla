------------------------------ MODULE Restore -------------------------------
(***************************************************************************)
(* A restore of a backup: internal/backups/restore_plan.go and             *)
(* restore_execute.go, with the writes of transmissionqbt/methods.go that  *)
(* it makes through the sync manager.                                      *)
(*                                                                         *)
(* The plan compares the snapshot with the categories, the tags and the    *)
(* torrents of the instance, read one after the other; then categories and *)
(* tags that are not in the snapshot are removed, torrents added, torrents *)
(* updated and torrents deleted, as the mode allows.  Transmission has     *)
(* neither categories nor tags of their own: they are the groups and the   *)
(* labels of the torrents, so creating or editing one changes no torrent   *)
(* (and is not seen here), and removing one rewrites torrents.  Any call   *)
(* may fail, the request may be canceled, and others may change the        *)
(* torrents at any time.                                                   *)
(*                                                                         *)
(* The three reads are answered from the sync cache (main data about 2 s   *)
(* old, older when syncs fail).  A read stands for the moment of the sync  *)
(* it shows: a change after that sync is one during the restore.           *)
(***************************************************************************)
EXTENDS Integers, FiniteSets

CONSTANTS
    Hashes,         \* torrents
    Categories, Tags,
    MaxChanges,     \* bound: changes by others
    None,           \* no torrent
    NoCategory      \* the empty category

ASSUME RestoreAssumption ==
    /\ MaxChanges \in Nat
    /\ NoCategory \notin Categories

Torrent == [cat : Categories \cup {NoCategory}, tags : SUBSET Tags]

ASSUME NoneAssumption == None \notin Torrent /\ \A g \in SUBSET Tags : None # g

VARIABLES
    snap,       \* the snapshot: [items, cats, tags]
    mode, exclude,
    live,       \* the torrents of the instance, or None
    view,       \* what the plan was made from: [torrents, cats, tags]
    pc,
    todo,       \* names or hashes the present step has still to deal with
    batch,      \* all of them at once, as is tried first
    part,       \* the names, or the hash, being dealt with
    labels,     \* labels read by DeleteTags: hash -> tags
    errors,     \* result.Errors, or an error was returned
    changes     \* changes by others since the restore began

request == <<snap, mode, exclude>>
vars == <<request, live, view, pc, todo, batch, part, labels, errors, changes>>

-----------------------------------------------------------------------------
(* What others may do. *)

CatsOf(ts) == {ts[h].cat : h \in {x \in Hashes : ts[x] # None}} \ {NoCategory}
TagsOf(ts) == UNION {ts[h].tags : h \in {x \in Hashes : ts[x] # None}}
NoTorrents == [h \in Hashes |-> None]

(* A backup that includes categories or tags, or not: without categories    *)
(* the items still have theirs, without tags they have none.                *)
Snapshot(ts, includeCategories, includeTags) ==
    [items |-> [h \in Hashes |-> IF ts[h] = None THEN None
                                 ELSE [ts[h] EXCEPT !.tags = IF includeTags THEN @ ELSE {}]],
     cats |-> IF includeCategories THEN CatsOf(ts) ELSE {},
     tags |-> IF includeTags THEN TagsOf(ts) ELSE {}]

Init ==
    /\ \E ts \in [Hashes -> Torrent \cup {None}], c, t \in BOOLEAN : snap = Snapshot(ts, c, t)
    /\ mode \in {"incremental", "overwrite", "complete"}
    /\ exclude \in SUBSET Hashes
    /\ live \in [Hashes -> Torrent \cup {None}]
    /\ view = [torrents |-> NoTorrents, cats |-> {}, tags |-> {}]
    /\ pc = "read categories" /\ todo = {} /\ batch = TRUE /\ part = {}
    /\ labels = NoTorrents /\ errors = FALSE /\ changes = 0

(* Users, automations and other clients add, change and remove torrents. *)
Elsewhere ==
    /\ changes < MaxChanges /\ pc \notin {"done", "failed"}
    /\ \E h \in Hashes, t \in Torrent \cup {None} :
         t # live[h] /\ live' = [live EXCEPT ![h] = t]
    /\ changes' = changes + 1
    /\ UNCHANGED <<request, view, pc, todo, batch, part, labels, errors>>

-----------------------------------------------------------------------------
(* The plan: loadLiveState, buildRestorePlan, applyRestorePlanOptions. *)

AllowUpdates == mode \in {"overwrite", "complete"}
IncludeDeletes == mode = "complete"

InSnap(h) == snap.items[h] # None
InView(h) == view.torrents[h] # None

CategoryDeletes == IF IncludeDeletes THEN view.cats \ snap.cats ELSE {}
TagDeletes == IF IncludeDeletes THEN view.tags \ snap.tags ELSE {}

(* applyRestorePlanOptions: excluded torrents are taken out of the plan. *)
Included == Hashes \ exclude

TorrentAdds == {h \in Included : InSnap(h) /\ ~InView(h)}

TorrentUpdates ==
    {h \in Included :
       AllowUpdates /\ InSnap(h) /\ InView(h) /\ snap.items[h] # view.torrents[h]}

(* Mutant: the excluded torrents are not kept out. *)
TorrentDeletesAll == {h \in Hashes : IncludeDeletes /\ InView(h) /\ ~InSnap(h)}

TorrentDeletes ==
    {h \in Included : IncludeDeletes /\ InView(h) /\ ~InSnap(h)}

Reading == {"read categories", "read tags", "read torrents"}

(* Entering a step of the restore with what it has to do. *)
Step(next, work) ==
    /\ pc' = next /\ todo' = work /\ batch' = TRUE /\ part' = {}
    /\ labels' = NoTorrents

ReadCategories ==
    /\ pc = "read categories"
    /\ view' = [view EXCEPT !.cats = CatsOf(live)] /\ Step("read tags", {})
    /\ UNCHANGED <<request, live, errors, changes>>

ReadTags ==
    /\ pc = "read tags"
    /\ view' = [view EXCEPT !.tags = TagsOf(live)] /\ Step("read torrents", {})
    /\ UNCHANGED <<request, live, errors, changes>>

ReadTorrents ==
    /\ pc = "read torrents"
    /\ view' = [view EXCEPT !.torrents = live] /\ Step("plan", {})
    /\ UNCHANGED <<request, live, errors, changes>>

(* The categories to be created and edited come first: no torrent changes. *)
BeginExecution ==
    /\ pc = "plan" /\ Step("categories", CategoryDeletes)
    /\ UNCHANGED <<request, live, view, errors, changes>>

(* The snapshot or the live state cannot be loaded: no plan. *)
PlanFails ==
    /\ pc \in Reading /\ Step("failed", {}) /\ errors' = TRUE
    /\ UNCHANGED <<request, live, view, changes>>

(* The context is canceled between two calls, or the restore is a dry run. *)
GiveUp ==
    /\ pc \notin Reading \cup {"done", "failed"} /\ part = {}
    /\ Step("done", {}) /\ errors' = TRUE
    /\ UNCHANGED <<request, live, view, changes>>

-----------------------------------------------------------------------------
(* Calls that are made for all names or hashes at once and, when that       *)
(* fails, for one after the other.                                          *)

Parts == IF batch THEN {todo} ELSE {{x} : x \in todo}

(* The call for part p is over, well. *)
PartDone(p) == todo' = todo \ p /\ part' = {}

PartFails(p) ==
    /\ part' = {} /\ batch' = FALSE /\ labels' = NoTorrents
    /\ \/ batch /\ UNCHANGED <<todo, errors>>
       \/ ~batch /\ todo' = todo \ p /\ errors' = TRUE

-----------------------------------------------------------------------------
(* applyCategoryPlan: RemoveCategories. *)

(* The torrents in the categories are looked up ... *)
FindCategorized ==
    /\ pc = "categories" /\ part = {} /\ todo # {}
    /\ \E p \in Parts :
         /\ part' = p
         /\ labels' = [h \in Hashes |-> IF live[h] # None /\ live[h].cat \in p THEN {} ELSE None]
    /\ UNCHANGED <<request, live, view, pc, todo, batch, errors, changes>>

(* ... and lose their category, whichever it is by then. *)
ClearCategory ==
    /\ pc = "categories" /\ part # {}
    /\ live' = [h \in Hashes |-> IF labels[h] = None \/ live[h] = None THEN live[h]
                                 ELSE [live[h] EXCEPT !.cat = NoCategory]]
    /\ PartDone(part) /\ labels' = NoTorrents
    /\ UNCHANGED <<request, view, pc, batch, errors, changes>>

CategoriesFail ==
    /\ pc = "categories" /\ part # {} /\ PartFails(part)
    /\ UNCHANGED <<request, live, view, pc, changes>>

CategoriesDone ==
    /\ pc = "categories" /\ todo = {} /\ Step("tags", TagDeletes)
    /\ UNCHANGED <<request, live, view, errors, changes>>

-----------------------------------------------------------------------------
(* applyTagPlan: DeleteTags. *)

(* The labels of all torrents are read ... *)
ReadLabels ==
    /\ pc = "tags" /\ part = {} /\ todo # {}
    /\ \E p \in Parts : part' = p
    /\ labels' = [h \in Hashes |-> IF live[h] = None THEN None ELSE live[h].tags]
    /\ UNCHANGED <<request, live, view, pc, todo, batch, errors, changes>>

Unwritten == {h \in Hashes : labels[h] # None}

(* ... and written torrent by torrent, as they were read but for the tags;  *)
(* a change made by others in between is undone.                            *)
WriteLabels(h) ==
    /\ pc = "tags" /\ h \in Unwritten
    /\ live' = IF live[h] = None THEN live ELSE [live EXCEPT ![h].tags = labels[h] \ part]
    /\ labels' = [labels EXCEPT ![h] = None]
    /\ UNCHANGED <<request, view, pc, todo, batch, part, errors, changes>>

LabelsWritten ==
    /\ pc = "tags" /\ part # {} /\ Unwritten = {} /\ PartDone(part)
    /\ UNCHANGED <<request, live, view, pc, batch, labels, errors, changes>>

TagsFail ==
    /\ pc = "tags" /\ part # {} /\ PartFails(part)
    /\ UNCHANGED <<request, live, view, pc, changes>>

TagsDone ==
    /\ pc = "tags" /\ todo = {} /\ Step("add", TorrentAdds)
    /\ UNCHANGED <<request, live, view, errors, changes>>

-----------------------------------------------------------------------------
(* applyTorrentPlan: additions, updates, deletions. *)

SetCategory(h) ==
    live' = IF live[h] = None THEN live ELSE [live EXCEPT ![h].cat = snap.items[h].cat]

SetTags(h) ==
    live' = IF live[h] = None THEN live ELSE [live EXCEPT ![h].tags = snap.items[h].tags]

(* The blob, and AddTorrent, which leaves a torrent that is there alone. *)
AddTorrent(h) ==
    /\ pc = "add" /\ part = {} /\ h \in todo
    /\ live' = IF live[h] = None THEN [live EXCEPT ![h] = snap.items[h]] ELSE live
    /\ pc' = "add category" /\ part' = {h}
    /\ UNCHANGED <<request, view, todo, batch, labels, errors, changes>>

(* No blob, or the call fails: the next torrent. *)
AddFails(h) ==
    /\ pc = "add" /\ part = {} /\ h \in todo
    /\ todo' = todo \ {h} /\ errors' = TRUE
    /\ UNCHANGED <<request, live, view, pc, batch, part, labels, changes>>

(* A call made for torrent h unless there is nothing to set. *)
Made(needed, call, next, h) ==
    /\ part = {h}
    /\ \/ needed /\ call /\ UNCHANGED errors
       \/ needed /\ UNCHANGED live /\ errors' = TRUE
       \/ ~needed /\ UNCHANGED <<live, errors>>
    /\ \/ next # "next" /\ pc' = next /\ UNCHANGED <<todo, part>>
       \/ next = "next" /\ pc' = (IF pc = "add tags" THEN "add" ELSE "update")
                        /\ todo' = todo \ {h} /\ part' = {}
    /\ UNCHANGED <<request, view, batch, labels, changes>>

AddCategory(h) ==
    pc = "add category" /\ Made(snap.items[h].cat # NoCategory, SetCategory(h), "add tags", h)

AddTags(h) ==
    pc = "add tags" /\ Made(snap.items[h].tags # {}, SetTags(h), "next", h)

AddsDone ==
    /\ pc = "add" /\ todo = {} /\ Step("update", TorrentUpdates)
    /\ UNCHANGED <<request, live, view, errors, changes>>

UpdateTorrent(h) ==
    /\ pc = "update" /\ part = {} /\ h \in todo
    /\ pc' = "update category" /\ part' = {h}
    /\ UNCHANGED <<request, live, view, todo, batch, labels, errors, changes>>

(* Only what differed in the plan's view is written. *)
UpdateCategory(h) ==
    pc = "update category"
      /\ Made(snap.items[h].cat # view.torrents[h].cat, SetCategory(h), "update tags", h)

(* Mutant: empty tags are not written, as when a torrent is added. *)
UpdateTagsNonempty(h) ==
    pc = "update tags" /\ Made(snap.items[h].tags # {}, SetTags(h), "next", h)

UpdateTags(h) ==
    pc = "update tags"
      /\ Made(snap.items[h].tags # view.torrents[h].tags, SetTags(h), "next", h)

UpdatesDone ==
    /\ pc = "update" /\ todo = {} /\ Step("delete", TorrentDeletes)
    /\ UNCHANGED <<request, live, view, errors, changes>>

(* BulkAction; torrents that are gone are left out, and it fails when all are. *)
DeleteTorrents ==
    /\ pc = "delete"
    /\ \E p \in Parts :
         \/ /\ \E h \in p : live[h] # None
            /\ live' = [h \in Hashes |-> IF h \in p THEN None ELSE live[h]]
            /\ PartDone(p) /\ UNCHANGED <<batch, labels, errors>>
         \/ p # {} /\ PartFails(p) /\ UNCHANGED live
    /\ UNCHANGED <<request, view, pc, changes>>

DeletesDone ==
    /\ pc = "delete" /\ todo = {} /\ Step("done", {})
    /\ UNCHANGED <<request, live, view, errors, changes>>

-----------------------------------------------------------------------------
Next ==
    \/ Elsewhere
    \/ ReadCategories \/ ReadTags \/ ReadTorrents \/ PlanFails
    \/ BeginExecution \/ GiveUp
    \/ FindCategorized \/ ClearCategory \/ CategoriesFail \/ CategoriesDone
    \/ ReadLabels \/ LabelsWritten \/ TagsFail \/ TagsDone
    \/ AddsDone \/ UpdatesDone \/ DeleteTorrents \/ DeletesDone
    \/ \E h \in Hashes :
         \/ WriteLabels(h) \/ AddTorrent(h) \/ AddFails(h) \/ AddCategory(h) \/ AddTags(h)
         \/ UpdateTorrent(h) \/ UpdateCategory(h) \/ UpdateTags(h)

Spec == Init /\ [][Next]_vars

-----------------------------------------------------------------------------
Pcs == Reading \cup
       {"plan", "categories", "tags", "add", "add category", "add tags",
        "update", "update category", "update tags", "delete", "done", "failed"}

(* Type invariant. *)
TypeOK ==
    /\ live \in [Hashes -> Torrent \cup {None}]
    /\ snap.items \in [Hashes -> Torrent \cup {None}]
    /\ view.torrents \in [Hashes -> Torrent \cup {None}]
    /\ pc \in Pcs /\ batch \in BOOLEAN /\ errors \in BOOLEAN /\ changes \in 0 .. MaxChanges
    /\ labels \in [Hashes -> (SUBSET Tags) \cup {None}]
    /\ part # {} => part \subseteq todo

(* The steps of the restore, as opposed to those of others. *)
Restores == changes' = changes

(* What is left of a torrent when the names that are not in the snapshot    *)
(* are removed.                                                             *)
Pruned(t) ==
    IF t = None THEN None
    ELSE [cat |-> IF t.cat \in snap.cats THEN t.cat ELSE NoCategory,
          tags |-> t.tags \cap snap.tags]

(* What a restore does to a torrent, whatever fails and whoever else        *)
(* changes torrents meanwhile.  Unless it is complete it only adds and, if  *)
(* it overwrites, updates torrents of the snapshot that are not excluded;   *)
(* an incremental one changes none that it has seen.  It deletes only what  *)
(* was there when the plan was made, is not in the snapshot and not         *)
(* excluded: never a torrent added while it is under way.  An excluded      *)
(* torrent may only lose a category and tags the snapshot does not have.    *)
RestoreConfined ==
    [][Restores =>
         \A h \in Hashes : live'[h] # live[h] =>
           /\ mode # "complete" => live'[h] # None /\ InSnap(h) /\ h \notin exclude
           /\ mode = "incremental" => ~InView(h)
           /\ live'[h] = None => InView(h) /\ ~InSnap(h) /\ h \notin exclude
           /\ h \in exclude /\ changes = 0 =>
                /\ live[h] # None /\ Pruned(live'[h]) = Pruned(live[h])
                /\ live'[h].cat \in {live[h].cat, NoCategory}
                /\ live'[h].tags \subseteq live[h].tags]_vars

(* What the modes promise for a torrent, from the snapshot and the torrent  *)
(* as it was.                                                               *)
Desired(h) ==
    LET v == view.torrents[h] IN
    IF h \in exclude THEN IF mode = "complete" THEN Pruned(v) ELSE v
    ELSE IF InSnap(h) THEN IF v # None /\ mode = "incremental" THEN v ELSE snap.items[h]
    ELSE IF mode = "complete" THEN None ELSE v

(* The snapshot names the categories of its torrents, as it does unless the *)
(* backup left categories out.                                              *)
Covers == CatsOf(snap.items) \subseteq snap.cats

(* A restore that ran to its end without an error, and undisturbed, leaves  *)
(* exactly the torrents the mode promises, with exactly the categories and  *)
(* tags: the removals of categories and tags that come first undo nothing   *)
(* that the updates, planned before, take for granted.                      *)
Converges ==
    pc = "done" /\ ~errors /\ changes = 0 /\ Covers =>
      \A h \in Hashes : live[h] = Desired(h)
=============================================================================
