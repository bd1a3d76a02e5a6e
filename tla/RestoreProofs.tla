--------------------------- MODULE RestoreProofs ----------------------------
(***************************************************************************)
(* Restore for any torrents, categories and tags and any number of changes *)
(* by others: its types, what a restore may do to a torrent, and that an   *)
(* undisturbed one without errors reaches what its mode promises.          *)
(***************************************************************************)
EXTENDS Restore, TLAPS

(* The types of the variables, the records of the request and the view      *)
(* among them.                                                              *)
Torrents == [Hashes -> Torrent \cup {None}]

Types ==
    /\ TypeOK
    /\ snap \in [items : Torrents, cats : SUBSET Categories, tags : SUBSET Tags]
    /\ view \in [torrents : Torrents, cats : SUBSET Categories, tags : SUBSET Tags]
    /\ mode \in {"incremental", "overwrite", "complete"} /\ exclude \subseteq Hashes

(* What the present step has still to do is part of the plan, and a call is *)
(* under way for some of it.                                                *)
Planned ==
    /\ pc = "categories" => todo \subseteq CategoryDeletes
    /\ pc = "tags" => todo \subseteq TagDeletes
    /\ pc \in {"add", "add category", "add tags"} => todo \subseteq TorrentAdds
    /\ pc \in {"update", "update category", "update tags"} => todo \subseteq TorrentUpdates
    /\ pc = "delete" => todo \subseteq TorrentDeletes
    /\ part \subseteq todo
    /\ pc \in {"add", "update", "delete"} => part = {}
    /\ pc \notin {"categories", "tags"} \/ part = {} => labels = NoTorrents

(* Undisturbed, the torrents that were looked up are still as they were.    *)
Looked ==
    changes = 0 => \A h \in Hashes : labels[h] # None =>
        /\ live[h] # None
        /\ pc = "categories" => live[h].cat \in part
        /\ pc = "tags" => labels[h] = live[h].tags

ConfinedInv == Types /\ Planned /\ Looked

-----------------------------------------------------------------------------
(* Torrents as records. *)

LEMMA TorrentFields ==
    ASSUME NEW t \in Torrent
    PROVE  t.cat \in Categories \cup {NoCategory} /\ t.tags \subseteq Tags /\ t # None
  BY NoneAssumption DEF Torrent

LEMMA SameTorrent ==
    ASSUME NEW s \in Torrent, NEW t \in Torrent, s.cat = t.cat, s.tags = t.tags PROVE s = t
  BY DEF Torrent

LEMMA WithCategory ==
    ASSUME NEW t \in Torrent, NEW c \in Categories \cup {NoCategory}
    PROVE  LET u == [t EXCEPT !.cat = c] IN u \in Torrent /\ u.cat = c /\ u.tags = t.tags
  BY DEF Torrent

LEMMA WithTags ==
    ASSUME NEW t \in Torrent, NEW g \in SUBSET Tags
    PROVE  LET u == [t EXCEPT !.tags = g] IN u \in Torrent /\ u.cat = t.cat /\ u.tags = g
  BY DEF Torrent

(* The categories and tags of an instance are those of its torrents. *)
LEMMA NamesOf ==
    ASSUME NEW ts \in Torrents
    PROVE  /\ CatsOf(ts) \subseteq Categories /\ TagsOf(ts) \subseteq Tags
           /\ \A h \in Hashes : ts[h] # None =>
                 /\ ts[h] \in Torrent /\ ts[h].tags \subseteq TagsOf(ts)
                 /\ ts[h].cat \in CatsOf(ts) \cup {NoCategory}
<1>1. \A h \in Hashes : ts[h] # None => ts[h] \in Torrent BY DEF Torrents
<1>2. \A h \in Hashes : ts[h] # None =>
         ts[h].cat \in Categories \cup {NoCategory} /\ ts[h].tags \subseteq Tags
  BY <1>1, TorrentFields
<1>3. CatsOf(ts) \subseteq Categories BY <1>2 DEF CatsOf
<1>4. TagsOf(ts) \subseteq Tags BY <1>2 DEF TagsOf
<1>5. \A h \in Hashes : ts[h] # None => ts[h].tags \subseteq TagsOf(ts) BY DEF TagsOf
<1>6. \A h \in Hashes : ts[h] # None => ts[h].cat \in CatsOf(ts) \cup {NoCategory} BY DEF CatsOf
<1> QED BY <1>1, <1>3, <1>4, <1>5, <1>6

LEMMA PrunedFields ==
    ASSUME Types, NEW t \in Torrent
    PROVE  /\ Pruned(t) \in Torrent /\ Pruned(t).tags = t.tags \cap snap.tags
           /\ Pruned(t).cat = IF t.cat \in snap.cats THEN t.cat ELSE NoCategory
<1>1. t # None /\ t.tags \subseteq Tags /\ snap.cats \subseteq Categories BY TorrentFields DEF Types
<1> QED BY <1>1 DEF Pruned, Torrent

(* The parts a call is made for. *)
LEMMA PartsFacts ==
    ASSUME Types, NEW p \in Parts PROVE p \subseteq todo /\ (todo # {} => p # {})
  BY DEF Parts

LEMMA NoLabels ==
    /\ NoTorrents \in [Hashes -> (SUBSET Tags) \cup {None}] /\ NoTorrents \in Torrents
    /\ \A h \in Hashes : NoTorrents[h] = None
<1>1. NoTorrents \in [Hashes -> {None}] BY DEF NoTorrents
<1> QED BY <1>1 DEF Torrents

-----------------------------------------------------------------------------
(* What a step may do: RestoreConfined. *)

LEMMA PlanKept ==
    ASSUME UNCHANGED <<request, view>>
    PROVE  UNCHANGED <<CategoryDeletes, TagDeletes, TorrentAdds, TorrentUpdates, TorrentDeletes>>
  BY DEF request, CategoryDeletes, TagDeletes, TorrentAdds, TorrentUpdates, TorrentDeletes, Included,
         IncludeDeletes, AllowUpdates, InSnap, InView

(* A step of the restore ends and the next one begins with its work. *)
LEMMA StepConfined ==
    ASSUME ConfinedInv, NEW next \in Pcs, NEW work, Step(next, work),
           UNCHANGED <<request, live, view, changes>>, errors' \in BOOLEAN,
           next \notin {"add category", "add tags", "update category", "update tags"},
           next = "categories" => work \subseteq CategoryDeletes,
           next = "tags" => work \subseteq TagDeletes,
           next = "add" => work \subseteq TorrentAdds,
           next = "update" => work \subseteq TorrentUpdates,
           next = "delete" => work \subseteq TorrentDeletes
    PROVE  ConfinedInv'
<1>1. /\ pc' = next /\ todo' = work /\ batch' = TRUE /\ part' = {} /\ labels' = NoTorrents
  BY DEF Step
<1>2. Types' BY <1>1, NoLabels DEF ConfinedInv, Types, TypeOK, request
<1>3. Planned' BY <1>1, PlanKept DEF Planned, NoTorrents
<1>4. Looked' BY <1>1, NoLabels DEF Looked
<1> QED BY <1>2, <1>3, <1>4 DEF ConfinedInv

(* The reads, the plan and the turns from one step to the next. *)
LEMMA ConfinedTurns ==
    ASSUME ConfinedInv,
           \/ ReadCategories \/ ReadTags \/ ReadTorrents \/ PlanFails \/ BeginExecution \/ GiveUp
           \/ CategoriesDone \/ TagsDone \/ AddsDone \/ UpdatesDone \/ DeletesDone
    PROVE  ConfinedInv'
<1>0. errors \in BOOLEAN BY DEF ConfinedInv, Types, TypeOK
<1>1. CASE ReadCategories \/ ReadTags \/ ReadTorrents
  <2>1. PICK next \in {"read tags", "read torrents", "plan"} : Step(next, {})
    BY <1>1 DEF ReadCategories, ReadTags, ReadTorrents
  <2>2. /\ pc' = next /\ todo' = {} /\ batch' = TRUE /\ part' = {} /\ labels' = NoTorrents
        /\ UNCHANGED <<request, live, errors, changes>>
    BY <1>1, <2>1 DEF Step, ReadCategories, ReadTags, ReadTorrents
  <2>3. view' \in [torrents : Torrents, cats : SUBSET Categories, tags : SUBSET Tags]
    <3>1. live \in Torrents BY DEF ConfinedInv, Types, TypeOK, Torrents
    <3>2. CatsOf(live) \subseteq Categories /\ TagsOf(live) \subseteq Tags BY <3>1, NamesOf
    <3> QED BY <1>1, <3>1, <3>2 DEF ReadCategories, ReadTags, ReadTorrents, ConfinedInv, Types
  <2>4. Types' BY <2>2, <2>3, NoLabels DEF ConfinedInv, Types, TypeOK, request, Pcs, Reading, Torrents
  <2>5. Planned' BY <2>2 DEF Planned, NoTorrents
  <2>6. Looked' BY <2>2, NoLabels DEF Looked
  <2> QED BY <2>4, <2>5, <2>6 DEF ConfinedInv
<1>2. CASE PlanFails \/ GiveUp
  <2>1. PICK next \in {"failed", "done"} : Step(next, {}) BY <1>2 DEF PlanFails, GiveUp
  <2>2. UNCHANGED <<request, live, view, changes>> /\ errors' = TRUE BY <1>2 DEF PlanFails, GiveUp
  <2> QED BY <2>1, <2>2, StepConfined DEF Pcs
<1>3. CASE BeginExecution BY <1>0, <1>3, StepConfined DEF BeginExecution, Pcs
<1>4. CASE CategoriesDone BY <1>0, <1>4, StepConfined DEF CategoriesDone, Pcs
<1>5. CASE TagsDone BY <1>0, <1>5, StepConfined DEF TagsDone, Pcs
<1>6. CASE AddsDone BY <1>0, <1>6, StepConfined DEF AddsDone, Pcs
<1>7. CASE UpdatesDone BY <1>0, <1>7, StepConfined DEF UpdatesDone, Pcs
<1>8. CASE DeletesDone BY <1>0, <1>8, StepConfined DEF DeletesDone, Pcs
<1> QED BY <1>1, <1>2, <1>3, <1>4, <1>5, <1>6, <1>7, <1>8

(* A failed call ends with fewer names to deal with, or one by one. *)
LEMMA FailFacts ==
    ASSUME Types, NEW p, PartFails(p)
    PROVE  /\ part' = {} /\ batch' = FALSE /\ labels' = NoTorrents /\ todo' \subseteq todo
           /\ errors' \in BOOLEAN /\ (~errors' => ~errors /\ todo' = todo)
  BY DEF PartFails, Types, TypeOK

(* A call for some of the names, or hashes, of the present step begins or   *)
(* ends.                                                                    *)
LEMMA CallConfined ==
    ASSUME ConfinedInv, UNCHANGED <<request, view>>,
           live' \in Torrents, pc' = pc, todo' \subseteq todo, part' \subseteq todo',
           pc \in {"categories", "tags"} \/ part' = {}, batch' \in BOOLEAN, errors' \in BOOLEAN,
           changes' \in 0 .. MaxChanges,
           labels' \in [Hashes -> (SUBSET Tags) \cup {None}],
           part' = {} \/ pc \notin {"categories", "tags"} => labels' = NoTorrents
    PROVE  Types' /\ Planned'
<1>1. Types' BY DEF ConfinedInv, Types, TypeOK, request, Torrents
<1>2. Planned' BY PlanKept DEF ConfinedInv, Planned, NoTorrents
<1> QED BY <1>1, <1>2

LEMMA ConfinedNames ==
    ASSUME ConfinedInv,
           \/ FindCategorized \/ ClearCategory \/ CategoriesFail
           \/ ReadLabels \/ LabelsWritten \/ TagsFail \/ DeleteTorrents
           \/ \E h \in Hashes : WriteLabels(h)
    PROVE  ConfinedInv'
<1>0. /\ live \in Torrents /\ batch \in BOOLEAN /\ errors \in BOOLEAN /\ changes \in 0 .. MaxChanges
      /\ labels \in [Hashes -> (SUBSET Tags) \cup {None}] /\ part \subseteq todo
  BY DEF ConfinedInv, Types, TypeOK, Planned, Torrents
<1>1. CASE FindCategorized
  <2>1. PICK p \in Parts :
          /\ part' = p
          /\ labels' = [h \in Hashes |-> IF live[h] # None /\ live[h].cat \in p THEN {} ELSE None]
    BY <1>1 DEF FindCategorized
  <2>2. /\ pc = "categories" /\ todo # {}
        /\ UNCHANGED <<request, live, view, pc, todo, batch, errors, changes>>
    BY <1>1 DEF FindCategorized
  <2>3. p \subseteq todo /\ p # {} BY <2>2, PartsFacts DEF ConfinedInv
  <2>4. labels' \in [Hashes -> (SUBSET Tags) \cup {None}] BY <2>1
  <2>5. Types' /\ Planned' BY <1>0, <2>1, <2>2, <2>3, <2>4, CallConfined
  <2>6. Looked' BY <2>1, <2>2 DEF Looked
  <2> QED BY <2>5, <2>6 DEF ConfinedInv
<1>2. CASE ClearCategory
  <2>1. /\ pc = "categories" /\ todo' = todo \ part /\ part' = {} /\ labels' = NoTorrents
        /\ UNCHANGED <<request, view, pc, batch, errors, changes>>
    BY <1>2 DEF ClearCategory, PartDone
  <2>2. live' \in Torrents
    <3>1. ASSUME NEW h \in Hashes, live[h] # None
          PROVE  [live[h] EXCEPT !.cat = NoCategory] \in Torrent
      BY <1>0, <3>1, WithCategory DEF Torrents
    <3> QED BY <1>0, <1>2, <3>1 DEF ClearCategory, Torrents
  <2>3. Types' /\ Planned' BY <1>0, <2>1, <2>2, NoLabels, CallConfined
  <2>4. Looked' BY <2>1, NoLabels DEF Looked
  <2> QED BY <2>3, <2>4 DEF ConfinedInv
<1>3. CASE CategoriesFail \/ TagsFail
  <2>1. PartFails(part) /\ UNCHANGED <<request, live, view, pc, changes>>
    BY <1>3 DEF CategoriesFail, TagsFail
  <2>2. /\ part' = {} /\ batch' = FALSE /\ labels' = NoTorrents /\ todo' \subseteq todo /\ errors' \in BOOLEAN
    BY <2>1, FailFacts DEF ConfinedInv
  <2>3. Types' /\ Planned' BY <1>0, <2>1, <2>2, NoLabels, CallConfined
  <2>4. Looked' BY <2>2, NoLabels DEF Looked
  <2> QED BY <2>3, <2>4 DEF ConfinedInv
<1>4. CASE ReadLabels
  <2>1. PICK p \in Parts : part' = p BY <1>4 DEF ReadLabels
  <2>2. /\ pc = "tags" /\ todo # {}
        /\ UNCHANGED <<request, live, view, pc, todo, batch, errors, changes>>
        /\ labels' = [h \in Hashes |-> IF live[h] = None THEN None ELSE live[h].tags]
    BY <1>4 DEF ReadLabels
  <2>3. p \subseteq todo /\ p # {} BY <2>2, PartsFacts DEF ConfinedInv
  <2>4. labels' \in [Hashes -> (SUBSET Tags) \cup {None}]
    <3>1. \A h \in Hashes : live[h] # None => live[h].tags \subseteq Tags
      BY <1>0, TorrentFields DEF Torrents
    <3> QED BY <2>2, <3>1
  <2>5. Types' /\ Planned' BY <1>0, <2>1, <2>2, <2>3, <2>4, CallConfined
  <2>6. Looked' BY <2>2 DEF Looked
  <2> QED BY <2>5, <2>6 DEF ConfinedInv
<1>5. ASSUME NEW h \in Hashes, WriteLabels(h) PROVE ConfinedInv'
  <2>1. /\ pc = "tags" /\ labels[h] # None
        /\ UNCHANGED <<request, view, pc, todo, batch, part, errors, changes>>
        /\ live' = IF live[h] = None THEN live ELSE [live EXCEPT ![h].tags = labels[h] \ part]
        /\ labels' = [labels EXCEPT ![h] = None]
    BY <1>5 DEF WriteLabels, Unwritten
  <2>2. part # {} BY <2>1, NoLabels DEF ConfinedInv, Planned
  <2>3. live' \in Torrents
    <3>1. labels[h] \ part \subseteq Tags BY <1>0, <2>1
    <3>2. live[h] # None => [live[h] EXCEPT !.tags = labels[h] \ part] \in Torrent
      BY <1>0, <3>1, WithTags DEF Torrents
    <3> QED BY <1>0, <2>1, <3>2 DEF Torrents
  <2>4. labels' \in [Hashes -> (SUBSET Tags) \cup {None}] BY <1>0, <2>1
  <2>5. Types' /\ Planned' BY <1>0, <2>1, <2>2, <2>3, <2>4, CallConfined
  <2>6. Looked'
    <3>1. \A g \in Hashes : g # h => live'[g] = live[g] /\ labels'[g] = labels[g] BY <1>0, <2>1 DEF Torrents
    <3>2. labels'[h] = None BY <1>0, <2>1
    <3> QED BY <2>1, <3>1, <3>2 DEF ConfinedInv, Looked
  <2> QED BY <2>5, <2>6 DEF ConfinedInv
<1>6. CASE LabelsWritten
  <2>1. /\ pc = "tags" /\ part' = {} /\ todo' = todo \ part
        /\ UNCHANGED <<request, live, view, pc, batch, labels, errors, changes>>
    BY <1>6 DEF LabelsWritten, PartDone
  <2>2. labels = NoTorrents
    <3>1. \A h \in Hashes : labels[h] = None BY <1>6 DEF LabelsWritten, Unwritten
    <3> QED BY <1>0, <3>1 DEF NoTorrents
  <2>3. Types' /\ Planned' BY <1>0, <2>1, <2>2, NoLabels, CallConfined
  <2>4. Looked' BY <2>1, <2>2, NoLabels DEF Looked
  <2> QED BY <2>3, <2>4 DEF ConfinedInv
<1>7. CASE DeleteTorrents
  <2>1. PICK p \in Parts :
          \/ /\ live' = [h \in Hashes |-> IF h \in p THEN None ELSE live[h]]
             /\ PartDone(p) /\ UNCHANGED <<batch, labels, errors>>
          \/ PartFails(p) /\ UNCHANGED live
    BY <1>7 DEF DeleteTorrents
  <2>2. pc = "delete" /\ UNCHANGED <<request, view, pc, changes>> BY <1>7 DEF DeleteTorrents
  <2>3. labels = NoTorrents /\ part = {} BY <2>2 DEF ConfinedInv, Planned
  <2>4. /\ part' = {} /\ batch' \in BOOLEAN /\ labels' = NoTorrents /\ todo' \subseteq todo
        /\ errors' \in BOOLEAN
    BY <1>0, <2>1, <2>3, FailFacts DEF PartDone, ConfinedInv
  <2>5. live' \in Torrents BY <1>0, <2>1 DEF Torrents
  <2>6. Types' /\ Planned' BY <1>0, <2>2, <2>4, <2>5, NoLabels, CallConfined
  <2>7. Looked' BY <2>4, NoLabels DEF Looked
  <2> QED BY <2>6, <2>7 DEF ConfinedInv
<1> QED BY <1>1, <1>2, <1>3, <1>4, <1>5, <1>6, <1>7

(* A torrent gets the category, or the tags, it has in the snapshot. *)
LEMMA SetFacts ==
    ASSUME Types, NEW h \in Hashes, InSnap(h), SetCategory(h) \/ SetTags(h)
    PROVE  /\ live' \in Torrents /\ \A g \in Hashes : g # h => live'[g] = live[g]
           /\ live[h] = None => live'[h] = None
           /\ live[h] # None =>
                /\ live'[h] \in Torrent
                /\ SetCategory(h) => live'[h].cat = snap.items[h].cat /\ live'[h].tags = live[h].tags
                /\ SetTags(h) => live'[h].tags = snap.items[h].tags /\ live'[h].cat = live[h].cat
<1>1. live \in Torrents /\ snap.items[h] \in Torrent BY DEF Types, TypeOK, Torrents, InSnap
<1>2. snap.items[h].cat \in Categories \cup {NoCategory} /\ snap.items[h].tags \subseteq Tags
  BY <1>1, TorrentFields
<1>3. CASE live[h] = None BY <1>1, <1>3 DEF SetCategory, SetTags
<1>4. CASE live[h] # None
  <2>1. live[h] \in Torrent BY <1>1, <1>4 DEF Torrents
  <2>2. CASE SetCategory(h)
    <3> DEFINE u == [live[h] EXCEPT !.cat = snap.items[h].cat]
    <3>1. u \in Torrent /\ u.cat = snap.items[h].cat /\ u.tags = live[h].tags
      BY <1>2, <2>1, WithCategory
    <3>2. live' = [live EXCEPT ![h] = u] BY <1>4, <2>2 DEF SetCategory
    <3> HIDE DEF u
    <3>3. live'[h] = u /\ live' \in Torrents /\ \A g \in Hashes : g # h => live'[g] = live[g]
      BY <1>1, <3>1, <3>2 DEF Torrents
    <3>4. SetTags(h) => live'[h].tags = snap.items[h].tags /\ live'[h].cat = live[h].cat
      <4> SUFFICES ASSUME SetTags(h)
                   PROVE  live'[h].tags = snap.items[h].tags /\ live'[h].cat = live[h].cat
        OBVIOUS
      <4> DEFINE w == [live[h] EXCEPT !.tags = snap.items[h].tags]
      <4>1. w.cat = live[h].cat /\ w.tags = snap.items[h].tags BY <1>2, <2>1, WithTags
      <4>2. live' = [live EXCEPT ![h] = w] BY <1>4 DEF SetTags
      <4> HIDE DEF w
      <4> QED BY <1>1, <4>1, <4>2 DEF Torrents
    <3> QED BY <1>4, <3>1, <3>3, <3>4
  <2>3. CASE SetTags(h) /\ ~SetCategory(h)
    <3> DEFINE u == [live[h] EXCEPT !.tags = snap.items[h].tags]
    <3>1. u \in Torrent /\ u.tags = snap.items[h].tags /\ u.cat = live[h].cat
      BY <1>2, <2>1, WithTags
    <3>2. live' = [live EXCEPT ![h] = u] BY <1>4, <2>3 DEF SetTags
    <3> HIDE DEF u
    <3>3. live'[h] = u /\ live' \in Torrents /\ \A g \in Hashes : g # h => live'[g] = live[g]
      BY <1>1, <3>1, <3>2 DEF Torrents
    <3> QED BY <1>4, <2>3, <3>1, <3>3
  <2> QED BY <2>2, <2>3
<1> QED BY <1>3, <1>4

(* What the steps that deal with one torrent have in common. *)
OneTorrent(h) ==
    /\ pc \in {"add", "add category", "add tags", "update", "update category", "update tags"}
    /\ pc' \in Pcs /\ (pc \in {"add", "add category", "add tags"}
                         <=> pc' \in {"add", "add category", "add tags"})
    /\ (pc \in {"update", "update category", "update tags"}
          <=> pc' \in {"update", "update category", "update tags"})
    /\ h \in todo /\ todo' \in {todo, todo \ {h}} /\ part' \in {{}, {h}} /\ part' \subseteq todo'
    /\ pc' \in {"add", "update"} => part' = {}
    /\ errors' \in {errors, TRUE}
    /\ UNCHANGED <<request, view, batch, labels, changes>>
    /\ live' \in Torrents /\ \A g \in Hashes : g # h => live'[g] = live[g]

LEMMA AddFacts ==
    ASSUME ConfinedInv, NEW h \in Hashes,
           AddTorrent(h) \/ AddFails(h) \/ AddCategory(h) \/ AddTags(h)
    PROVE  OneTorrent(h) /\ h \in TorrentAdds /\ InSnap(h)
<1>0. live \in Torrents BY DEF ConfinedInv, Types, TypeOK, Torrents
<1>1. h \in todo
  BY DEF AddTorrent, AddFails, AddCategory, AddTags, Made, ConfinedInv, Planned
<1>2. pc \in {"add", "add category", "add tags"}
  BY DEF AddTorrent, AddFails, AddCategory, AddTags
<1>3. h \in TorrentAdds /\ InSnap(h) BY <1>1, <1>2 DEF ConfinedInv, Planned, TorrentAdds
<1>4. snap.items[h] \in Torrent BY <1>3 DEF ConfinedInv, Types, Torrents, InSnap
<1>5. CASE AddTorrent(h)
  BY <1>0, <1>1, <1>4, <1>5, <1>3 DEF AddTorrent, OneTorrent, Torrents, Pcs
<1>6. CASE AddFails(h)
  BY <1>0, <1>1, <1>3, <1>6 DEF AddFails, OneTorrent, Torrents, Pcs
<1>7. CASE AddCategory(h)
  <2>1. /\ pc = "add category" /\ part = {h} /\ pc' = "add tags" /\ UNCHANGED <<todo, part>>
        /\ errors' \in {errors, TRUE} /\ UNCHANGED <<request, view, batch, labels, changes>>
        /\ live' = live \/ SetCategory(h)
    BY <1>7 DEF AddCategory, Made
  <2>2. live' \in Torrents /\ \A g \in Hashes : g # h => live'[g] = live[g]
    BY <1>0, <1>3, <2>1, SetFacts DEF ConfinedInv
  <2> QED BY <1>1, <1>3, <2>1, <2>2 DEF OneTorrent, Pcs
<1>8. CASE AddTags(h)
  <2>1. /\ pc = "add tags" /\ part = {h} /\ pc' = "add" /\ todo' = todo \ {h} /\ part' = {}
        /\ errors' \in {errors, TRUE} /\ UNCHANGED <<request, view, batch, labels, changes>>
        /\ live' = live \/ SetTags(h)
    BY <1>8 DEF AddTags, Made
  <2>2. live' \in Torrents /\ \A g \in Hashes : g # h => live'[g] = live[g]
    BY <1>0, <1>3, <2>1, SetFacts DEF ConfinedInv
  <2> QED BY <1>1, <1>3, <2>1, <2>2 DEF OneTorrent, Pcs
<1> QED BY <1>5, <1>6, <1>7, <1>8

LEMMA UpdateFacts ==
    ASSUME ConfinedInv, NEW h \in Hashes, UpdateTorrent(h) \/ UpdateCategory(h) \/ UpdateTags(h)
    PROVE  OneTorrent(h) /\ h \in TorrentUpdates /\ InSnap(h)
<1>0. live \in Torrents BY DEF ConfinedInv, Types, TypeOK, Torrents
<1>1. h \in todo
  BY DEF UpdateTorrent, UpdateCategory, UpdateTags, Made, ConfinedInv, Planned
<1>2. pc \in {"update", "update category", "update tags"}
  BY DEF UpdateTorrent, UpdateCategory, UpdateTags
<1>3. h \in TorrentUpdates /\ InSnap(h) BY <1>1, <1>2 DEF ConfinedInv, Planned, TorrentUpdates
<1>5. CASE UpdateTorrent(h)
  BY <1>0, <1>1, <1>3, <1>5 DEF UpdateTorrent, OneTorrent, Torrents, Pcs
<1>7. CASE UpdateCategory(h)
  <2>1. /\ pc = "update category" /\ part = {h} /\ pc' = "update tags" /\ UNCHANGED <<todo, part>>
        /\ errors' \in {errors, TRUE} /\ UNCHANGED <<request, view, batch, labels, changes>>
        /\ live' = live \/ SetCategory(h)
    BY <1>7 DEF UpdateCategory, Made
  <2>2. live' \in Torrents /\ \A g \in Hashes : g # h => live'[g] = live[g]
    BY <1>0, <1>3, <2>1, SetFacts DEF ConfinedInv
  <2> QED BY <1>1, <1>3, <2>1, <2>2 DEF OneTorrent, Pcs
<1>8. CASE UpdateTags(h)
  <2>1. /\ pc = "update tags" /\ part = {h} /\ pc' = "update" /\ todo' = todo \ {h} /\ part' = {}
        /\ errors' \in {errors, TRUE} /\ UNCHANGED <<request, view, batch, labels, changes>>
        /\ live' = live \/ SetTags(h)
    BY <1>8 DEF UpdateTags, Made
  <2>2. live' \in Torrents /\ \A g \in Hashes : g # h => live'[g] = live[g]
    BY <1>0, <1>3, <2>1, SetFacts DEF ConfinedInv
  <2> QED BY <1>1, <1>3, <2>1, <2>2 DEF OneTorrent, Pcs
<1> QED BY <1>5, <1>7, <1>8

LEMMA OneTorrentConfined ==
    ASSUME ConfinedInv, NEW h \in Hashes, OneTorrent(h) PROVE ConfinedInv'
<1>1. labels = NoTorrents BY DEF ConfinedInv, Planned, OneTorrent
<1>2. Types'
  <2>1. errors' \in BOOLEAN BY DEF OneTorrent, ConfinedInv, Types, TypeOK
  <2> QED BY <2>1 DEF OneTorrent, ConfinedInv, Types, TypeOK, Torrents, request
<1>3. Planned' BY <1>1, PlanKept DEF OneTorrent, ConfinedInv, Planned, NoTorrents
<1>4. Looked' BY <1>1, NoLabels DEF OneTorrent, Looked
<1> QED BY <1>2, <1>3, <1>4 DEF ConfinedInv

(* Every step keeps to the plan. *)
LEMMA ConfinedStep == ConfinedInv /\ [Next]_vars => ConfinedInv'
<1> SUFFICES ASSUME ConfinedInv, [Next]_vars PROVE ConfinedInv'
  OBVIOUS
<1>1. CASE Elsewhere
  <2>1. PICK h \in Hashes, t \in Torrent \cup {None} : live' = [live EXCEPT ![h] = t]
    BY <1>1 DEF Elsewhere
  <2>2. /\ changes' = changes + 1 /\ changes < MaxChanges
        /\ UNCHANGED <<request, view, pc, todo, batch, part, labels, errors>>
    BY <1>1 DEF Elsewhere
  <2>3. changes' \in 0 .. MaxChanges /\ changes' # 0
    BY <2>2, RestoreAssumption DEF ConfinedInv, Types, TypeOK
  <2>4. Types' BY <2>1, <2>2, <2>3 DEF ConfinedInv, Types, TypeOK, request
  <2>5. Planned' BY <2>2, PlanKept DEF ConfinedInv, Planned, NoTorrents
  <2>6. Looked' BY <2>3 DEF Looked
  <2> QED BY <2>4, <2>5, <2>6 DEF ConfinedInv
<1>2. CASE \/ ReadCategories \/ ReadTags \/ ReadTorrents \/ PlanFails \/ BeginExecution \/ GiveUp
           \/ CategoriesDone \/ TagsDone \/ AddsDone \/ UpdatesDone \/ DeletesDone
  BY <1>2, ConfinedTurns
<1>3. CASE \/ FindCategorized \/ ClearCategory \/ CategoriesFail
           \/ ReadLabels \/ LabelsWritten \/ TagsFail \/ DeleteTorrents
           \/ \E h \in Hashes : WriteLabels(h)
  BY <1>3, ConfinedNames
<1>4. ASSUME NEW h \in Hashes,
             \/ AddTorrent(h) \/ AddFails(h) \/ AddCategory(h) \/ AddTags(h)
             \/ UpdateTorrent(h) \/ UpdateCategory(h) \/ UpdateTags(h)
      PROVE  ConfinedInv'
  BY <1>4, AddFacts, UpdateFacts, OneTorrentConfined
<1>5. CASE UNCHANGED vars
  <2>1. Types' BY <1>5 DEF vars, ConfinedInv, Types, TypeOK, request
  <2>2. Planned' BY <1>5, PlanKept DEF vars, ConfinedInv, Planned, NoTorrents
  <2>3. Looked' BY <1>5 DEF vars, ConfinedInv, Looked
  <2> QED BY <2>1, <2>2, <2>3 DEF ConfinedInv
<1> QED BY <1>1, <1>2, <1>3, <1>4, <1>5 DEF Next

LEMMA SnapshotFacts ==
    ASSUME NEW ts \in Torrents, NEW c \in BOOLEAN, NEW g \in BOOLEAN
    PROVE  LET s == Snapshot(ts, c, g) IN
           /\ s \in [items : Torrents, cats : SUBSET Categories, tags : SUBSET Tags]
           /\ \A h \in Hashes : s.items[h] # None => s.items[h].tags \subseteq s.tags
<1> DEFINE items == [h \in Hashes |-> IF ts[h] = None THEN None
                                      ELSE [ts[h] EXCEPT !.tags = IF g THEN @ ELSE {}]]
           cats == IF c THEN CatsOf(ts) ELSE {}
           tags == IF g THEN TagsOf(ts) ELSE {}
<1>1. CatsOf(ts) \subseteq Categories /\ TagsOf(ts) \subseteq Tags BY NamesOf
<1>2. ASSUME NEW h \in Hashes, ts[h] # None
      PROVE  items[h] \in Torrent /\ items[h].tags \subseteq tags
  <2>1. ts[h] \in Torrent /\ ts[h].tags \subseteq TagsOf(ts) BY <1>2, NamesOf
  <2> DEFINE x == IF g THEN ts[h].tags ELSE {}
  <2>2. x \subseteq Tags /\ x \subseteq tags BY <1>1, <2>1
  <2>3. items[h] = [ts[h] EXCEPT !.tags = x] BY <1>2
  <2> HIDE DEF x, items, tags
  <2> QED BY <2>1, <2>2, <2>3, WithTags
<1>3. \A h \in Hashes : ts[h] = None => items[h] = None OBVIOUS
<1>4. items \in Torrents
  <2>1. \A h \in Hashes : items[h] \in Torrent \cup {None} BY <1>2, <1>3
  <2> QED BY <2>1 DEF Torrents
<1>5. cats \in SUBSET Categories /\ tags \in SUBSET Tags BY <1>1
<1>6. Snapshot(ts, c, g) = [items |-> items, cats |-> cats, tags |-> tags] BY DEF Snapshot
<1> HIDE DEF items, cats, tags
<1> QED BY <1>2, <1>3, <1>4, <1>5, <1>6

LEMMA ConfinedInit == Init => ConfinedInv
<1> SUFFICES ASSUME Init PROVE ConfinedInv
  OBVIOUS
<1>1. snap \in [items : Torrents, cats : SUBSET Categories, tags : SUBSET Tags]
  <2>1. PICK ts \in Torrents, c \in BOOLEAN, g \in BOOLEAN : snap = Snapshot(ts, c, g)
    BY DEF Init, Torrents
  <2> QED BY <2>1, SnapshotFacts
<1>2. view \in [torrents : Torrents, cats : SUBSET Categories, tags : SUBSET Tags]
  BY NoLabels DEF Init
<1>3. changes \in 0 .. MaxChanges
  <2>1. changes = 0 BY DEF Init
  <2> QED BY <2>1, RestoreAssumption
<1>4. Types BY <1>1, <1>2, <1>3, NoLabels DEF Init, Types, TypeOK, Pcs, Reading, Torrents
<1>5. Planned BY DEF Init, Planned
<1>6. Looked BY NoLabels DEF Init, Looked
<1> QED BY <1>4, <1>5, <1>6 DEF ConfinedInv

(* The variables of a restore keep their types, and a call under way is for *)
(* names the present step has to deal with.                                 *)
THEOREM RestoreTypes == Spec => []TypeOK
<1>1. ConfinedInv => TypeOK BY DEF ConfinedInv, Types
<1> QED BY <1>1, ConfinedInit, ConfinedStep, PTL DEF Spec

(* The body of RestoreConfined, for one torrent. *)
Confined(h) ==
    /\ mode # "complete" => live'[h] # None /\ InSnap(h) /\ h \notin exclude
    /\ mode = "incremental" => ~InView(h)
    /\ live'[h] = None => InView(h) /\ ~InSnap(h) /\ h \notin exclude
    /\ h \in exclude /\ changes = 0 =>
         /\ live[h] # None /\ Pruned(live'[h]) = Pruned(live[h])
         /\ live'[h].cat \in {live[h].cat, NoCategory}
         /\ live'[h].tags \subseteq live[h].tags

(* A torrent that loses a category, or gets back fewer labels than were     *)
(* read, loses what the snapshot does not have.                             *)
LEMMA ConfinedRemovals ==
    ASSUME ConfinedInv, NEW h \in Hashes, live'[h] # live[h],
           ClearCategory \/ WriteLabels(h)
    PROVE  Confined(h)
<1>0. live \in Torrents /\ labels \in [Hashes -> (SUBSET Tags) \cup {None}]
  BY DEF ConfinedInv, Types, TypeOK, Torrents
<1>1. CASE ClearCategory
  <2>1. /\ pc = "categories" /\ part # {} /\ labels[h] # None /\ live[h] # None
        /\ live'[h] = [live[h] EXCEPT !.cat = NoCategory]
    BY <1>1 DEF ClearCategory
  <2>2. live[h] \in Torrent BY <1>0, <2>1 DEF Torrents
  <2>3. /\ live'[h] \in Torrent /\ live'[h].cat = NoCategory /\ live'[h].tags = live[h].tags
    BY <2>1, <2>2, WithCategory
  <2>4. part \subseteq CategoryDeletes BY <2>1 DEF ConfinedInv, Planned
  <2>5. mode = "complete" /\ part \cap snap.cats = {}
    BY <2>1, <2>4 DEF CategoryDeletes, IncludeDeletes
  <2>6. changes = 0 => Pruned(live'[h]) = Pruned(live[h])
    <3> SUFFICES ASSUME changes = 0 PROVE Pruned(live'[h]) = Pruned(live[h])
      OBVIOUS
    <3>1. live[h].cat \notin snap.cats BY <2>1, <2>5 DEF ConfinedInv, Looked
    <3>2. Types BY DEF ConfinedInv
    <3>3. NoCategory \notin snap.cats BY <3>2, RestoreAssumption DEF Types
    <3>4. Pruned(live'[h]).tags = Pruned(live[h]).tags BY <2>2, <2>3, <3>2, PrunedFields
    <3>5. Pruned(live'[h]).cat = NoCategory /\ Pruned(live[h]).cat = NoCategory
      BY <2>2, <2>3, <3>1, <3>2, <3>3, PrunedFields
    <3>6. Pruned(live'[h]) \in Torrent /\ Pruned(live[h]) \in Torrent
      BY <2>2, <2>3, <3>2, PrunedFields
    <3> QED BY <3>4, <3>5, <3>6, SameTorrent
  <2> QED BY <2>1, <2>3, <2>5, <2>6, TorrentFields DEF Confined
<1>2. CASE WriteLabels(h)
  <2>1. /\ pc = "tags" /\ labels[h] # None
        /\ live' = IF live[h] = None THEN live ELSE [live EXCEPT ![h].tags = labels[h] \ part]
    BY <1>2 DEF WriteLabels, Unwritten
  <2>2. live[h] # None BY <2>1
  <2>3. live'[h] = [live[h] EXCEPT !.tags = labels[h] \ part] BY <1>0, <2>1, <2>2 DEF Torrents
  <2>4. live[h] \in Torrent /\ labels[h] \ part \in SUBSET Tags BY <1>0, <2>1, <2>2 DEF Torrents
  <2>5. /\ live'[h] \in Torrent /\ live'[h].cat = live[h].cat /\ live'[h].tags = labels[h] \ part
    BY <2>3, <2>4, WithTags
  <2>6. part # {} BY <2>1, NoLabels DEF ConfinedInv, Planned
  <2>7. part \subseteq TagDeletes BY <2>1 DEF ConfinedInv, Planned
  <2>8. mode = "complete" /\ part \cap snap.tags = {}
    BY <2>6, <2>7 DEF TagDeletes, IncludeDeletes
  <2>9. changes = 0 => labels[h] = live[h].tags BY <2>1 DEF ConfinedInv, Looked
  <2>10. changes = 0 => Pruned(live'[h]) = Pruned(live[h])
    <3> SUFFICES ASSUME changes = 0 PROVE Pruned(live'[h]) = Pruned(live[h])
      OBVIOUS
    <3>1. live'[h].tags \cap snap.tags = live[h].tags \cap snap.tags BY <2>5, <2>8, <2>9
    <3>2. Pruned(live'[h]).tags = Pruned(live[h]).tags BY <2>4, <2>5, <3>1, PrunedFields DEF ConfinedInv
    <3>3. Pruned(live'[h]).cat = Pruned(live[h]).cat BY <2>4, <2>5, PrunedFields DEF ConfinedInv
    <3> QED BY <2>4, <2>5, <3>2, <3>3, PrunedFields, SameTorrent DEF ConfinedInv
  <2> QED BY <2>2, <2>5, <2>8, <2>9, <2>10, TorrentFields DEF Confined
<1> QED BY <1>1, <1>2

(* Additions and updates are for included torrents of the snapshot, and     *)
(* neither takes a torrent away.                                            *)
LEMMA ConfinedTorrents ==
    ASSUME ConfinedInv, NEW h \in Hashes, live'[h] # live[h],
           \/ AddTorrent(h) \/ AddFails(h) \/ AddCategory(h) \/ AddTags(h)
           \/ UpdateTorrent(h) \/ UpdateCategory(h) \/ UpdateTags(h)
    PROVE  Confined(h)
<1>1. OneTorrent(h) /\ InSnap(h) /\ (h \in TorrentAdds \/ h \in TorrentUpdates)
  BY AddFacts, UpdateFacts
<1>2. h \notin exclude /\ (mode = "incremental" => ~InView(h))
  BY <1>1 DEF TorrentAdds, TorrentUpdates, Included, AllowUpdates
<1>3. live'[h] # None
  <2>1. snap.items[h] # None BY <1>1 DEF InSnap
  <2>2. CASE AddTorrent(h)
    BY <2>1, <2>2 DEF AddTorrent, ConfinedInv, Types, TypeOK
  <2>3. CASE AddFails(h) \/ UpdateTorrent(h)
    BY <2>3 DEF AddFails, UpdateTorrent
  <2>4. CASE AddCategory(h) \/ AddTags(h) \/ UpdateCategory(h) \/ UpdateTags(h)
    <3>1. SetCategory(h) \/ SetTags(h)
      BY <2>4 DEF AddCategory, AddTags, UpdateCategory, UpdateTags, Made
    <3> QED BY <1>1, <3>1, SetFacts, TorrentFields DEF ConfinedInv
  <2> QED BY <2>2, <2>3, <2>4
<1> QED BY <1>1, <1>2, <1>3 DEF Confined

(* For any torrents, categories and tags, whatever fails and whatever       *)
(* others change meanwhile: a restore adds and updates only included        *)
(* torrents of the snapshot as its mode allows, deletes only what the plan  *)
(* saw, and takes from an excluded torrent only names the snapshot does not *)
(* have.                                                                    *)
THEOREM RestoreIsConfined == Spec => RestoreConfined
<1>1. ASSUME ConfinedInv, [Next]_vars, Restores, NEW h \in Hashes, live'[h] # live[h]
      PROVE  Confined(h)
  <2>1. CASE Elsewhere
    <3>1. changes' = changes + 1 BY <2>1 DEF Elsewhere
    <3>2. changes \in Int BY <1>1 DEF ConfinedInv, Types, TypeOK
    <3> QED BY <1>1, <3>1, <3>2 DEF Restores
  <2>2. CASE \/ ReadCategories \/ ReadTags \/ ReadTorrents \/ PlanFails \/ BeginExecution \/ GiveUp
             \/ CategoriesDone \/ TagsDone \/ AddsDone \/ UpdatesDone \/ DeletesDone
             \/ FindCategorized \/ CategoriesFail \/ ReadLabels \/ LabelsWritten \/ TagsFail
             \/ UNCHANGED vars
    BY <1>1, <2>2 DEF ReadCategories, ReadTags, ReadTorrents, PlanFails, BeginExecution, GiveUp,
       CategoriesDone, TagsDone, AddsDone, UpdatesDone, DeletesDone,
       FindCategorized, CategoriesFail, ReadLabels, LabelsWritten, TagsFail, vars
  <2>3. CASE ClearCategory BY <1>1, <2>3, ConfinedRemovals
  <2>4. ASSUME NEW g \in Hashes, WriteLabels(g) PROVE Confined(h)
    <3>1. g = h BY <1>1, <2>4 DEF WriteLabels, ConfinedInv, Types, TypeOK
    <3> QED BY <1>1, <2>4, <3>1, ConfinedRemovals
  <2>5. ASSUME NEW g \in Hashes,
               \/ AddTorrent(g) \/ AddFails(g) \/ AddCategory(g) \/ AddTags(g)
               \/ UpdateTorrent(g) \/ UpdateCategory(g) \/ UpdateTags(g)
        PROVE  Confined(h)
    <3>1. OneTorrent(g) BY <1>1, <2>5, AddFacts, UpdateFacts
    <3>2. g = h BY <1>1, <3>1 DEF OneTorrent
    <3> QED BY <1>1, <2>5, <3>2, ConfinedTorrents
  <2>6. CASE DeleteTorrents
    <3>1. PICK p \in Parts :
            \/ live' = [g \in Hashes |-> IF g \in p THEN None ELSE live[g]]
            \/ UNCHANGED live
      BY <2>6 DEF DeleteTorrents
    <3>2. h \in p /\ live'[h] = None BY <1>1, <3>1
    <3>3. h \in TorrentDeletes
      <4>1. pc = "delete" BY <2>6 DEF DeleteTorrents
      <4>2. p \subseteq todo BY <1>1, PartsFacts DEF ConfinedInv
      <4> QED BY <1>1, <3>2, <4>1, <4>2 DEF ConfinedInv, Planned
    <3> QED BY <3>2, <3>3 DEF Confined, TorrentDeletes, Included, IncludeDeletes
  <2> QED BY <1>1, <2>1, <2>2, <2>3, <2>4, <2>5, <2>6 DEF Next
<1> DEFINE A == Restores => \A h \in Hashes : live'[h] # live[h] => Confined(h)
<1>2. ConfinedInv /\ [Next]_vars => A BY <1>1
<1>3. RestoreConfined <=> [][A]_vars BY DEF RestoreConfined, Confined
<1> HIDE DEF A
<1> QED BY <1>2, <1>3, ConfinedInit, ConfinedStep, PTL DEF Spec
-----------------------------------------------------------------------------
(* The tags of a snapshot are those of its torrents. *)
SnapTags == \A h \in Hashes : InSnap(h) => snap.items[h].tags \subseteq snap.tags

(* Undisturbed, what the plan was made from is one state of the instance.   *)
Viewed ==
    changes = 0 =>
        /\ pc \in {"read tags", "read torrents"} => view.cats = CatsOf(live)
        /\ pc = "read torrents" => view.tags = TagsOf(live)
        /\ pc \notin Reading \cup {"failed"} =>
              view.cats = CatsOf(view.torrents) /\ view.tags = TagsOf(view.torrents)

(* A torrent after the removals, after the additions and after the updates. *)
Kept(h) == IF mode = "complete" THEN Pruned(view.torrents[h]) ELSE view.torrents[h]
Added(h) == IF h \in TorrentAdds THEN snap.items[h] ELSE Kept(h)
Updated(h) == IF h \in TorrentUpdates THEN snap.items[h] ELSE Added(h)

(* In the middle of the removals: the names dealt with are gone, those      *)
(* still to be dealt with may be.                                           *)
Uncategorized(h) ==
    LET v == view.torrents[h] IN
    IF v = None THEN live[h] = None
    ELSE /\ live[h] # None /\ live[h].tags = v.tags
         /\ live[h].cat = IF v.cat \in CategoryDeletes \ todo THEN NoCategory ELSE v.cat
         /\ labels[h] = None => live[h].cat \notin part

Untagged(h) ==
    LET v == view.torrents[h] IN
    IF v = None THEN live[h] = None
    ELSE /\ live[h] # None /\ live[h].cat = Kept(h).cat
         /\ Kept(h).tags \subseteq live[h].tags
         /\ live[h].tags \subseteq v.tags \ (TagDeletes \ todo)
         /\ labels[h] = None => live[h].tags \cap part = {}

Updating(h) ==
    IF h \notin TorrentUpdates THEN live[h] = Added(h)
    ELSE IF h \notin todo THEN live[h] = snap.items[h]
    ELSE /\ live[h] # None /\ live[h].tags = Kept(h).tags
         /\ live[h].cat = IF h \in part /\ pc = "update tags" THEN snap.items[h].cat
                                                              ELSE Kept(h).cat

Undisturbed == changes = 0 /\ ~errors /\ Covers

(* Undisturbed, a torrent is at every step what the steps so far make of    *)
(* the view.                                                                *)
Track(h) ==
    /\ pc = "plan" => live[h] = view.torrents[h]
    /\ pc = "categories" => Uncategorized(h)
    /\ pc = "tags" => Untagged(h)
    /\ pc \in {"add", "add category", "add tags"} =>
          live[h] = IF h \in todo \ part THEN Kept(h) ELSE Added(h)
    /\ pc \in {"update", "update category", "update tags"} => Updating(h)
    /\ pc = "delete" => live[h] = IF h \in TorrentDeletes \ todo THEN None ELSE Updated(h)
    /\ pc = "done" => live[h] = Desired(h)

OnTrack == Undisturbed => \A h \in Hashes : Track(h)

ConvergeInv == ConfinedInv /\ SnapTags /\ Viewed /\ OnTrack

-----------------------------------------------------------------------------
(* The view and the plan. *)

(* The request stays, and so do errors and changes by others. *)
LEMMA Steady ==
    ASSUME ConfinedInv, [Next]_vars
    PROVE  /\ UNCHANGED request /\ (errors => errors')
           /\ changes' = 0 => UNCHANGED changes /\ ~Elsewhere
<1>0. changes \in Nat /\ errors \in BOOLEAN
  <2>1. changes \in 0 .. MaxChanges /\ errors \in BOOLEAN BY DEF ConfinedInv, Types, TypeOK
  <2> QED BY <2>1, RestoreAssumption
<1>1. Elsewhere => changes' # 0 BY <1>0 DEF Elsewhere
<1>2. CASE Elsewhere BY <1>1, <1>2 DEF Elsewhere
<1>3. CASE \/ ReadCategories \/ ReadTags \/ ReadTorrents \/ PlanFails \/ BeginExecution \/ GiveUp
           \/ CategoriesDone \/ TagsDone \/ AddsDone \/ UpdatesDone \/ DeletesDone
           \/ FindCategorized \/ ClearCategory \/ ReadLabels \/ LabelsWritten \/ UNCHANGED vars
  <2>1. UNCHANGED request /\ UNCHANGED changes
    BY <1>3 DEF ReadCategories, ReadTags, ReadTorrents, PlanFails, BeginExecution, GiveUp,
       CategoriesDone, TagsDone, AddsDone, UpdatesDone, DeletesDone,
       FindCategorized, ClearCategory, ReadLabels, LabelsWritten, vars
  <2>2. UNCHANGED errors \/ errors' = TRUE
    BY <1>3 DEF ReadCategories, ReadTags, ReadTorrents, PlanFails, BeginExecution, GiveUp,
       CategoriesDone, TagsDone, AddsDone, UpdatesDone, DeletesDone,
       FindCategorized, ClearCategory, ReadLabels, LabelsWritten, vars
  <2> QED BY <1>1, <2>1, <2>2
<1>4. CASE CategoriesFail \/ TagsFail
  <2>1. UNCHANGED request /\ UNCHANGED changes /\ PartFails(part)
    BY <1>4 DEF CategoriesFail, TagsFail
  <2>2. errors => errors' BY <2>1 DEF PartFails
  <2> QED BY <1>1, <2>1, <2>2
<1>5. CASE DeleteTorrents
  <2>1. UNCHANGED request /\ UNCHANGED changes BY <1>5 DEF DeleteTorrents
  <2>2. errors => errors' BY <1>5 DEF DeleteTorrents, PartFails
  <2> QED BY <1>1, <2>1, <2>2
<1>6. ASSUME NEW h \in Hashes, WriteLabels(h)
      PROVE  UNCHANGED request /\ (errors => errors') /\ UNCHANGED changes
  BY <1>6 DEF WriteLabels
<1>7. ASSUME NEW h \in Hashes,
             \/ AddTorrent(h) \/ AddFails(h) \/ AddCategory(h) \/ AddTags(h)
             \/ UpdateTorrent(h) \/ UpdateCategory(h) \/ UpdateTags(h)
      PROVE  UNCHANGED request /\ (errors => errors') /\ UNCHANGED changes
  <2>1. OneTorrent(h) BY <1>7, AddFacts, UpdateFacts
  <2>2. UNCHANGED <<request, changes>> /\ (errors' = errors \/ errors' = TRUE) BY <2>1 DEF OneTorrent
  <2> QED BY <2>2
<1> QED BY <1>1, <1>2, <1>3, <1>4, <1>5, <1>6, <1>7 DEF Next

LEMMA StillUndisturbed ==
    ASSUME ConfinedInv, [Next]_vars, Undisturbed'
    PROVE  Undisturbed /\ ~Elsewhere /\ UNCHANGED <<request, changes>>
<1>1. UNCHANGED snap BY Steady DEF request
<1>2. Covers BY <1>1 DEF Undisturbed, Covers, CatsOf
<1> QED BY <1>2, Steady DEF Undisturbed

(* The torrents the steps aim at depend on the request and the view alone.  *)
LEMMA AimsKept ==
    ASSUME UNCHANGED <<request, view>>, NEW h \in Hashes
    PROVE  UNCHANGED <<Kept(h), Added(h), Updated(h), Desired(h)>>
<1>1. UNCHANGED <<TorrentAdds, TorrentUpdates>> BY PlanKept
<1>2. UNCHANGED Kept(h) BY DEF Kept, Pruned, request
<1> QED BY <1>1, <1>2 DEF Added, Updated, Desired, Pruned, InSnap, request

(* What the removals leave of a torrent of the view. *)
LEMMA KeptFields ==
    ASSUME ConfinedInv, Viewed, Undisturbed, pc \notin Reading \cup {"failed"}, NEW h \in Hashes
    PROVE  LET v == view.torrents[h] IN
           /\ v = None => Kept(h) = None
           /\ v # None =>
                /\ v \in Torrent /\ Kept(h) \in Torrent
                /\ Kept(h).cat = IF v.cat \in CategoryDeletes THEN NoCategory ELSE v.cat
                /\ Kept(h).tags = v.tags \ TagDeletes
<1> DEFINE v == view.torrents[h]
<1>1. Types /\ view.torrents \in Torrents BY DEF ConfinedInv, Types
<1>2. view.cats = CatsOf(view.torrents) /\ view.tags = TagsOf(view.torrents)
  BY DEF Viewed, Undisturbed
<1>3. CASE v = None BY <1>3 DEF Kept, Pruned
<1>4. CASE v # None
  <2>1. v \in Torrent /\ v.tags \subseteq view.tags /\ v.cat \in view.cats \cup {NoCategory}
    BY <1>1, <1>2, <1>4, NamesOf
  <2>2. CASE mode = "complete"
    <3>1. CategoryDeletes = view.cats \ snap.cats /\ TagDeletes = view.tags \ snap.tags
      BY <2>2 DEF CategoryDeletes, TagDeletes, IncludeDeletes
    <3>2. Kept(h) = Pruned(v) BY <2>2 DEF Kept
    <3> HIDE DEF v
    <3>3. /\ Kept(h) \in Torrent /\ Kept(h).tags = v.tags \cap snap.tags
          /\ Kept(h).cat = IF v.cat \in snap.cats THEN v.cat ELSE NoCategory
      BY <1>1, <2>1, <3>2, PrunedFields
    <3>4. Kept(h).tags = v.tags \ TagDeletes BY <2>1, <3>1, <3>3
    <3>5. Kept(h).cat = IF v.cat \in CategoryDeletes THEN NoCategory ELSE v.cat
      BY <2>1, <3>1, <3>3
    <3> QED BY <1>4, <2>1, <3>3, <3>4, <3>5 DEF v
  <2>3. CASE mode # "complete"
    <3>1. CategoryDeletes = {} /\ TagDeletes = {} /\ Kept(h) = v
      BY <2>3 DEF CategoryDeletes, TagDeletes, IncludeDeletes, Kept
    <3> QED BY <1>4, <2>1, <3>1
  <2> QED BY <2>2, <2>3
<1> QED BY <1>3, <1>4

(* The removals take nothing that the snapshot has. *)
LEMMA SnapNames ==
    ASSUME ConfinedInv, SnapTags, Undisturbed, NEW h \in Hashes, InSnap(h)
    PROVE  /\ snap.items[h] \in Torrent /\ snap.items[h].cat \notin CategoryDeletes
           /\ snap.items[h].tags \cap TagDeletes = {}
<1>1. snap.items \in Torrents /\ view.cats \subseteq Categories BY DEF ConfinedInv, Types
<1>2. snap.items[h] \in Torrent /\ snap.items[h].cat \in CatsOf(snap.items) \cup {NoCategory}
  BY <1>1, NamesOf DEF InSnap
<1>3. snap.items[h].cat \in snap.cats \cup {NoCategory} BY <1>2 DEF Undisturbed, Covers
<1>4. snap.items[h].cat \notin CategoryDeletes
  BY <1>1, <1>3, RestoreAssumption DEF CategoryDeletes
<1>5. snap.items[h].tags \cap TagDeletes = {} BY DEF SnapTags, TagDeletes
<1> QED BY <1>2, <1>4, <1>5

-----------------------------------------------------------------------------
(* The invariant, step by step. *)

(* The steps of the execution, as opposed to those that make the plan.      *)
Executes ==
    \/ BeginExecution \/ GiveUp
    \/ FindCategorized \/ ClearCategory \/ CategoriesFail \/ CategoriesDone
    \/ ReadLabels \/ LabelsWritten \/ TagsFail \/ TagsDone
    \/ AddsDone \/ UpdatesDone \/ DeleteTorrents \/ DeletesDone
    \/ \E h \in Hashes :
         \/ WriteLabels(h) \/ AddTorrent(h) \/ AddFails(h) \/ AddCategory(h) \/ AddTags(h)
         \/ UpdateTorrent(h) \/ UpdateCategory(h) \/ UpdateTags(h)

LEMMA ExecutesFacts ==
    ASSUME ConfinedInv, Executes
    PROVE  UNCHANGED view /\ {pc, pc'} \cap (Reading \cup {"failed"}) = {}
<1>1. CASE \/ BeginExecution \/ GiveUp
           \/ CategoriesDone \/ TagsDone \/ AddsDone \/ UpdatesDone \/ DeletesDone
  BY <1>1 DEF BeginExecution, GiveUp, CategoriesDone, TagsDone, AddsDone, UpdatesDone, DeletesDone,
     Step, Reading
<1>2. CASE \/ FindCategorized \/ ClearCategory \/ CategoriesFail \/ ReadLabels \/ LabelsWritten
           \/ TagsFail \/ DeleteTorrents
  BY <1>2 DEF FindCategorized, ClearCategory, CategoriesFail, ReadLabels, LabelsWritten,
     TagsFail, DeleteTorrents, Reading
<1>3. ASSUME NEW h \in Hashes, WriteLabels(h)
      PROVE  UNCHANGED view /\ {pc, pc'} \cap (Reading \cup {"failed"}) = {}
  BY <1>3 DEF WriteLabels, Reading
<1>4. ASSUME NEW h \in Hashes,
             \/ AddTorrent(h) \/ AddFails(h) \/ AddCategory(h) \/ AddTags(h)
             \/ UpdateTorrent(h) \/ UpdateCategory(h) \/ UpdateTags(h)
      PROVE  UNCHANGED view /\ {pc, pc'} \cap (Reading \cup {"failed"}) = {}
  <2>1. OneTorrent(h) BY <1>4, AddFacts, UpdateFacts
  <2> QED BY <2>1 DEF OneTorrent, Reading
<1> QED BY <1>1, <1>2, <1>3, <1>4 DEF Executes

LEMMA ViewedStep ==
    ASSUME ConfinedInv, Viewed, [Next]_vars PROVE Viewed'
<1> SUFFICES ASSUME changes' = 0 PROVE Viewed'
  BY DEF Viewed
<1>0. changes = 0 /\ ~Elsewhere BY Steady
<1>v. view \in [torrents : Torrents, cats : SUBSET Categories, tags : SUBSET Tags]
  BY DEF ConfinedInv, Types
<1>1. CASE ReadCategories
  <2>1. pc' = "read tags" /\ live' = live BY <1>1 DEF ReadCategories, Step
  <2>2. view'.cats = CatsOf(live) BY <1>v, <1>1 DEF ReadCategories
  <2> QED BY <2>1, <2>2 DEF Viewed, Reading, CatsOf
<1>2. CASE ReadTags
  <2>1. pc' = "read torrents" /\ live' = live /\ view.cats = CatsOf(live)
    BY <1>0, <1>2 DEF ReadTags, Step, Viewed
  <2>2. view'.tags = TagsOf(live) /\ view'.cats = view.cats BY <1>v, <1>2 DEF ReadTags
  <2> QED BY <2>1, <2>2 DEF Viewed, Reading, CatsOf, TagsOf
<1>3. CASE ReadTorrents
  <2>1. pc' = "plan" /\ live' = live /\ view.cats = CatsOf(live) /\ view.tags = TagsOf(live)
    BY <1>0, <1>3 DEF ReadTorrents, Step, Viewed
  <2>2. view'.torrents = live /\ view'.cats = view.cats /\ view'.tags = view.tags
    BY <1>v, <1>3 DEF ReadTorrents
  <2> QED BY <2>1, <2>2 DEF Viewed, Reading, CatsOf, TagsOf
<1>4. CASE PlanFails BY <1>4 DEF PlanFails, Step, Viewed, Reading
<1>5. CASE Executes
  <2>1. UNCHANGED view /\ pc \notin Reading \cup {"failed"} /\ pc' \notin Reading \cup {"failed"}
    BY <1>5, ExecutesFacts
  <2>2. view.cats = CatsOf(view.torrents) /\ view.tags = TagsOf(view.torrents)
    BY <1>0, <2>1 DEF Viewed
  <2>3. view'.cats = CatsOf(view'.torrents) /\ view'.tags = TagsOf(view'.torrents)
    BY <2>1, <2>2
  <2> QED BY <2>1, <2>3 DEF Viewed, Reading, CatsOf, TagsOf
<1>6. CASE UNCHANGED vars BY <1>0, <1>6 DEF vars, Viewed, Reading, CatsOf, TagsOf
<1> QED BY <1>0, <1>1, <1>2, <1>3, <1>4, <1>5, <1>6 DEF Next, Executes

(* What the lemmas on the actions start from. *)
Quiet ==
    /\ ConfinedInv /\ SnapTags /\ Viewed /\ Undisturbed
    /\ Undisturbed' /\ UNCHANGED <<request, view>>
    /\ {pc, pc'} \cap (Reading \cup {"failed"}) = {}

(* One step of the restore ends and the next begins. *)
LEMMA TrackTurns ==
    ASSUME Quiet, NEW h \in Hashes, Track(h),
           \/ BeginExecution \/ GiveUp
           \/ CategoriesDone \/ TagsDone \/ AddsDone \/ UpdatesDone \/ DeletesDone
    PROVE  Track(h)'
<1> DEFINE v == view.torrents[h]
<1>0. /\ live \in Torrents /\ view'.torrents[h] = v
      /\ UNCHANGED <<CategoryDeletes, TagDeletes, TorrentAdds, TorrentUpdates, TorrentDeletes>>
      /\ UNCHANGED <<Kept(h), Added(h), Updated(h), Desired(h)>>
      /\ snap'.items[h] = snap.items[h]
  BY PlanKept, AimsKept DEF Quiet, ConfinedInv, Types, TypeOK, Torrents, request
<1>k. /\ v = None => Kept(h) = None
      /\ v # None =>
           /\ v \in Torrent /\ Kept(h) \in Torrent
           /\ Kept(h).cat = IF v.cat \in CategoryDeletes THEN NoCategory ELSE v.cat
           /\ Kept(h).tags = v.tags \ TagDeletes
  BY KeptFields DEF Quiet
<1> HIDE DEF v
<1>1. CASE BeginExecution
  <2>1. /\ pc = "plan" /\ pc' = "categories" /\ todo' = CategoryDeletes /\ part' = {} /\ live' = live
    BY <1>1 DEF BeginExecution, Step
  <2>2. live[h] = v BY <2>1 DEF Track, v
  <2>3. Uncategorized(h)' BY <1>0, <2>1, <2>2 DEF Uncategorized, v
  <2> QED BY <2>1, <2>3 DEF Track
<1>2. CASE GiveUp BY <1>2 DEF GiveUp, Quiet, Undisturbed
<1>3. CASE CategoriesDone
  <2>1. /\ pc = "categories" /\ todo = {} /\ pc' = "tags" /\ todo' = TagDeletes /\ part' = {} /\ live' = live
    BY <1>3 DEF CategoriesDone, Step
  <2>2. Uncategorized(h) BY <2>1 DEF Track
  <2>3. CASE v = None
    <3>1. Untagged(h)' BY <1>0, <2>1, <2>2, <2>3 DEF Uncategorized, Untagged, v
    <3> QED BY <2>1, <3>1 DEF Track
  <2>4. CASE v # None
    <3>1. /\ live[h] # None /\ live[h].tags = v.tags
          /\ live[h].cat = IF v.cat \in CategoryDeletes THEN NoCategory ELSE v.cat
      BY <2>1, <2>2, <2>4 DEF Uncategorized, v
    <3>2. live[h].cat = Kept(h).cat /\ Kept(h).tags \subseteq live[h].tags BY <1>k, <2>4, <3>1
    <3>3. Untagged(h)' BY <1>0, <2>1, <2>4, <3>1, <3>2 DEF Untagged, v
    <3> QED BY <2>1, <3>3 DEF Track
  <2> QED BY <2>3, <2>4
<1>4. CASE TagsDone
  <2>1. /\ pc = "tags" /\ todo = {} /\ pc' = "add" /\ todo' = TorrentAdds /\ part' = {} /\ live' = live
    BY <1>4 DEF TagsDone, Step
  <2>2. Untagged(h) BY <2>1 DEF Track
  <2>3. live[h] = Kept(h)
    <3>1. CASE v = None BY <1>k, <2>2, <3>1 DEF Untagged, v
    <3>2. CASE v # None
      <4>1. /\ live[h] # None /\ live[h].cat = Kept(h).cat /\ Kept(h).tags \subseteq live[h].tags
            /\ live[h].tags \subseteq v.tags \ TagDeletes
        BY <2>1, <2>2, <3>2 DEF Untagged, v
      <4>2. live[h].tags = Kept(h).tags BY <1>k, <3>2, <4>1
      <4>3. live[h] \in Torrent BY <1>0, <4>1 DEF Torrents
      <4> QED BY <1>k, <3>2, <4>1, <4>2, <4>3, SameTorrent
    <3> QED BY <3>1, <3>2
  <2>4. live[h] = IF h \in TorrentAdds THEN Kept(h) ELSE Added(h) BY <2>3 DEF Added
  <2> QED BY <1>0, <2>1, <2>4 DEF Track
<1>5. CASE AddsDone
  <2>1. /\ pc = "add" /\ todo = {} /\ pc' = "update" /\ todo' = TorrentUpdates /\ part' = {} /\ live' = live
    BY <1>5 DEF AddsDone, Step
  <2>2. live[h] = Added(h) BY <2>1 DEF Track
  <2>3. h \in TorrentUpdates => v # None /\ Added(h) = Kept(h)
    BY DEF TorrentUpdates, TorrentAdds, Added, InView, v
  <2>4. h \in TorrentUpdates => live[h] # None /\ live[h] = Kept(h)
    BY <1>k, <2>2, <2>3, TorrentFields
  <2>5. Updating(h)' BY <1>0, <2>1, <2>2, <2>4 DEF Updating
  <2> QED BY <2>1, <2>5 DEF Track
<1>6. CASE UpdatesDone
  <2>1. /\ pc = "update" /\ todo = {} /\ pc' = "delete" /\ todo' = TorrentDeletes /\ live' = live
    BY <1>6 DEF UpdatesDone, Step
  <2>2. Updating(h) BY <2>1 DEF Track
  <2>3. live[h] = Updated(h) BY <2>1, <2>2 DEF Updating, Updated
  <2> QED BY <1>0, <2>1, <2>3 DEF Track
<1>7. CASE DeletesDone
  <2>1. pc = "delete" /\ todo = {} /\ pc' = "done" /\ live' = live
    BY <1>7 DEF DeletesDone, Step
  <2>2. live[h] = IF h \in TorrentDeletes THEN None ELSE Updated(h) BY <2>1 DEF Track
  <2>3. live[h] = Desired(h)
    <3>0. mode \in {"incremental", "overwrite", "complete"} BY DEF Quiet, ConfinedInv, Types
    <3>1. CASE h \in exclude
      <4>1. h \notin TorrentAdds /\ h \notin TorrentUpdates /\ h \notin TorrentDeletes
        BY <3>1 DEF TorrentAdds, TorrentUpdates, TorrentDeletes, Included
      <4> QED BY <2>2, <3>1, <4>1 DEF Desired, Updated, Added, Kept
    <3>2. CASE h \notin exclude /\ ~InSnap(h)
      <4>1. /\ h \notin TorrentAdds /\ h \notin TorrentUpdates
            /\ h \in TorrentDeletes <=> mode = "complete" /\ v # None
        BY <3>2 DEF TorrentAdds, TorrentUpdates, TorrentDeletes, Included, IncludeDeletes, InView, v
      <4> QED BY <1>k, <2>2, <3>2, <4>1 DEF Desired, Updated, Added, Kept, v
    <3>3. CASE h \notin exclude /\ InSnap(h)
      <4>1. /\ h \notin TorrentDeletes /\ (h \in TorrentAdds <=> v = None)
            /\ h \in TorrentUpdates <=> mode # "incremental" /\ v # None /\ snap.items[h] # v
        BY <3>0, <3>3 DEF TorrentAdds, TorrentUpdates, TorrentDeletes, Included, AllowUpdates, InView, v
      <4>2. CASE v = None \/ h \in TorrentUpdates
        BY <2>2, <3>3, <4>1, <4>2 DEF Desired, Updated, Added, v
      <4>3. CASE v # None /\ mode = "incremental"
        BY <2>2, <3>3, <4>1, <4>3 DEF Desired, Updated, Added, Kept, v
      <4>4. CASE v # None /\ mode # "incremental" /\ snap.items[h] = v
        <5>1. v.cat \notin CategoryDeletes /\ v.tags \cap TagDeletes = {}
          BY <3>3, <4>4, SnapNames DEF Quiet
        <5>2. Kept(h) = v BY <1>k, <4>4, <5>1, SameTorrent
        <5> QED BY <2>2, <3>3, <4>1, <4>4, <5>2 DEF Desired, Updated, Added, v
      <4> QED BY <4>1, <4>2, <4>3, <4>4
    <3> QED BY <3>1, <3>2, <3>3
  <2> QED BY <1>0, <2>1, <2>3 DEF Track
<1> QED BY <1>1, <1>2, <1>3, <1>4, <1>5, <1>6, <1>7

(* Categories are removed. *)
LEMMA TrackCategories ==
    ASSUME Quiet, NEW h \in Hashes, Track(h), FindCategorized \/ ClearCategory \/ CategoriesFail
    PROVE  Track(h)'
<1> DEFINE v == view.torrents[h]
<1>0. /\ live \in Torrents /\ view'.torrents[h] = v /\ UNCHANGED CategoryDeletes
      /\ part \subseteq todo
  BY PlanKept DEF Quiet, ConfinedInv, Types, TypeOK, Torrents, Planned
<1>1. pc = "categories" /\ pc' = "categories"
  BY DEF FindCategorized, ClearCategory, CategoriesFail
<1>2. Uncategorized(h) BY <1>1 DEF Track
<1> SUFFICES Uncategorized(h)'
  BY <1>1 DEF Track
<1>3. CASE FindCategorized
  <2>1. PICK p \in Parts :
          /\ part' = p
          /\ labels' = [g \in Hashes |-> IF live[g] # None /\ live[g].cat \in p THEN {} ELSE None]
    BY <1>3 DEF FindCategorized
  <2>2. live' = live /\ todo' = todo BY <1>3 DEF FindCategorized
  <2>3. live[h] # None /\ labels'[h] = None => live[h].cat \notin part'
    BY <2>1, NoneAssumption
  <2> QED BY <1>0, <1>2, <2>2, <2>3 DEF Uncategorized
<1>4. CASE ClearCategory
  <2>1. /\ todo' = todo \ part /\ part' = {}
        /\ live'[h] = IF labels[h] = None \/ live[h] = None THEN live[h]
                      ELSE [live[h] EXCEPT !.cat = NoCategory]
    BY <1>4 DEF ClearCategory, PartDone
  <2>2. CASE v = None BY <1>0, <1>2, <2>1, <2>2 DEF Uncategorized
  <2>3. CASE v # None
    <3>1. /\ live[h] # None /\ live[h].tags = v.tags
          /\ live[h].cat = IF v.cat \in CategoryDeletes \ todo THEN NoCategory ELSE v.cat
          /\ labels[h] = None => live[h].cat \notin part
      BY <1>2, <2>3 DEF Uncategorized
    <3>2. live[h] \in Torrent BY <1>0, <3>1 DEF Torrents
    <3>3. todo \subseteq CategoryDeletes /\ NoCategory \notin CategoryDeletes
      <4>1. todo \subseteq CategoryDeletes BY <1>1 DEF Quiet, ConfinedInv, Planned
      <4>2. view.cats \subseteq Categories BY DEF Quiet, ConfinedInv, Types
      <4> QED BY <4>1, <4>2, RestoreAssumption DEF CategoryDeletes
    <3> HIDE DEF v
    <3>4. CASE labels[h] = None
      <4>1. live'[h] = live[h] /\ live[h].cat \notin part BY <2>1, <3>1, <3>4
      <4>2. v.cat \notin part BY <1>0, <3>1, <4>1
      <4>3. live[h].cat = IF v.cat \in CategoryDeletes \ todo' THEN NoCategory ELSE v.cat
        BY <2>1, <3>1, <4>2
      <4> QED BY <1>0, <2>1, <2>3, <3>1, <4>1, <4>3 DEF Uncategorized, v
    <3>5. CASE labels[h] # None
      <4>1. /\ live'[h] \in Torrent /\ live'[h].cat = NoCategory /\ live'[h].tags = live[h].tags
        BY <2>1, <3>1, <3>2, <3>5, WithCategory
      <4>2. live'[h] # None BY <4>1, TorrentFields
      <4>3. live[h].cat \in part BY <1>1, <3>5 DEF Quiet, ConfinedInv, Looked, Undisturbed
      <4>4. v.cat \in part BY <1>0, <3>1, <3>3, <4>3
      <4>5. v.cat \in CategoryDeletes \ todo' BY <1>0, <2>1, <3>3, <4>4
      <4> QED BY <1>0, <2>1, <2>3, <3>1, <4>1, <4>2, <4>5 DEF Uncategorized, v
    <3> QED BY <3>4, <3>5
  <2> QED BY <2>2, <2>3
<1>5. CASE CategoriesFail
  <2>1. part' = {} /\ todo' = todo /\ live' = live
    BY <1>5, FailFacts DEF CategoriesFail, Quiet, ConfinedInv, Undisturbed
  <2> QED BY <1>0, <1>2, <2>1 DEF Uncategorized
<1> QED BY <1>3, <1>4, <1>5

(* Tags are removed. *)
LEMMA TrackTags ==
    ASSUME Quiet, NEW h \in Hashes, Track(h),
           \/ ReadLabels \/ LabelsWritten \/ TagsFail
           \/ \E g \in Hashes : WriteLabels(g)
    PROVE  Track(h)'
<1> DEFINE v == view.torrents[h]
<1>0. /\ live \in Torrents /\ labels \in [Hashes -> (SUBSET Tags) \cup {None}]
      /\ view'.torrents[h] = v /\ UNCHANGED TagDeletes /\ UNCHANGED Kept(h)
      /\ part \subseteq todo
  BY PlanKept, AimsKept DEF Quiet, ConfinedInv, Types, TypeOK, Torrents, Planned
<1>1. pc = "tags" /\ pc' = "tags"
  BY DEF ReadLabels, LabelsWritten, TagsFail, WriteLabels
<1>2. Untagged(h) BY <1>1 DEF Track
<1> SUFFICES Untagged(h)'
  BY <1>1 DEF Track
<1>k. v # None => Kept(h).tags = v.tags \ TagDeletes BY KeptFields DEF Quiet
<1>3. CASE ReadLabels
  <2>1. /\ live' = live /\ todo' = todo
        /\ labels' = [g \in Hashes |-> IF live[g] = None THEN None ELSE live[g].tags]
    BY <1>3 DEF ReadLabels
  <2>2. live[h] # None => labels'[h] # None
    <3>1. live[h] # None => live[h].tags \in SUBSET Tags BY <1>0, TorrentFields DEF Torrents
    <3> QED BY <2>1, <3>1, NoneAssumption
  <2> QED BY <1>0, <1>2, <2>1, <2>2 DEF Untagged
<1>4. CASE LabelsWritten
  <2>1. /\ live' = live /\ todo' = todo \ part /\ part' = {} /\ labels[h] = None
    BY <1>4 DEF LabelsWritten, PartDone, Unwritten
  <2>2. CASE v = None BY <1>0, <1>2, <2>1, <2>2 DEF Untagged
  <2>3. CASE v # None
    <3>1. /\ live[h].tags \subseteq v.tags \ (TagDeletes \ todo) /\ live[h].tags \cap part = {}
      BY <1>2, <2>1, <2>3 DEF Untagged
    <3>2. live[h].tags \subseteq v.tags \ (TagDeletes \ todo') BY <2>1, <3>1
    <3> QED BY <1>0, <1>2, <2>1, <2>3, <3>2 DEF Untagged
  <2> QED BY <2>2, <2>3
<1>5. CASE TagsFail
  <2>1. part' = {} /\ todo' = todo /\ live' = live
    BY <1>5, FailFacts DEF TagsFail, Quiet, ConfinedInv, Undisturbed
  <2> QED BY <1>0, <1>2, <2>1 DEF Untagged
<1>6. ASSUME NEW g \in Hashes, WriteLabels(g) PROVE Untagged(h)'
  <2>1. /\ todo' = todo /\ part' = part /\ labels[g] # None
        /\ live' = IF live[g] = None THEN live ELSE [live EXCEPT ![g].tags = labels[g] \ part]
        /\ labels' = [labels EXCEPT ![g] = None]
    BY <1>6 DEF WriteLabels, Unwritten
  <2>2. CASE g # h \/ v = None
    <3>1. v = None => live[h] = None BY <1>2 DEF Untagged
    <3>2. live'[h] = live[h] BY <1>0, <2>1, <2>2, <3>1 DEF Torrents
    <3>3. g # h => labels'[h] = labels[h] BY <1>0, <2>1
    <3> QED BY <1>0, <1>2, <2>1, <2>2, <3>2, <3>3 DEF Untagged
  <2>3. CASE g = h /\ v # None
    <3>1. /\ live[h] # None /\ live[h].cat = Kept(h).cat /\ Kept(h).tags \subseteq live[h].tags
          /\ live[h].tags \subseteq v.tags \ (TagDeletes \ todo)
      BY <1>2, <2>3 DEF Untagged
    <3>2. labels[h] = live[h].tags
      BY <1>1, <2>1, <2>3 DEF Quiet, ConfinedInv, Looked, Undisturbed
    <3>3. live[h] \in Torrent /\ live[h].tags \ part \in SUBSET Tags
      BY <1>0, <3>1, TorrentFields DEF Torrents
    <3>4. live'[h] = [live[h] EXCEPT !.tags = live[h].tags \ part]
      BY <1>0, <2>1, <2>3, <3>1, <3>2 DEF Torrents
    <3>5. /\ live'[h] \in Torrent /\ live'[h].cat = live[h].cat /\ live'[h].tags = live[h].tags \ part
      BY <3>3, <3>4, WithTags
    <3>6. part \subseteq TagDeletes BY <1>0, <1>1 DEF Quiet, ConfinedInv, Planned
    <3> HIDE DEF v
    <3>7. /\ live'[h] # None /\ live'[h].cat = Kept(h).cat /\ Kept(h).tags \subseteq live'[h].tags
          /\ live'[h].tags \subseteq v.tags \ (TagDeletes \ todo) /\ live'[h].tags \cap part = {}
      BY <1>k, <2>3, <3>1, <3>5, <3>6, TorrentFields
    <3> QED BY <1>0, <2>1, <2>3, <3>7 DEF Untagged, v
  <2> QED BY <2>2, <2>3
<1> QED BY <1>3, <1>4, <1>5, <1>6

(* Torrents are added. *)
LEMMA TrackAdds ==
    ASSUME Quiet, NEW h \in Hashes, Track(h), NEW g \in Hashes,
           AddTorrent(g) \/ AddFails(g) \/ AddCategory(g) \/ AddTags(g)
    PROVE  Track(h)'
<1>1. OneTorrent(g) /\ g \in TorrentAdds /\ InSnap(g) BY AddFacts DEF Quiet
<1>2. /\ pc \in {"add", "add category", "add tags"} /\ pc' \in {"add", "add category", "add tags"}
      /\ part \in {{}, {g}} /\ part' \in {{}, {g}} /\ todo' \in {todo, todo \ {g}}
      /\ UNCHANGED <<Kept(h), Added(h)>>
  <2>1. pc \in {"add", "add category", "add tags"}
    BY DEF AddTorrent, AddFails, AddCategory, AddTags
  <2>2. part \in {{}, {g}} BY DEF AddTorrent, AddFails, AddCategory, AddTags, Made
  <2> QED BY <1>1, <2>1, <2>2, AimsKept DEF OneTorrent, Quiet
<1>3. live[h] = IF h \in todo \ part THEN Kept(h) ELSE Added(h) BY <1>2 DEF Track
<1> SUFFICES live'[h] = IF h \in todo' \ part' THEN Kept(h) ELSE Added(h)
  BY <1>2 DEF Track
<1>4. CASE g # h
  <2>1. live'[h] = live[h] BY <1>1, <1>4 DEF OneTorrent
  <2>2. h \in todo' \ part' <=> h \in todo \ part BY <1>2, <1>4
  <2> QED BY <1>3, <2>1, <2>2
<1>5. CASE g = h
  <2>0. live \in Torrents /\ Types BY DEF Quiet, ConfinedInv, Types, TypeOK, Torrents
  <2>1. Added(h) = snap.items[h] /\ snap.items[h] \in Torrent /\ Kept(h) = None
    <3>1. view.torrents[h] = None BY <1>1, <1>5 DEF TorrentAdds, InView
    <3> QED BY <1>1, <1>5, <2>0, <3>1 DEF Added, Types, Torrents, InSnap, Kept, Pruned
  <2>2. CASE AddTorrent(g)
    <3>1. h \in todo /\ part = {} /\ part' = {h} BY <1>5, <2>2 DEF AddTorrent
    <3>2. live[h] = None BY <1>3, <2>1, <3>1
    <3>3. live'[h] = snap.items[h] BY <1>5, <2>0, <2>2, <3>2 DEF AddTorrent, Torrents
    <3> QED BY <2>1, <3>1, <3>3
  <2>3. CASE AddFails(g) BY <2>3 DEF AddFails, Quiet, Undisturbed
  <2>4. CASE AddCategory(g) \/ AddTags(g)
    <3>1. /\ part = {h} /\ (part' = {h} \/ todo' = todo \ {h})
          /\ live' = live \/ SetCategory(h) \/ SetTags(h)
      BY <1>5, <2>4 DEF AddCategory, AddTags, Made
    <3>2. live[h] = snap.items[h] BY <1>3, <2>1, <3>1
    <3>3. live'[h] = snap.items[h]
      <4>1. CASE live' = live BY <3>2, <4>1
      <4>2. CASE SetCategory(h) \/ SetTags(h)
        <5>1. live[h] # None BY <2>1, <3>2, TorrentFields
        <5>2. /\ live'[h] \in Torrent /\ live'[h].cat = snap.items[h].cat
              /\ live'[h].tags = snap.items[h].tags
          BY <1>1, <1>5, <2>0, <3>2, <4>2, <5>1, SetFacts
        <5> QED BY <2>1, <5>2, SameTorrent
      <4> QED BY <3>1, <4>1, <4>2
    <3> QED BY <2>1, <3>1, <3>3
  <2> QED BY <2>2, <2>3, <2>4
<1> QED BY <1>4, <1>5

(* Torrents are updated: what differed is set, and what did not was left by *)
(* the removals as it is in the snapshot.                                   *)
LEMMA TrackUpdates ==
    ASSUME Quiet, NEW h \in Hashes, Track(h), NEW g \in Hashes,
           UpdateTorrent(g) \/ UpdateCategory(g) \/ UpdateTags(g)
    PROVE  Track(h)'
<1>1. OneTorrent(g) /\ g \in TorrentUpdates /\ InSnap(g) BY UpdateFacts DEF Quiet
<1>2. /\ pc \in {"update", "update category", "update tags"}
      /\ pc' \in {"update", "update category", "update tags"}
      /\ part \in {{}, {g}} /\ part' \in {{}, {g}} /\ todo' \in {todo, todo \ {g}} /\ g \in todo
      /\ UNCHANGED <<Kept(h), Added(h), TorrentUpdates>> /\ snap'.items[h] = snap.items[h]
  <2>1. pc \in {"update", "update category", "update tags"}
    BY DEF UpdateTorrent, UpdateCategory, UpdateTags
  <2>2. part \in {{}, {g}} BY DEF UpdateTorrent, UpdateCategory, UpdateTags, Made
  <2> QED BY <1>1, <2>1, <2>2, AimsKept, PlanKept DEF OneTorrent, Quiet, request
<1>3. Updating(h) BY <1>2 DEF Track
<1> SUFFICES Updating(h)'
  BY <1>2 DEF Track
<1>4. CASE g # h
  <2>1. live'[h] = live[h] BY <1>1, <1>4 DEF OneTorrent
  <2>2. (h \in todo' <=> h \in todo) /\ h \notin part /\ h \notin part' BY <1>2, <1>4
  <2> QED BY <1>2, <1>3, <2>1, <2>2 DEF Updating
<1>5. CASE g = h
  <2> DEFINE v == view.torrents[h]
  <2>0. live \in Torrents /\ Types BY DEF Quiet, ConfinedInv, Types, TypeOK, Torrents
  <2>1. /\ h \in TorrentUpdates /\ h \in todo /\ live[h] # None /\ live[h].tags = Kept(h).tags
        /\ live[h].cat = IF h \in part /\ pc = "update tags" THEN snap.items[h].cat ELSE Kept(h).cat
    BY <1>1, <1>2, <1>3, <1>5 DEF Updating
  <2>2. v # None BY <2>1 DEF TorrentUpdates, InView
  <2>3. /\ Kept(h).cat = IF v.cat \in CategoryDeletes THEN NoCategory ELSE v.cat
        /\ Kept(h).tags = v.tags \ TagDeletes
    BY <2>2, KeptFields DEF Quiet
  <2>4. /\ snap.items[h] \in Torrent /\ snap.items[h].cat \notin CategoryDeletes
        /\ snap.items[h].tags \cap TagDeletes = {}
    BY <1>1, <1>5, SnapNames DEF Quiet
  <2>5. CASE UpdateTorrent(g)
    <3>1. pc = "update" /\ pc' = "update category" /\ todo' = todo /\ live' = live
      BY <2>5 DEF UpdateTorrent
    <3> QED BY <1>2, <2>1, <3>1 DEF Updating
  <2>6. CASE UpdateCategory(g)
    <3>1. /\ pc = "update category" /\ pc' = "update tags" /\ todo' = todo /\ part' = {h}
          /\ SetCategory(h) \/ (live' = live /\ snap.items[h].cat = v.cat)
      BY <1>5, <2>6 DEF UpdateCategory, Made, Quiet, Undisturbed
    <3>2. live'[h] # None /\ live'[h].tags = live[h].tags /\ live'[h].cat = snap.items[h].cat
      <4>1. CASE SetCategory(h)
        BY <1>1, <1>5, <2>0, <2>1, <4>1, SetFacts, TorrentFields
      <4>2. CASE live' = live /\ snap.items[h].cat = v.cat
        <5>1. Kept(h).cat = snap.items[h].cat BY <2>3, <2>4, <4>2
        <5> QED BY <2>1, <3>1, <4>2, <5>1
      <4> QED BY <3>1, <4>1, <4>2
    <3> QED BY <1>2, <2>1, <3>1, <3>2 DEF Updating
  <2>7. CASE UpdateTags(g)
    <3>1. /\ pc = "update tags" /\ todo' = todo \ {h} /\ part = {h}
          /\ SetTags(h) \/ (live' = live /\ snap.items[h].tags = v.tags)
      BY <1>5, <2>7 DEF UpdateTags, Made, Quiet, Undisturbed
    <3>2. live[h].cat = snap.items[h].cat BY <2>1, <3>1
    <3>3. live'[h] = snap.items[h]
      <4>1. CASE SetTags(h)
        <5>1. /\ live'[h] \in Torrent /\ live'[h].tags = snap.items[h].tags
              /\ live'[h].cat = snap.items[h].cat
          BY <1>1, <1>5, <2>0, <2>1, <3>2, <4>1, SetFacts
        <5> QED BY <2>4, <5>1, SameTorrent
      <4>2. CASE live' = live /\ snap.items[h].tags = v.tags
        <5>1. live[h].tags = snap.items[h].tags BY <2>1, <2>3, <2>4, <4>2
        <5>2. live[h] \in Torrent BY <2>0, <2>1 DEF Torrents
        <5> QED BY <2>4, <3>2, <4>2, <5>1, <5>2, SameTorrent
      <4> QED BY <3>1, <4>1, <4>2
    <3> QED BY <1>2, <2>1, <3>1, <3>3 DEF Updating
  <2> QED BY <2>5, <2>6, <2>7
<1> QED BY <1>4, <1>5

(* Torrents are deleted. *)
LEMMA TrackDeletes ==
    ASSUME Quiet, NEW h \in Hashes, Track(h), DeleteTorrents PROVE Track(h)'
<1>0. UNCHANGED TorrentDeletes /\ UNCHANGED Updated(h) /\ Types
  BY PlanKept, AimsKept DEF Quiet, ConfinedInv
<1>1. pc = "delete" /\ pc' = "delete" BY DEF DeleteTorrents
<1>2. /\ live[h] = IF h \in TorrentDeletes \ todo THEN None ELSE Updated(h)
      /\ todo \subseteq TorrentDeletes
  BY <1>1 DEF Track, Quiet, ConfinedInv, Planned
<1>3. PICK p \in Parts :
        \/ /\ live' = [g \in Hashes |-> IF g \in p THEN None ELSE live[g]]
           /\ PartDone(p)
        \/ PartFails(p) /\ UNCHANGED live
  BY DEF DeleteTorrents
<1>4. p \subseteq todo BY <1>0, PartsFacts
<1>5. live'[h] = IF h \in TorrentDeletes \ todo' THEN None ELSE Updated(h)
  <2>1. CASE /\ live' = [g \in Hashes |-> IF g \in p THEN None ELSE live[g]]
             /\ PartDone(p)
    <3>1. todo' = todo \ p BY <2>1 DEF PartDone
    <3>2. live'[h] = IF h \in p THEN None ELSE live[h] BY <2>1
    <3> QED BY <1>2, <1>4, <3>1, <3>2
  <2>2. CASE PartFails(p) /\ UNCHANGED live
    <3>1. todo' = todo BY <1>0, <2>2, FailFacts DEF Quiet, Undisturbed
    <3> QED BY <1>2, <2>2, <3>1
  <2> QED BY <1>3, <2>1, <2>2
<1> QED BY <1>0, <1>1, <1>5 DEF Track

LEMMA ConvergeInit == Init => ConvergeInv
<1> SUFFICES ASSUME Init PROVE ConvergeInv
  OBVIOUS
<1>1. SnapTags
  <2>1. PICK ts \in Torrents, c \in BOOLEAN, g \in BOOLEAN : snap = Snapshot(ts, c, g)
    BY DEF Init, Torrents
  <2> QED BY <2>1, SnapshotFacts DEF SnapTags, InSnap
<1>2. Viewed BY DEF Init, Viewed, Reading
<1>3. OnTrack BY DEF Init, OnTrack, Track
<1> QED BY <1>1, <1>2, <1>3, ConfinedInit DEF ConvergeInv

LEMMA ConvergeStep == ConvergeInv /\ [Next]_vars => ConvergeInv'
<1> SUFFICES ASSUME ConvergeInv, [Next]_vars PROVE ConvergeInv'
  OBVIOUS
<1>0. ConfinedInv /\ SnapTags /\ Viewed /\ OnTrack BY DEF ConvergeInv
<1>1. ConfinedInv' BY <1>0, ConfinedStep
<1>2. SnapTags'
  <2>1. UNCHANGED snap BY <1>0, Steady DEF request
  <2> QED BY <1>0, <2>1 DEF SnapTags, InSnap
<1>3. Viewed' BY <1>0, ViewedStep
<1>4. OnTrack'
  <2> SUFFICES ASSUME Undisturbed', NEW h \in Hashes PROVE Track(h)'
    BY DEF OnTrack
  <2>1. Undisturbed /\ ~Elsewhere /\ UNCHANGED <<request, changes>> BY <1>0, StillUndisturbed
  <2>2. Track(h) BY <1>0, <2>1 DEF OnTrack
  <2>3. CASE ReadCategories \/ ReadTags \/ PlanFails
    <3>1. pc' \in {"read tags", "read torrents", "failed"}
      BY <2>3 DEF ReadCategories, ReadTags, PlanFails, Step
    <3> QED BY <3>1 DEF Track
  <2>4. CASE ReadTorrents
    <3>1. pc' = "plan" /\ live' = live BY <2>4 DEF ReadTorrents, Step
    <3>2. view'.torrents = live BY <1>0, <2>4 DEF ReadTorrents, ConfinedInv, Types
    <3> QED BY <3>1, <3>2 DEF Track
  <2>5. CASE Executes
    <3>1. Quiet BY <1>0, <2>1, <2>5, ExecutesFacts DEF Quiet
    <3> QED BY <2>2, <2>5, <3>1, TrackTurns, TrackCategories, TrackTags, TrackAdds, TrackUpdates,
               TrackDeletes DEF Executes
  <2>6. CASE UNCHANGED vars
    <3>1. /\ UNCHANGED <<live, pc, todo, part, labels>> /\ view'.torrents[h] = view.torrents[h]
          /\ snap'.items[h] = snap.items[h]
          /\ UNCHANGED <<CategoryDeletes, TagDeletes, TorrentAdds, TorrentUpdates, TorrentDeletes>>
          /\ UNCHANGED <<Kept(h), Added(h), Updated(h), Desired(h)>>
      BY <2>6, PlanKept, AimsKept DEF vars, request
    <3>2. /\ Uncategorized(h)' = Uncategorized(h) /\ Untagged(h)' = Untagged(h)
          /\ Updating(h)' = Updating(h)
      BY <3>1 DEF Uncategorized, Untagged, Updating
    <3> QED BY <2>2, <3>1, <3>2 DEF Track
  <2> QED BY <2>1, <2>3, <2>4, <2>5, <2>6 DEF Next, Executes
<1> QED BY <1>1, <1>2, <1>3, <1>4 DEF ConvergeInv

(* For any torrents, categories and tags: a restore that nobody disturbs    *)
(* and that ends without an error leaves every torrent as its mode          *)
(* promises, for whatever is excluded and in whatever order names and       *)
(* torrents are dealt with, at once or one by one.                          *)
THEOREM RestoreConverges == Spec => []Converges
<1>1. ConvergeInv => Converges
  BY DEF ConvergeInv, OnTrack, Track, Undisturbed, Converges
<1> QED BY <1>1, ConvergeInit, ConvergeStep, PTL DEF Spec
=============================================================================
