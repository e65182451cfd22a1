---------------------------- MODULE CubeImport ----------------------------
(***************************************************************************)
(* Importing a cached CubeCobra cube as a card list.  Each cached cube     *)
(* remembers on its own row which list it was imported to.  An import      *)
(* reads the cache, creates a list, fills it and writes the row, each with *)
(* a commit of its own, while other imports, the user, the discovery sync  *)
(* and the full scrape change what it has read.                            *)
(*                                                                         *)
(* The sync and the scrape run in the one worker process, as does the      *)
(* bulk import (the importer Worker); the other importers are requests.    *)
(***************************************************************************)
EXTENDS Naturals, FiniteSets

CONSTANTS
    Cubes,      \* cubes of CubeCobra, by external_id
    Name,       \* the display name of each
    Importers,  \* calls of import_popular_cube that may overlap
    Worker,     \* the importer that is the bulk-import job
    MaxLists,   \* bound: lists ever created
    None

ASSUME NoneOK == None \notin Cubes /\ None \notin Nat
ASSUME WorkerOK == Worker \in Importers
ASSUME MaxListsOK == MaxLists \in Nat

VARIABLES
    rows,      \* popular_cubes: imported_list_id and whether import_error is set
    lists,     \* card_lists: the name, and the cube whose cards are in it
    made,      \* lists created so far
    importer,  \* importer[a]: where an import stands
    sync,      \* where the discovery sync stands, and its snapshot
    left,      \* history: lists left untracked by a crash, an exception, a sync or
               \* a second import of the same cube
    dropped    \* history: cubes a sync removed from the cache

vars == <<rows, lists, made, importer, sync, left, dropped>>

ListIds == 1..MaxLists
Maybe(S) == S \cup {None}
Titles == {<<Name[k]>> : k \in Cubes} \cup {<<Name[k], k>> : k \in Cubes}
Row == [list : Maybe(ListIds), failed : BOOLEAN]
List == [name : Titles, of : Maybe(Cubes)]
Partial(S, T) == UNION {[D -> T] : D \in SUBSET S}

Importer ==
    [pc : {"idle", "adopting", "discarding", "creating", "filling", "tracking",
           "cleaning", "recording"},
     cube : Maybe(Cubes), name : Titles \cup {<<>>},
     list : Maybe(ListIds),   \* the list it works on
     lost : BOOLEAN]          \* its row is gone: a sync gave the cube a new id
Resting == [pc |-> "idle", cube |-> None, name |-> <<>>, list |-> None, lost |-> FALSE]

Cached == DOMAIN rows
Existing == DOMAIN lists
Busy(a) == importer[a].pc # "idle"
Tracking(l) == {k \in Cached : rows[k].list = l}
New == [list |-> None, failed |-> FALSE]

Init ==
    /\ \E S \in SUBSET Cubes : rows = [k \in S |-> New]
    /\ lists = <<>> /\ made = 0
    /\ importer = [a \in Importers |-> Resting]
    /\ sync = [pc |-> "idle", kept |-> <<>>]
    /\ left = {} /\ dropped = {}

Step(a, pc) == importer' = [importer EXCEPT ![a].pc = pc]
Finish(a) == importer' = [importer EXCEPT ![a] = Resting]

(* delete_list: the items go along, and the cubes that track it forget it. *)
Delete(l) ==
    /\ lists' = [m \in Existing \ {l} |-> lists[m]]
    /\ rows' = [k \in Cached |->
                   IF rows[k].list = l THEN [rows[k] EXCEPT !.list = None] ELSE rows[k]]
    /\ left' = left \ {l}

(* An exception leaves import_popular_cube: nothing tracks its list. *)
Raise(a) ==
    /\ Finish(a)
    /\ left' = left \cup (Existing \cap {importer[a].list})
    /\ UNCHANGED <<rows, lists, made, sync, dropped>>

-----------------------------------------------------------------------------
(* One import *)

(* Broken variant: a same-named list is always taken for this cube's. *)
Unchecked(k) == FALSE

(* name_is_ambiguous *)
Ambiguous(k) == \E other \in Cached \ {k} : Name[other] = Name[k]

(* has_items *)
WhatToDo(l) == IF lists[l].of # None THEN "adopting" ELSE "discarding"

(* The reads that decide what to do.  A cube that tracks a list is left    *)
(* alone.                                                                  *)
Begin(a, k) ==
    /\ ~Busy(a)
    /\ a = Worker => sync.pc = "idle"
    /\ k \in Cached /\ rows[k].list = None
    /\ LET plain == <<Name[k]>>
           found == {l \in Existing : lists[l].name = plain}
           To(pc, title, l) ==
               importer' = [importer EXCEPT ![a] =
                   [pc |-> pc, cube |-> k, name |-> title, list |-> l, lost |-> FALSE]]
       IN  IF Ambiguous(k) THEN To("creating", <<Name[k], k>>, None)
           ELSE IF found = {} THEN To("creating", plain, None)
           ELSE \E l \in found : To(WhatToDo(l), plain, l)
    /\ UNCHANGED <<rows, lists, made, sync, left, dropped>>

(* Broken variant: no foreign key from the cube to its list.               *)
StorableAnyway(a) == ~importer[a].lost

(* cube.imported_list_id = ...: the row and the list must still be there.  *)
(* It may replace what another import of the same cube has just written.   *)
Storable(a) == ~importer[a].lost /\ importer[a].list \in Existing
Store(a) ==
    IF Storable(a)
    THEN /\ rows' = [rows EXCEPT ![importer[a].cube] =
                        [list |-> importer[a].list, failed |-> FALSE]]
         /\ left' = left \cup ({rows[importer[a].cube].list} \ {None, importer[a].list})
         /\ Finish(a)
         /\ UNCHANGED <<lists, made, sync, dropped>>
    ELSE Raise(a)

Adopt(a) == importer[a].pc = "adopting" /\ Store(a)

(* The same-named list was empty when it was read.  A DELETE that finds no *)
(* row is only a warning.                                                  *)
Discard(a) ==
    /\ importer[a].pc = "discarding"
    /\ Delete(importer[a].list)
    /\ importer' = [importer EXCEPT ![a].pc = "creating", ![a].list = None]
    /\ UNCHANGED <<made, sync, dropped>>

(* create_list commits an empty list, or fails on the unique name. *)
Create(a) ==
    /\ importer[a].pc = "creating"
    /\ IF \E l \in Existing : lists[l].name = importer[a].name
       THEN Step(a, "recording") /\ UNCHANGED <<lists, made>>
       ELSE /\ made < MaxLists
            /\ made' = made + 1
            /\ lists' = [l \in Existing \cup {made'} |->
                   IF l = made' THEN [name |-> importer[a].name, of |-> None] ELSE lists[l]]
            /\ importer' = [importer EXCEPT ![a].pc = "filling", ![a].list = made']
    /\ UNCHANGED <<rows, sync, left, dropped>>

(* create_preview_from_url and confirm_import: the rows are in the list. *)
Fill(a) ==
    /\ importer[a].pc = "filling" /\ importer[a].list \in Existing
    /\ lists' = [lists EXCEPT ![importer[a].list].of = importer[a].cube]
    /\ Step(a, "tracking")
    /\ UNCHANGED <<rows, made, sync, left, dropped>>

(* The fetch, the preview or the confirm fails, as it must when the list   *)
(* is gone.                                                                *)
Fail(a) ==
    /\ importer[a].pc = "filling"
    /\ Step(a, "cleaning")
    /\ UNCHANGED <<rows, lists, made, sync, left, dropped>>

Track(a) == importer[a].pc = "tracking" /\ Store(a)

(* Broken variant: the empty list stays when the import fails. *)
NoCleanup(a) ==
    /\ importer[a].pc = "cleaning"
    /\ importer' = [importer EXCEPT ![a].pc = "recording", ![a].list = None]
    /\ UNCHANGED <<rows, lists, made, sync, left, dropped>>

(* Broken variant: the clean-up looks the list up by name. *)
CleanupByName(a) ==
    /\ importer[a].pc = "cleaning"
    /\ \E l \in Existing :
          /\ lists[l].name[1] = importer[a].name[1]
          /\ Delete(l)
          /\ importer' = [importer EXCEPT ![a].pc = "recording", ![a].list = None]
    /\ UNCHANGED <<made, sync, dropped>>

(* After the rollback the list is read again before it is deleted, which   *)
(* raises when it is gone.                                                 *)
Cleanup(a) ==
    /\ importer[a].pc = "cleaning"
    /\ IF importer[a].list \in Existing
       THEN /\ Delete(importer[a].list)
            /\ importer' = [importer EXCEPT ![a].pc = "recording", ![a].list = None]
            /\ UNCHANGED <<made, sync, dropped>>
       ELSE Raise(a)

(* import_error, on a row that may be gone. *)
Record(a) ==
    /\ importer[a].pc = "recording"
    /\ IF importer[a].lost
       THEN Raise(a)
       ELSE /\ rows' = [rows EXCEPT ![importer[a].cube].failed = TRUE]
            /\ Finish(a)
            /\ UNCHANGED <<lists, made, sync, left, dropped>>

(* The process is killed. *)
Crash(a) == Busy(a) /\ Raise(a)

-----------------------------------------------------------------------------
(* The worker's jobs and the user *)

WorkerFree == sync.pc = "idle" /\ ~Busy(Worker)

(* preserved_import_state *)
SyncSnapshot ==
    /\ WorkerFree
    /\ sync' = [pc |-> "snapshot", kept |-> rows]
    /\ UNCHANGED <<rows, lists, made, importer, left, dropped>>

(* The cubes found replace the table; what the snapshot knew is written    *)
(* back.                                                                   *)
Replace(found, kept) ==
    [k \in found |-> IF k \in DOMAIN kept THEN kept[k] ELSE New]

SyncCommit ==
    /\ sync.pc = "snapshot"
    /\ \E found \in SUBSET Cubes :
          LET fresh == Replace(found, sync.kept)
              Kept == {fresh[k].list : k \in found} \ {None}
          IN  /\ Kept \subseteq Existing
              /\ rows' = fresh
              /\ left' = left \cup ({rows[k].list : k \in Cached} \ (Kept \cup {None}))
              /\ dropped' = dropped \cup (Cached \ found)
    /\ importer' = [a \in Importers |->
                       IF Busy(a) THEN [importer[a] EXCEPT !.lost = TRUE] ELSE importer[a]]
    /\ sync' = [pc |-> "idle", kept |-> <<>>]
    /\ UNCHANGED <<lists, made>>

(* Any failure rolls back: also a kept list that is gone by now. *)
SyncFails ==
    /\ sync.pc = "snapshot"
    /\ sync' = [pc |-> "idle", kept |-> <<>>]
    /\ UNCHANGED <<rows, lists, made, importer, left, dropped>>

(* A page of the full scrape: cubes already cached keep their tracking.    *)
ScrapePage ==
    /\ WorkerFree
    /\ \E k \in Cubes \ Cached : rows' = [m \in Cached \cup {k} |-> IF m = k THEN New ELSE rows[m]]
    /\ UNCHANGED <<lists, made, importer, sync, left, dropped>>

UserDeletes ==
    /\ \E l \in Existing : Delete(l)
    /\ UNCHANGED <<made, importer, sync, dropped>>

Import(a) ==
    \/ \E k \in Cubes : Begin(a, k)
    \/ Adopt(a) \/ Discard(a) \/ Create(a) \/ Fill(a) \/ Fail(a)
    \/ Track(a) \/ Cleanup(a) \/ Record(a) \/ Crash(a)

Next ==
    \/ \E a \in Importers : Import(a)
    \/ SyncSnapshot \/ SyncCommit \/ SyncFails \/ ScrapePage \/ UserDeletes

Spec == Init /\ [][Next]_vars

-----------------------------------------------------------------------------
(* Properties *)

(* Every variable has its type, ids are not reused, no two lists have the  *)
(* same name, a tracked list exists (the foreign key), and an importer     *)
(* whose row is not lost works on a cached cube.                           *)
TypeOK ==
    /\ rows \in Partial(Cubes, Row)
    /\ lists \in Partial(ListIds, List)
    /\ made \in 0..MaxLists /\ Existing \subseteq 1..made
    /\ importer \in [Importers -> Importer]
    /\ sync \in [pc : {"idle", "snapshot"}, kept : Partial(Cubes, Row)]
    /\ left \subseteq ListIds /\ dropped \subseteq Cubes
    /\ \A l, m \in Existing : lists[l].name = lists[m].name => l = m
    /\ \A k \in Cached : rows[k].list \in Maybe(Existing)
    /\ \A a \in Importers : Busy(a) /\ ~importer[a].lost => importer[a].cube \in Cached

(* An imported cube leads to a list of its own cards: never to the empty   *)
(* list of an import under way or failed, never to the list another cube   *)
(* leads to, whatever lists other imports discard and clean up; and to the *)
(* cards of another cube only when a sync had removed that other one from  *)
(* the cache, and its list with it from sight.                             *)
TrackedIsItsOwn ==
    \A k \in Cached : rows[k].list # None =>
        /\ lists[rows[k].list].of \in {k} \cup dropped
        /\ Tracking(rows[k].list) = {k}

(* No list is left behind: each one is tracked, in the hands of an import, *)
(* or was abandoned by a crash, by an exception the import does not catch, *)
(* by a sync, or by a second import of the same cube at the same time.     *)
NothingLeftBehind ==
    \A l \in Existing :
        \/ Tracking(l) # {}
        \/ \E a \in Importers : importer[a].list = l
        \/ l \in left

(* No import deletes the list another cube is imported to, unless a sync   *)
(* has taken its own row away after it decided.                            *)
DeletesOnlyItsOwn ==
    [][\A a \in Importers : \A l \in Existing \ DOMAIN lists' :
          importer'[a] # importer[a] /\ ~importer[a].lost =>
              Tracking(l) \subseteq {importer[a].cube}]_vars
=============================================================================
