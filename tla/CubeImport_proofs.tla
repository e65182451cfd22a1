------------------------- MODULE CubeImport_proofs -------------------------
(***************************************************************************)
(* Proofs about CubeImport, for any cubes, names and importers.            *)
(*                                                                         *)
(* That a cube leads to a list of its own rests on the names.  An importer *)
(* whose row is not lost has a name that no importer of another cube has   *)
(* (NamesApart), what it holds goes by that name (HeldRight), and a list   *)
(* by the name of the cube whose cards are in it, which is in the cache    *)
(* unless a sync dropped it (ListsRight).  The sync's snapshot stays right *)
(* as long as the lists in it exist (KeptRight).                           *)
(***************************************************************************)
EXTENDS CubeImport, TLAPS

NamesOf(k) == {<<Name[k]>>, <<Name[k], k>>}

ImportersRight ==
    \A a \in Importers :
        /\ Busy(a) => /\ importer[a].cube \in Cached \cup dropped
                      /\ importer[a].cube \in Cubes
                      /\ importer[a].name \in NamesOf(importer[a].cube)
        /\ importer[a].pc \in {"idle", "creating", "recording"}
              => importer[a].list = None
        /\ importer[a].pc \notin {"idle", "creating", "recording"}
              => importer[a].list \in 1..made

HeldRight ==
    \A a \in Importers : importer[a].list \in Existing =>
        LET l == importer[a].list IN
        /\ lists[l].name = importer[a].name
        /\ importer[a].pc \in {"filling", "cleaning"} => lists[l].of = None
        /\ importer[a].pc = "tracking" => lists[l].of = importer[a].cube
        /\ importer[a].pc = "adopting" => lists[l].of \in {importer[a].cube} \cup dropped
        /\ ~importer[a].lost => Tracking(l) \subseteq {importer[a].cube}

MakersApart ==
    \A a, b \in Importers :
        /\ importer[a].pc \in {"filling", "tracking", "cleaning"}
        /\ importer[b].pc \in {"filling", "tracking", "cleaning"}
        /\ importer[a].list = importer[b].list
        => a = b

NamesApart ==
    \A a, b \in Importers :
        /\ Busy(a) /\ ~importer[a].lost
        /\ Busy(b) /\ ~importer[b].lost
        /\ importer[a].name = importer[b].name
        => importer[a].cube = importer[b].cube

ListsRight ==
    \A l \in Existing : lists[l].of # None =>
        /\ lists[l].of \in Cached \cup dropped
        /\ lists[l].name \in NamesOf(lists[l].of)

TrackedNames ==
    \A k \in Cached : rows[k].list # None => lists[rows[k].list].name \in NamesOf(k)

KeptRight ==
    /\ \A k \in DOMAIN sync.kept : sync.kept[k].list \in Maybe(1..made)
    /\ \A k \in DOMAIN sync.kept : sync.kept[k].list \in Existing =>
          /\ lists[sync.kept[k].list].name \in NamesOf(k)
          /\ lists[sync.kept[k].list].of \in {k} \cup dropped
          /\ \A j \in DOMAIN sync.kept : sync.kept[j].list = sync.kept[k].list => j = k

IInv ==
    /\ TypeOK /\ TrackedIsItsOwn /\ NothingLeftBehind
    /\ ImportersRight /\ HeldRight /\ MakersApart /\ NamesApart
    /\ ListsRight /\ TrackedNames /\ KeptRight

-----------------------------------------------------------------------------
LEMMA PartialIs ==
    ASSUME NEW S, NEW T, NEW f
    PROVE  f \in Partial(S, T) <=> /\ DOMAIN f \subseteq S
                                  /\ f \in [DOMAIN f -> T]
BY DEF Partial

(* A list's name tells the name of its cube, a disambiguated one the cube. *)
LEMMA NamesTell ==
    /\ \A j, k : <<Name[k]>> \in NamesOf(j) => Name[j] = Name[k]
    /\ \A j, k : <<Name[k], k>> \in NamesOf(j) => j = k
    /\ \A j, k : NamesOf(j) \cap NamesOf(k) # {} => Name[j] = Name[k]
BY DEF NamesOf

LEMMA TitlesAre == \A k \in Cubes : NamesOf(k) \subseteq Titles
BY DEF NamesOf, Titles

LEMMA ListsAre == TypeOK => Existing \subseteq ListIds /\ None \notin ListIds
BY NoneOK, MaxListsOK DEF TypeOK, ListIds

(* What a step may do to an importer that takes hold of nothing new.       *)
LetsGo(a) ==
    \/ importer'[a] = importer[a]
    \/ importer'[a] = Resting
    \/ /\ Busy(a)
       /\ importer'[a] = [importer[a] EXCEPT !.pc = "recording", !.list = None]
    \/ /\ Busy(a)
       /\ importer'[a] = [importer[a] EXCEPT !.pc = "creating", !.list = None]
    \/ /\ importer[a].pc = "filling"
       /\ importer'[a] = [importer[a] EXCEPT !.pc = "cleaning"]

LEMMA LetsGoFields ==
    ASSUME TypeOK, ImportersRight, NEW a \in Importers, LetsGo(a)
    PROVE  /\ importer'[a] \in Importer
           /\ importer'[a].list \in {importer[a].list, None}
           /\ \/ importer'[a] = Resting
              \/ /\ importer'[a].cube = importer[a].cube
                 /\ importer'[a].name = importer[a].name
                 /\ importer'[a].lost = importer[a].lost
                 /\ Busy(a) <=> importer'[a].pc # "idle"
                 /\ \/ importer'[a].pc = importer[a].pc /\ importer'[a].list = importer[a].list
                    \/ importer'[a].pc \in {"creating", "recording"} /\ importer'[a].list = None
                    \/ /\ importer[a].pc = "filling" /\ importer'[a].pc = "cleaning"
                       /\ importer'[a].list = importer[a].list
<1>1. importer[a] \in Importer
  BY DEF TypeOK
<1>2. CASE importer'[a] = importer[a]
  BY <1>1, <1>2 DEF Busy
<1>3. CASE importer'[a] = Resting
  BY <1>3 DEF Resting, Importer, Maybe
<1>4. CASE Busy(a) /\ importer'[a] = [importer[a] EXCEPT !.pc = "recording", !.list = None]
  BY <1>1, <1>4 DEF Importer, Maybe, Busy
<1>5. CASE Busy(a) /\ importer'[a] = [importer[a] EXCEPT !.pc = "creating", !.list = None]
  BY <1>1, <1>5 DEF Importer, Maybe, Busy
<1>6. CASE /\ importer[a].pc = "filling"
           /\ importer'[a] = [importer[a] EXCEPT !.pc = "cleaning"]
  BY <1>1, <1>6 DEF Importer, Maybe, Busy
<1> QED BY <1>2, <1>3, <1>4, <1>5, <1>6 DEF LetsGo

(* Importers let go, lists disappear and the cubes that tracked them       *)
(* forget them: what an importer leaves behind is in left.                 *)
LEMMA LettingGo ==
    ASSUME IInv,
           importer' \in [Importers -> Importer],
           \A a \in Importers : LetsGo(a),
           lists' = [l \in Existing' |-> lists[l]], Existing' \subseteq Existing,
           rows' \in Partial(Cubes, Row), Cached' = Cached,
           \A k \in Cached : rows'[k].list = IF rows[k].list \in Existing'
                                            THEN rows[k].list ELSE None,
           UNCHANGED <<made, dropped>>,
           sync' = sync \/ sync' = [pc |-> "idle", kept |-> <<>>],
           left' \subseteq ListIds,
           \A l \in Existing' : l \in left => l \in left',
           \A a \in Importers : importer'[a].list # importer[a].list
                                   => importer[a].list \notin Existing' \ left'
    PROVE  IInv'
<1> USE DEF IInv
<1>1. TypeOK'
  <2>1. lists' \in Partial(ListIds, List)
    <3>1. lists \in [Existing -> List] /\ Existing \subseteq ListIds
      BY PartialIs DEF TypeOK, Existing
    <3>2. lists' \in [Existing' -> List] /\ Existing' \subseteq ListIds
      BY <3>1
    <3> QED BY <3>2, PartialIs DEF Existing
  <2>2. sync' \in [pc : {"idle", "snapshot"}, kept : Partial(Cubes, Row)]
    <3>1. <<>> \in Partial(Cubes, Row)
      <4>1. DOMAIN <<>> = {} /\ <<>> \in [{} -> Row]
        OBVIOUS
      <4> QED BY <4>1, PartialIs
    <3> QED BY <3>1 DEF TypeOK
  <2>3. \A a \in Importers :
           Busy(a)' /\ ~importer'[a].lost => importer'[a].cube \in Cached'
    BY LetsGoFields DEF TypeOK, Busy, Resting
  <2>4. \A l, m \in Existing' : lists'[l].name = lists'[m].name => l = m
    BY DEF TypeOK
  <2>5. \A k \in Cached' : rows'[k].list \in Maybe(Existing')
    BY DEF Maybe
  <2> QED BY <2>1, <2>2, <2>3, <2>4, <2>5 DEF TypeOK
<1>2. ASSUME NEW l \in Existing'
      PROVE  /\ l \in Existing /\ l \in ListIds /\ l # None
             /\ lists'[l] = lists[l]
             /\ Tracking(l)' = Tracking(l)
  <2>1. l \in Existing /\ l \in ListIds /\ l # None
    BY ListsAre
  <2> QED BY <2>1 DEF Tracking
<1>3. TrackedIsItsOwn'
  <2> SUFFICES ASSUME NEW k \in Cached, NEW l, rows'[k].list = l, l # None
               PROVE  lists'[l].of \in {k} \cup dropped /\ Tracking(l)' = {k}
    BY DEF TrackedIsItsOwn
  <2>1. rows[k].list = l /\ l \in Existing'
    OBVIOUS
  <2> QED BY <1>2, <2>1 DEF TrackedIsItsOwn
<1>4. NothingLeftBehind'
  <2> SUFFICES ASSUME NEW l \in Existing', l \notin left'
               PROVE  \/ Tracking(l)' # {}
                      \/ \E a \in Importers : importer'[a].list = l
    BY DEF NothingLeftBehind
  <2>1. Tracking(l) # {} \/ \E a \in Importers : importer[a].list = l
    BY <1>2 DEF NothingLeftBehind
  <2> QED BY <1>2, <2>1
<1>5. ImportersRight'
  <2> SUFFICES ASSUME NEW a \in Importers
               PROVE  /\ importer'[a].pc # "idle" =>
                            /\ importer'[a].cube \in Cached \cup dropped
                            /\ importer'[a].cube \in Cubes
                            /\ importer'[a].name \in NamesOf(importer'[a].cube)
                      /\ importer'[a].pc \in {"idle", "creating", "recording"}
                            => importer'[a].list = None
                      /\ importer'[a].pc \notin {"idle", "creating", "recording"}
                            => importer'[a].list \in 1..made
    BY DEF ImportersRight, Busy
  <2>1. CASE importer'[a] = Resting
    BY <2>1 DEF Resting
  <2>2. CASE importer'[a] # Resting
    BY <2>2, LetsGoFields DEF ImportersRight, Busy
  <2> QED BY <2>1, <2>2
<1>6. HeldRight'
  <2> SUFFICES ASSUME NEW a \in Importers, NEW l \in Existing', importer'[a].list = l
               PROVE  /\ lists'[l].name = importer'[a].name
                      /\ importer'[a].pc \in {"filling", "cleaning"} => lists'[l].of = None
                      /\ importer'[a].pc = "tracking" => lists'[l].of = importer'[a].cube
                      /\ importer'[a].pc = "adopting"
                            => lists'[l].of \in {importer'[a].cube} \cup dropped
                      /\ ~importer'[a].lost => Tracking(l)' \subseteq {importer'[a].cube}
    BY DEF HeldRight
  <2>1. importer[a].list = l /\ importer'[a] # Resting
    BY <1>2, LetsGoFields DEF Resting
  <2> QED BY <1>2, <2>1, LetsGoFields DEF HeldRight
<1>7. MakersApart'
  BY LetsGoFields DEF MakersApart, Resting
<1>8. NamesApart'
  BY LetsGoFields DEF NamesApart, Resting, Busy
<1>9. ListsRight' /\ TrackedNames'
  BY DEF ListsRight, TrackedNames
<1>10. KeptRight'
  BY DEF KeptRight
<1> QED BY <1>1, <1>3, <1>4, <1>5, <1>6, <1>7, <1>8, <1>9, <1>10

LEMMA RestingTyped ==
    Resting \in Importer /\ Resting.pc = "idle" /\ Resting.list = None
BY DEF Resting, Importer, Maybe

(* The rows of cards and the cubes after a list is deleted. *)
LEMMA DeleteDoes ==
    ASSUME IInv, NEW l \in ListIds, Delete(l)
    PROVE  /\ lists' = [m \in Existing' |-> lists[m]]
           /\ Existing' = Existing \ {l}
           /\ rows' \in Partial(Cubes, Row) /\ Cached' = Cached
           /\ \A k \in Cached : rows'[k].list = IF rows[k].list \in Existing'
                                               THEN rows[k].list ELSE None
           /\ left' \subseteq ListIds
           /\ \A m \in Existing' : m \in left => m \in left'
<1>1. Existing' = Existing \ {l} /\ lists' = [m \in Existing' |-> lists[m]]
  BY DEF Delete, Existing
<1>2. rows \in [Cached -> Row] /\ Cached \subseteq Cubes
  BY PartialIs DEF IInv, TypeOK, Cached
<1>3. Cached' = Cached
  BY DEF Delete, Cached
<1>4. \A k \in Cached : rows'[k] = IF rows[k].list = l
                                 THEN [rows[k] EXCEPT !.list = None] ELSE rows[k]
  BY DEF Delete
<1>5. ASSUME NEW k \in Cached
      PROVE  /\ rows'[k] \in Row
             /\ rows'[k].list = IF rows[k].list \in Existing'
                                THEN rows[k].list ELSE None
  <2>1. rows[k] \in Row /\ rows[k].list \in Maybe(Existing)
    BY <1>2 DEF IInv, TypeOK
  <2>2. l # None
    BY ListsAre DEF IInv
  <2>3. CASE rows[k].list = l
    <3>1. rows'[k] = [rows[k] EXCEPT !.list = None]
      BY <1>4, <2>3
    <3> QED BY <1>1, <2>1, <2>3, <3>1 DEF Row, Maybe
  <2>4. CASE rows[k].list # l
    <3>1. rows'[k] = rows[k]
      BY <1>4, <2>4
    <3> QED BY <1>1, <2>1, <2>4, <3>1 DEF Maybe
  <2> QED BY <2>3, <2>4
<1>6. rows' \in Partial(Cubes, Row)
  <2>1. rows' \in [Cached' -> Row]
    BY <1>3, <1>5 DEF Delete
  <2> QED BY <1>2, <1>3, <2>1, PartialIs DEF Cached
<1>7. left' \subseteq ListIds /\ \A m \in Existing' : m \in left => m \in left'
  BY <1>1 DEF Delete, IInv, TypeOK
<1> QED BY <1>1, <1>3, <1>5, <1>6, <1>7

LEMMA UserDeletesInv ==
    ASSUME IInv, UserDeletes
    PROVE  IInv'
<1> PICK l \in Existing : Delete(l)
  BY DEF UserDeletes
<1>1. UNCHANGED <<made, importer, sync, dropped>> /\ l \in ListIds
  BY ListsAre DEF UserDeletes, IInv
<1>2. importer' \in [Importers -> Importer] /\ \A a \in Importers : LetsGo(a)
  BY <1>1 DEF IInv, TypeOK, LetsGo
<1> QED BY <1>1, <1>2, DeleteDoes, LettingGo

(* An importer deletes the list it holds, if it is still there. *)
LEMMA OwnDeleteInv ==
    ASSUME IInv, NEW a \in Importers, Busy(a), NEW pc \in {"creating", "recording"},
           importer[a].list \in ListIds, Delete(importer[a].list),
           importer' = [importer EXCEPT ![a].pc = pc, ![a].list = None],
           UNCHANGED <<made, sync, dropped>>
    PROVE  IInv'
<1> PICK l \in ListIds : l = importer[a].list
  OBVIOUS
<1>1. importer'[a] = [importer[a] EXCEPT !.pc = pc, !.list = None]
  BY DEF IInv, TypeOK
<1>2. \A b \in Importers \ {a} : importer'[b] = importer[b]
  BY DEF IInv, TypeOK
<1>3. \A b \in Importers : LetsGo(b)
  <2>1. LetsGo(a)
    BY <1>1 DEF LetsGo
  <2> QED BY <1>2, <2>1 DEF LetsGo
<1>4. importer' \in [Importers -> Importer]
  BY <1>3, LetsGoFields DEF IInv, TypeOK
<1>5. Delete(l) /\ Existing' = Existing \ {l}
  BY DeleteDoes
<1>6. \A b \in Importers : importer'[b].list # importer[b].list
                            => importer[b].list \notin Existing' \ left'
  BY <1>2, <1>5
<1> QED BY <1>3, <1>4, <1>5, <1>6, DeleteDoes, LettingGo

(* Nothing but importers changes, and what they hold goes to left. *)
LEMMA QuietInv ==
    ASSUME IInv, NEW a \in Importers, NEW f,
           importer' = [importer EXCEPT ![a] = f],
           LetsGo(a),
           left' = left \/ left' = left \cup (Existing \cap {importer[a].list}),
           f.list # importer[a].list => importer[a].list \notin Existing \ left',
           rows' \in Partial(Cubes, Row), Cached' = Cached,
           \A k \in Cached : rows'[k].list = rows[k].list,
           UNCHANGED <<lists, made, sync, dropped>>
    PROVE  IInv'
<1>1. importer'[a] = f /\ \A b \in Importers \ {a} : importer'[b] = importer[b]
  BY DEF IInv, TypeOK
<1>2. \A b \in Importers : LetsGo(b)
  BY <1>1 DEF LetsGo
<1>3. importer' \in [Importers -> Importer]
  BY <1>2, LetsGoFields DEF IInv, TypeOK
<1>4. Existing' = Existing /\ Existing \subseteq ListIds /\ None \notin ListIds
  BY ListsAre DEF Existing, IInv
<1>5. lists' = [l \in Existing' |-> lists[l]]
  BY <1>4, PartialIs DEF IInv, TypeOK, Existing
<1>6. \A k \in Cached : rows'[k].list = IF rows[k].list \in Existing'
                                      THEN rows[k].list ELSE None
  BY <1>4 DEF IInv, TypeOK, Maybe
<1>7. left' \subseteq ListIds /\ \A l \in Existing' : l \in left => l \in left'
  BY <1>4 DEF IInv, TypeOK
<1>8. \A b \in Importers : importer'[b].list # importer[b].list
                            => importer[b].list \notin Existing' \ left'
  BY <1>1, <1>4
<1> QED BY <1>2, <1>3, <1>4, <1>5, <1>6, <1>7, <1>8, LettingGo

LEMMA RaiseInv ==
    ASSUME IInv, NEW a \in Importers, Raise(a)
    PROVE  IInv'
<1>1. importer' = [importer EXCEPT ![a] = Resting] /\ LetsGo(a)
  BY DEF Raise, Finish, LetsGo, IInv, TypeOK
<1>2. /\ left' = left \cup (Existing \cap {importer[a].list})
      /\ UNCHANGED <<rows, lists, made, sync, dropped>>
  BY DEF Raise
<1>3. rows' \in Partial(Cubes, Row) /\ Cached' = Cached
      /\ \A k \in Cached : rows'[k].list = rows[k].list
  BY <1>2 DEF IInv, TypeOK, Cached
<1> QED BY <1>1, <1>2, <1>3, QuietInv

(* An importer turns to the clean-up, or to the error it records. *)
LEMMA FailInv ==
    ASSUME IInv, NEW a \in Importers,
           \/ Fail(a)
           \/ Create(a) /\ \E l \in Existing : lists[l].name = importer[a].name
    PROVE  IInv'
<1>1. rows' \in Partial(Cubes, Row) /\ Cached' = Cached
      /\ \A k \in Cached : rows'[k].list = rows[k].list
  BY DEF Fail, Create, IInv, TypeOK, Cached
<1>2. importer[a] \in Importer
  BY DEF IInv, TypeOK
<1>3. CASE Fail(a)
  <2> DEFINE f == [importer[a] EXCEPT !.pc = "cleaning"]
  <2>1. /\ importer' = [importer EXCEPT ![a] = f]
        /\ importer[a].pc = "filling" /\ f.list = importer[a].list
        /\ UNCHANGED <<lists, made, sync, left, dropped>>
    BY <1>2, <1>3 DEF Fail, Step, Importer
  <2>2. LetsGo(a)
    BY <2>1 DEF LetsGo, IInv, TypeOK
  <2> QED BY <1>1, <2>1, <2>2, QuietInv
<1>4. CASE Create(a) /\ \E l \in Existing : lists[l].name = importer[a].name
  <2> DEFINE f == [importer[a] EXCEPT !.pc = "recording", !.list = None]
  <2>1. importer[a].pc = "creating" /\ importer[a].list = None
    BY <1>4 DEF Create, IInv, ImportersRight
  <2>2. f = [importer[a] EXCEPT !.pc = "recording"] /\ f.list = None
    BY <1>2, <2>1 DEF Importer
  <2>3. /\ importer' = [importer EXCEPT ![a] = f]
        /\ UNCHANGED <<lists, made, sync, left, dropped>>
    BY <1>4, <2>2 DEF Create, Step
  <2>4. LetsGo(a)
    BY <2>1, <2>3 DEF LetsGo, Busy, IInv, TypeOK
  <2> QED BY <1>1, <2>1, <2>2, <2>3, <2>4, QuietInv
<1> QED BY <1>3, <1>4

LEMMA RecordInv ==
    ASSUME IInv, NEW a \in Importers, Record(a)
    PROVE  IInv'
<1>1. CASE importer[a].lost
  BY <1>1, RaiseInv DEF Record
<1>2. CASE ~importer[a].lost
  <2> DEFINE c == importer[a].cube
  <2>1. c \in Cached /\ importer[a].list = None
    BY <1>2 DEF Record, IInv, TypeOK, ImportersRight, Busy
  <2>2. rows \in [Cached -> Row] /\ Cached \subseteq Cubes
    BY PartialIs DEF IInv, TypeOK, Cached
  <2>3. rows' = [rows EXCEPT ![c].failed = TRUE]
        /\ UNCHANGED <<lists, made, sync, left, dropped>>
    BY <1>2 DEF Record
  <2>4. /\ rows' \in [Cached -> Row] /\ Cached' = Cached
        /\ \A k \in Cached : rows'[k].list = rows[k].list
    <3>1. [rows[c] EXCEPT !.failed = TRUE] \in Row
          /\ [rows[c] EXCEPT !.failed = TRUE].list = rows[c].list
      BY <2>1, <2>2 DEF Row
    <3> QED BY <2>1, <2>2, <2>3, <3>1 DEF Cached
  <2>5. rows' \in Partial(Cubes, Row)
    BY <2>2, <2>4, PartialIs DEF Cached
  <2>6. importer' = [importer EXCEPT ![a] = Resting] /\ LetsGo(a)
    BY <1>2 DEF Record, Finish, LetsGo, IInv, TypeOK
  <2>7. Resting.list = importer[a].list
    BY <2>1, RestingTyped
  <2> QED BY <2>3, <2>4, <2>5, <2>6, <2>7, QuietInv
<1> QED BY <1>1, <1>2

LEMMA DiscardInv ==
    ASSUME IInv, NEW a \in Importers, Discard(a) \/ Cleanup(a)
    PROVE  IInv'
<1>1. CASE Discard(a)
  <2>1. importer[a].list \in ListIds
    <3>1. importer[a].list \in 1..made /\ made \in 0..MaxLists
      BY <1>1 DEF Discard, IInv, TypeOK, ImportersRight
    <3> QED BY <3>1, MaxListsOK DEF ListIds
  <2> QED BY <1>1, <2>1, OwnDeleteInv DEF Discard, Busy
<1>2. CASE Cleanup(a) /\ importer[a].list \in Existing
  BY <1>2, ListsAre, OwnDeleteInv DEF Cleanup, Busy, IInv
<1>3. CASE Cleanup(a) /\ importer[a].list \notin Existing
  BY <1>3, RaiseInv DEF Cleanup
<1> QED BY <1>1, <1>2, <1>3

-----------------------------------------------------------------------------
(* An importer has the cube track the list it holds.  No other cube tracks *)
(* it, and whoever else holds it does so for the same cube.                *)
LEMMA StoreInv ==
    ASSUME IInv, NEW a \in Importers, importer[a].pc \in {"adopting", "tracking"}, Store(a)
    PROVE  IInv'
<1>1. CASE ~Storable(a)
  BY <1>1, RaiseInv DEF Store
<1>2. CASE Storable(a)
  <2> SUFFICES ASSUME NEW c, NEW l, c = importer[a].cube, l = importer[a].list
               PROVE  IInv'
    OBVIOUS
  <2> DEFINE row == [list |-> l, failed |-> FALSE]
  <2> USE DEF IInv
  <2>1. /\ ~importer[a].lost /\ l \in Existing /\ c \in Cached /\ c \in Cubes
        /\ importer[a].name \in NamesOf(c)
        /\ lists[l].name = importer[a].name
        /\ lists[l].of \in {c} \cup dropped
        /\ Tracking(l) \subseteq {c}
    BY <1>2 DEF Storable, TypeOK, ImportersRight, HeldRight, Busy
  <2>2. /\ rows' = [rows EXCEPT ![c] = row]
        /\ left' = left \cup ({rows[c].list} \ {None, l})
        /\ importer' = [importer EXCEPT ![a] = Resting]
        /\ UNCHANGED <<lists, made, sync, dropped>>
    BY <1>2 DEF Store, Finish
  <2>3. l \in ListIds /\ l # None /\ None \notin Existing
    BY <2>1, ListsAre
  <2>4. rows \in [Cached -> Row] /\ Cached \subseteq Cubes
    BY PartialIs DEF TypeOK, Cached
  <2>5. rows' \in [Cached -> Row] /\ Cached' = Cached /\ Existing' = Existing
    BY <2>1, <2>2, <2>3, <2>4 DEF Row, Maybe, Cached, Existing
  <2>6. rows'[c].list = l /\ \A k \in Cached \ {c} : rows'[k] = rows[k]
    BY <2>1, <2>2, <2>4
  <2>7. importer'[a] = Resting /\ \A b \in Importers \ {a} : importer'[b] = importer[b]
    BY <2>2 DEF TypeOK
  <2>8. TypeOK'
    <3>1. rows' \in Partial(Cubes, Row)
      BY <2>4, <2>5, PartialIs DEF Cached
    <3>2. importer' \in [Importers -> Importer]
      BY <2>2, RestingTyped DEF TypeOK
    <3>3. left' \subseteq ListIds
      BY <2>1, <2>2, <2>4 DEF TypeOK, Row, Maybe
    <3>4. \A k \in Cached : rows'[k].list \in Maybe(Existing)
      BY <2>1, <2>6 DEF TypeOK, Maybe
    <3>5. \A b \in Importers : importer'[b].pc # "idle" /\ ~importer'[b].lost
                               => importer'[b].cube \in Cached
      BY <2>7, RestingTyped DEF TypeOK, Busy
    <3>6. \A m, n \in Existing' : lists'[m].name = lists'[n].name => m = n
      BY <2>2, <2>5 DEF TypeOK
    <3> QED BY <2>2, <2>5, <3>1, <3>2, <3>3, <3>4, <3>5, <3>6 DEF TypeOK, Busy
  <2>9. Tracking(l)' = {c} /\ \A m : m # l => Tracking(m)' = Tracking(m) \ {c}
    BY <2>1, <2>5, <2>6 DEF Tracking
  <2>10. TrackedIsItsOwn'
    <3> SUFFICES ASSUME NEW k \in Cached, NEW m, rows'[k].list = m, m # None
                 PROVE  lists[m].of \in {k} \cup dropped /\ Tracking(m)' = {k}
      BY <2>2, <2>5 DEF TrackedIsItsOwn
    <3>1. CASE k = c
      BY <2>1, <2>6, <2>9, <3>1
    <3>2. CASE k # c
      <4>1. rows[k].list = m /\ m # l
        BY <2>1, <2>6, <3>2 DEF Tracking
      <4> QED BY <2>9, <3>2, <4>1 DEF TrackedIsItsOwn
    <3> QED BY <3>1, <3>2
  <2>11. NothingLeftBehind'
    <3> SUFFICES ASSUME NEW m \in Existing, m \notin left', m # l
                 PROVE  \/ Tracking(m)' # {}
                        \/ \E b \in Importers : importer'[b].list = m
      BY <2>2, <2>5, <2>9 DEF NothingLeftBehind
    <3>1. m # None /\ m \notin left /\ rows[c].list # m
      BY <2>2, <2>3
    <3>2. CASE Tracking(m) # {}
      BY <2>9, <3>1, <3>2 DEF Tracking
    <3>3. CASE \E b \in Importers : importer[b].list = m
      BY <2>7, <3>3
    <3> QED BY <3>1, <3>2, <3>3 DEF NothingLeftBehind
  <2>12. ImportersRight'
    BY <2>2, <2>5, <2>7, RestingTyped DEF ImportersRight, Busy
  <2>13. HeldRight'
    <3> SUFFICES ASSUME NEW b \in Importers, NEW m \in Existing, importer[b].list = m,
                        b # a, ~importer[b].lost
                 PROVE  Tracking(m)' \subseteq {importer[b].cube}
      BY <2>2, <2>3, <2>5, <2>7, RestingTyped DEF HeldRight
    <3>1. CASE m = l
      <4>1. Busy(a) /\ Busy(b)
        BY <2>3, <3>1 DEF ImportersRight, Busy
      <4>2. importer[a].name = importer[b].name
        BY <2>1, <3>1 DEF HeldRight
      <4>3. importer[a].cube = importer[b].cube
        BY <2>1, <4>1, <4>2 DEF NamesApart
      <4> QED BY <2>9, <3>1, <4>3
    <3>2. CASE m # l
      BY <2>9, <3>2 DEF HeldRight
    <3> QED BY <3>1, <3>2
  <2>14. MakersApart' /\ NamesApart'
    BY <2>7, RestingTyped DEF MakersApart, NamesApart, Busy
  <2>15. ListsRight' /\ TrackedNames'
    BY <2>1, <2>2, <2>5, <2>6 DEF ListsRight, TrackedNames
  <2>16. KeptRight'
    BY <2>2, <2>5 DEF KeptRight
  <2> QED BY <2>8, <2>10, <2>11, <2>12, <2>13, <2>14, <2>15, <2>16
<1> QED BY <1>1, <1>2

(* An import begins: under a name no other cached cube goes by, with no    *)
(* list or with one of that name, so that no other cube can be tracking it.*)
LEMMA BeginInv ==
    ASSUME IInv, NEW a \in Importers, NEW k \in Cubes, Begin(a, k)
    PROVE  IInv'
<1> USE DEF IInv
<1>1. /\ ~Busy(a) /\ k \in Cached /\ importer[a].list = None
      /\ UNCHANGED <<rows, lists, made, sync, left, dropped>>
  BY DEF Begin, ImportersRight, Busy
<1>2. /\ Existing' = Existing /\ Cached' = Cached
      /\ \A l : Tracking(l)' = Tracking(l)
  BY <1>1 DEF Existing, Cached, Tracking
<1>3. PICK pc, title, l :
         /\ importer' = [importer EXCEPT ![a] =
               [pc |-> pc, cube |-> k, name |-> title, list |-> l, lost |-> FALSE]]
         /\ title \in NamesOf(k) /\ \A j \in Cached : title \in NamesOf(j) => j = k
         /\ \/ pc = "creating" /\ l = None
            \/ /\ l \in Existing /\ lists[l].name = title
               /\ \/ pc = "adopting" /\ lists[l].of # None
                  \/ pc = "discarding"
  <2>1. CASE Ambiguous(k)
    <3>1. <<Name[k], k>> \in NamesOf(k)
      BY DEF NamesOf
    <3> QED BY <2>1, <3>1, NamesTell DEF Begin
  <2>2. CASE ~Ambiguous(k)
    <3>1. <<Name[k]>> \in NamesOf(k)
      BY DEF NamesOf
    <3>2. \A j \in Cached : <<Name[k]>> \in NamesOf(j) => j = k
      BY <2>2, NamesTell DEF Ambiguous
    <3>3. CASE {l \in Existing : lists[l].name = <<Name[k]>>} = {}
      BY <2>2, <3>1, <3>2, <3>3 DEF Begin
    <3>4. CASE {l \in Existing : lists[l].name = <<Name[k]>>} # {}
      <4>1. PICK l \in {l \in Existing : lists[l].name = <<Name[k]>>} :
               importer' = [importer EXCEPT ![a] =
                   [pc |-> WhatToDo(l), cube |-> k, name |-> <<Name[k]>>,
                    list |-> l, lost |-> FALSE]]
        BY <2>2, <3>4 DEF Begin
      <4>2. CASE lists[l].of # None
        <5>1. WhatToDo(l) = "adopting"
          BY <4>2 DEF WhatToDo
        <5> QED BY <3>1, <3>2, <4>1, <4>2, <5>1
      <4>3. CASE lists[l].of = None
        <5>1. WhatToDo(l) = "discarding"
          BY <4>3 DEF WhatToDo
        <5> QED BY <3>1, <3>2, <4>1, <4>3, <5>1
      <4> QED BY <4>2, <4>3
    <3> QED BY <3>3, <3>4
  <2> QED BY <2>1, <2>2
<1> DEFINE f == [pc |-> pc, cube |-> k, name |-> title, list |-> l, lost |-> FALSE]
<1>4. importer'[a] = f /\ \A b \in Importers \ {a} : importer'[b] = importer[b]
  BY <1>3 DEF TypeOK
<1>5. /\ f.pc = pc /\ f.cube = k /\ f.name = title /\ f.list = l /\ f.lost = FALSE
      /\ pc \in {"creating", "adopting", "discarding"}
  BY <1>3
<1>6. TypeOK'
  <2>1. f \in Importer
    BY <1>3, <1>5, ListsAre, TitlesAre DEF Importer, Maybe
  <2>2. importer' \in [Importers -> Importer]
    BY <1>3, <2>1 DEF TypeOK
  <2>3. \A b \in Importers : importer'[b].pc # "idle" /\ ~importer'[b].lost
                             => importer'[b].cube \in Cached
    BY <1>1, <1>4 DEF TypeOK, Busy
  <2>4. \A m, n \in Existing' : lists'[m].name = lists'[n].name => m = n
    BY <1>1, <1>2 DEF TypeOK
  <2> QED BY <1>1, <1>2, <2>2, <2>3, <2>4 DEF TypeOK, Busy
<1> HIDE DEF f
<1>7. TrackedIsItsOwn' /\ ListsRight' /\ TrackedNames' /\ KeptRight'
  BY <1>1, <1>2 DEF TrackedIsItsOwn, ListsRight, TrackedNames, KeptRight
<1>8. NothingLeftBehind'
  <2> SUFFICES ASSUME NEW m \in Existing, NEW b \in Importers, importer[b].list = m
               PROVE  \E d \in Importers : importer'[d].list = m
    BY <1>1, <1>2 DEF NothingLeftBehind
  <2>1. m # None
    BY ListsAre
  <2> QED BY <1>1, <1>4, <2>1
<1>9. ImportersRight'
  <2>1. l \in Existing => l \in 1..made
    BY DEF TypeOK
  <2> QED BY <1>1, <1>2, <1>3, <1>4, <1>5, <2>1 DEF ImportersRight, Busy
<1>10. HeldRight'
  <2>1. ASSUME l \in Existing
        PROVE  /\ lists[l].name = title
               /\ pc = "adopting" => lists[l].of \in {k} \cup dropped
               /\ Tracking(l) \subseteq {k}
    <3>1. lists[l].name = title /\ l # None /\ (pc = "adopting" => lists[l].of # None)
      BY <1>3, <2>1, ListsAre
    <3>2. Tracking(l) \subseteq {k}
      BY <1>3, <3>1 DEF Tracking, TrackedNames
    <3>3. pc = "adopting" => lists[l].of \in {k} \cup dropped
      BY <1>3, <2>1, <3>1 DEF ListsRight
    <3> QED BY <3>1, <3>2, <3>3
  <2> SUFFICES ASSUME NEW b \in Importers, NEW m \in Existing, importer'[b].list = m
               PROVE  /\ lists[m].name = importer'[b].name
                      /\ importer'[b].pc \in {"filling", "cleaning"} => lists[m].of = None
                      /\ importer'[b].pc = "tracking" => lists[m].of = importer'[b].cube
                      /\ importer'[b].pc = "adopting"
                            => lists[m].of \in {importer'[b].cube} \cup dropped
                      /\ ~importer'[b].lost => Tracking(m) \subseteq {importer'[b].cube}
    BY <1>1, <1>2 DEF HeldRight
  <2>2. CASE b = a
    BY <1>4, <1>5, <2>1, <2>2
  <2>3. CASE b # a
    BY <1>4, <2>3 DEF HeldRight
  <2> QED BY <2>2, <2>3
<1>11. MakersApart'
  BY <1>4, <1>5 DEF MakersApart
<1>12. NamesApart'
  <2>1. ASSUME NEW b \in Importers, b # a, Busy(b), ~importer[b].lost, importer[b].name = title
        PROVE  importer[b].cube = k
    BY <1>3, <2>1 DEF ImportersRight, TypeOK
  <2> SUFFICES ASSUME NEW b \in Importers, NEW d \in Importers,
                      importer'[b].pc # "idle", ~importer'[b].lost,
                      importer'[d].pc # "idle", ~importer'[d].lost,
                      importer'[b].name = importer'[d].name
               PROVE  importer'[b].cube = importer'[d].cube
    BY DEF NamesApart, Busy
  <2>2. CASE b = a
    BY <1>4, <1>5, <2>1, <2>2 DEF Busy
  <2>3. CASE d = a
    BY <1>4, <1>5, <2>1, <2>3 DEF Busy
  <2>4. CASE b # a /\ d # a
    BY <1>4, <2>4 DEF NamesApart, Busy
  <2> QED BY <2>2, <2>3, <2>4
<1> QED BY <1>6, <1>7, <1>8, <1>9, <1>10, <1>11, <1>12

(* A list is created under an id that nothing knows yet. *)
LEMMA CreateInv ==
    ASSUME IInv, NEW a \in Importers, Create(a),
           ~ \E l \in Existing : lists[l].name = importer[a].name
    PROVE  IInv'
<1> USE DEF IInv
<1>1. PICK n \in 1..MaxLists : n = made + 1
  BY MaxListsOK DEF Create, TypeOK
<1>2. /\ importer[a].pc = "creating" /\ importer[a].list = None /\ Busy(a)
      /\ made' = n
      /\ lists' = [l \in Existing \cup {n} |->
                IF l = n THEN [name |-> importer[a].name, of |-> None] ELSE lists[l]]
      /\ importer' = [importer EXCEPT ![a].pc = "filling", ![a].list = n]
      /\ UNCHANGED <<rows, sync, left, dropped>>
  BY <1>1 DEF Create, ImportersRight, Busy
<1>3. /\ n \notin Existing /\ n \notin 1..made /\ 1..made \subseteq 1..n /\ n \in 1..n
      /\ n # None /\ n \in ListIds /\ n \in 0..MaxLists
  BY <1>1, MaxListsOK, NoneOK DEF TypeOK, ListIds
<1>4. Existing' = Existing \cup {n} /\ Cached' = Cached
      /\ \A l : Tracking(l)' = Tracking(l)
  BY <1>2 DEF Existing, Cached, Tracking
<1>5. /\ lists'[n] = [name |-> importer[a].name, of |-> None]
      /\ \A l \in Existing : lists'[l] = lists[l]
  BY <1>2, <1>3
<1>6. importer[a] \in Importer
  BY DEF TypeOK
<1>7. /\ importer'[a] \in Importer
      /\ importer'[a].pc = "filling" /\ importer'[a].list = n
      /\ importer'[a].cube = importer[a].cube /\ importer'[a].name = importer[a].name
      /\ importer'[a].lost = importer[a].lost
      /\ \A b \in Importers \ {a} : importer'[b] = importer[b]
  <2>1. importer'[a] = [importer[a] EXCEPT !.pc = "filling", !.list = n]
        /\ \A b \in Importers \ {a} : importer'[b] = importer[b]
    BY <1>2 DEF TypeOK
  <2> QED BY <1>3, <1>6, <2>1 DEF Importer, Maybe
<1>8. TypeOK'
  <2>1. importer' \in [Importers -> Importer]
    BY <1>2, <1>7 DEF TypeOK
  <2>2. lists' \in Partial(ListIds, List)
    <3>1. lists \in [Existing -> List] /\ Existing \subseteq ListIds
      BY PartialIs DEF TypeOK, Existing
    <3>2. [name |-> importer[a].name, of |-> None] \in List
      BY <1>2, TitlesAre DEF ImportersRight, List, Maybe
    <3>3. lists' \in [Existing' -> List] /\ Existing' \subseteq ListIds
      BY <1>2, <1>3, <1>4, <3>1, <3>2
    <3> QED BY <3>3, PartialIs DEF Existing
  <2>3. made' \in 0..MaxLists /\ Existing' \subseteq 1..made'
    BY <1>2, <1>3, <1>4 DEF TypeOK
  <2>4. \A l, m \in Existing' : lists'[l].name = lists'[m].name => l = m
    BY <1>4, <1>5 DEF TypeOK
  <2>5. \A k \in Cached : rows[k].list \in Maybe(Existing')
    BY <1>4 DEF TypeOK, Maybe
  <2>6. \A b \in Importers : importer'[b].pc # "idle" /\ ~importer'[b].lost
                             => importer'[b].cube \in Cached
    BY <1>2, <1>7 DEF TypeOK, Busy
  <2> QED BY <1>2, <1>4, <2>1, <2>2, <2>3, <2>4, <2>5, <2>6 DEF TypeOK, Busy
<1>9. \A k \in Cached : rows[k].list # None => rows[k].list \in Existing
  BY DEF TypeOK, Maybe
<1>10. TrackedIsItsOwn' /\ TrackedNames'
  BY <1>2, <1>4, <1>5, <1>9 DEF TrackedIsItsOwn, TrackedNames
<1>11. NothingLeftBehind'
  BY <1>2, <1>3, <1>4, <1>7, ListsAre DEF NothingLeftBehind
<1>12. ImportersRight'
  BY <1>2, <1>3, <1>4, <1>7 DEF ImportersRight, Busy
<1>13. \A b \in Importers \ {a} : importer[b].list # n
  BY <1>3 DEF ImportersRight
<1>14. HeldRight'
  <2>1. Tracking(n) = {}
    BY <1>3, <1>9 DEF Tracking
  <2> SUFFICES ASSUME NEW b \in Importers, NEW m \in Existing', importer'[b].list = m
               PROVE  /\ lists'[m].name = importer'[b].name
                      /\ importer'[b].pc \in {"filling", "cleaning"} => lists'[m].of = None
                      /\ importer'[b].pc = "tracking" => lists'[m].of = importer'[b].cube
                      /\ importer'[b].pc = "adopting"
                            => lists'[m].of \in {importer'[b].cube} \cup dropped
                      /\ ~importer'[b].lost => Tracking(m) \subseteq {importer'[b].cube}
    BY <1>2, <1>4 DEF HeldRight
  <2>2. CASE b = a
    BY <1>5, <1>7, <2>1, <2>2
  <2>3. CASE b # a
    BY <1>4, <1>5, <1>7, <1>13, <2>3 DEF HeldRight
  <2> QED BY <2>2, <2>3
<1>15. MakersApart'
  BY <1>7, <1>13 DEF MakersApart
<1>16. NamesApart'
  <2>1. \A b \in Importers : /\ importer'[b].pc # "idle" <=> importer[b].pc # "idle"
                             /\ importer'[b].cube = importer[b].cube
                             /\ importer'[b].name = importer[b].name
                             /\ importer'[b].lost = importer[b].lost
    BY <1>2, <1>7 DEF Busy
  <2> QED BY <2>1 DEF NamesApart, Busy
<1>17. ListsRight'
  BY <1>2, <1>4, <1>5 DEF ListsRight
<1>18. KeptRight'
  <2>1. \A k \in DOMAIN sync.kept : sync.kept[k].list # n
    BY <1>3 DEF KeptRight, Maybe
  <2>2. Maybe(1..made) \subseteq Maybe(1..n)
    BY <1>3 DEF Maybe
  <2> QED BY <1>2, <1>4, <1>5, <2>1, <2>2 DEF KeptRight
<1> QED BY <1>8, <1>10, <1>11, <1>12, <1>14, <1>15, <1>16, <1>17, <1>18

(* The cards go into the list the importer made, which no one tracks yet.  *)
LEMMA FillInv ==
    ASSUME IInv, NEW a \in Importers, Fill(a)
    PROVE  IInv'
<1> USE DEF IInv
<1>1. PICK l \in Existing, c \in Cubes :
         l = importer[a].list /\ c = importer[a].cube
         /\ c \in Cached \cup dropped /\ importer[a].name \in NamesOf(c)
  <2>1. importer[a].pc = "filling" /\ importer[a].list \in Existing
    BY DEF Fill
  <2>2. /\ importer[a].cube \in Cubes /\ importer[a].cube \in Cached \cup dropped
        /\ importer[a].name \in NamesOf(importer[a].cube)
    BY <2>1 DEF ImportersRight, Busy
  <2> QED BY <2>1, <2>2
<1>2. /\ importer[a].pc = "filling" /\ Busy(a)
      /\ lists[l].of = None /\ lists[l].name = importer[a].name
      /\ lists' = [lists EXCEPT ![l].of = c]
      /\ importer' = [importer EXCEPT ![a].pc = "tracking"]
      /\ UNCHANGED <<rows, made, sync, left, dropped>>
  BY <1>1 DEF Fill, Step, HeldRight, Busy
<1>3. lists \in [Existing -> List] /\ Existing \subseteq ListIds /\ None \notin Existing
  BY PartialIs, ListsAre DEF TypeOK, Existing
<1>4. /\ Existing' = Existing /\ Cached' = Cached
      /\ lists'[l] \in List /\ lists'[l].of = c /\ lists'[l].name = lists[l].name
      /\ \A m \in Existing \ {l} : lists'[m] = lists[m]
      /\ \A m : Tracking(m)' = Tracking(m)
  <2>1. lists[l] \in List
    BY <1>3
  <2>2. [lists[l] EXCEPT !.of = c] \in List /\ [lists[l] EXCEPT !.of = c].of = c
        /\ [lists[l] EXCEPT !.of = c].name = lists[l].name
    BY <2>1 DEF List, Maybe
  <2>3. lists'[l] = [lists[l] EXCEPT !.of = c]
        /\ \A m \in Existing \ {l} : lists'[m] = lists[m]
    BY <1>2, <1>3
  <2>4. Existing' = Existing /\ Cached' = Cached /\ \A m : Tracking(m)' = Tracking(m)
    BY <1>2 DEF Existing, Cached, Tracking
  <2> QED BY <2>2, <2>3, <2>4
<1>5. /\ importer'[a] \in Importer
      /\ importer'[a].pc = "tracking" /\ importer'[a].list = l
      /\ importer'[a].cube = c /\ importer'[a].name = importer[a].name
      /\ importer'[a].lost = importer[a].lost
      /\ \A b \in Importers \ {a} : importer'[b] = importer[b]
  <2>1. importer[a] \in Importer
    BY DEF TypeOK
  <2>2. importer'[a] = [importer[a] EXCEPT !.pc = "tracking"]
        /\ \A b \in Importers \ {a} : importer'[b] = importer[b]
    BY <1>2 DEF TypeOK
  <2> QED BY <1>1, <2>1, <2>2 DEF Importer
<1>6. TypeOK'
  <2>1. lists' \in Partial(ListIds, List)
    <3>1. lists' \in [Existing' -> List]
      BY <1>2, <1>3, <1>4
    <3> QED BY <1>3, <1>4, <3>1, PartialIs DEF Existing
  <2>2. importer' \in [Importers -> Importer]
    BY <1>2, <1>5 DEF TypeOK
  <2>3. \A m, n \in Existing' : lists'[m].name = lists'[n].name => m = n
    BY <1>4 DEF TypeOK
  <2>4. \A b \in Importers : importer'[b].pc # "idle" /\ ~importer'[b].lost
                             => importer'[b].cube \in Cached
    BY <1>1, <1>2, <1>5 DEF TypeOK, Busy
  <2> QED BY <1>2, <1>4, <2>1, <2>2, <2>3, <2>4 DEF TypeOK, Busy
<1>7. \A k \in Cached : rows[k].list # l
  <2>1. \A k \in Cached : rows[k].list # None => lists[rows[k].list].of # None
    <3>1. Cached \subseteq Cubes
      BY PartialIs DEF TypeOK, Cached
    <3>2. None \notin Cubes /\ None \notin dropped
      BY NoneOK DEF TypeOK
    <3> QED BY <3>1, <3>2 DEF TrackedIsItsOwn
  <2> QED BY <1>2, <1>3, <2>1
<1>8. \A k \in Cached : rows[k].list # None => rows[k].list \in Existing \ {l}
  BY <1>7 DEF TypeOK, Maybe
<1>9. TrackedIsItsOwn' /\ TrackedNames'
  BY <1>2, <1>4, <1>8 DEF TrackedIsItsOwn, TrackedNames
<1>10. \A b \in Importers : importer'[b].list = importer[b].list
  BY <1>1, <1>5
<1>11. NothingLeftBehind'
  BY <1>2, <1>4, <1>10 DEF NothingLeftBehind
<1>12. ImportersRight'
  BY <1>1, <1>2, <1>4, <1>5, <1>10 DEF ImportersRight, Busy
<1>13. HeldRight'
  <2> SUFFICES ASSUME NEW b \in Importers, NEW m \in Existing, importer[b].list = m
               PROVE  /\ lists'[m].name = importer'[b].name
                      /\ importer'[b].pc \in {"filling", "cleaning"} => lists'[m].of = None
                      /\ importer'[b].pc = "tracking" => lists'[m].of = importer'[b].cube
                      /\ importer'[b].pc = "adopting"
                            => lists'[m].of \in {importer'[b].cube} \cup dropped
                      /\ ~importer'[b].lost => Tracking(m) \subseteq {importer'[b].cube}
    BY <1>2, <1>4, <1>10 DEF HeldRight
  <2>1. CASE b = a
    BY <1>1, <1>2, <1>4, <1>5, <2>1 DEF HeldRight
  <2>2. CASE b # a /\ m # l
    BY <1>4, <1>5, <2>2 DEF HeldRight
  <2>3. CASE b # a /\ m = l
    <3>1. importer'[b] = importer[b] /\ lists[l].name = importer[b].name
          /\ (~importer[b].lost => Tracking(l) \subseteq {importer[b].cube})
      BY <1>5, <2>3 DEF HeldRight
    <3>2. importer[b].pc \notin {"filling", "tracking", "cleaning"}
      BY <1>1, <1>2, <2>3 DEF MakersApart
    <3>3. importer[b].pc = "adopting" => FALSE
      <4> SUFFICES ASSUME importer[b].pc = "adopting" PROVE FALSE
        OBVIOUS
      <4>1. importer[b].cube # None /\ None \notin dropped
        BY NoneOK DEF ImportersRight, Busy, TypeOK
      <4> QED BY <1>2, <2>3, <4>1 DEF HeldRight
    <3> QED BY <1>4, <2>3, <3>1, <3>2, <3>3
  <2> QED BY <2>1, <2>2, <2>3
<1>14. MakersApart'
  BY <1>1, <1>2, <1>5 DEF MakersApart
<1>15. NamesApart'
  BY <1>1, <1>2, <1>5 DEF NamesApart, Busy
<1>16. ListsRight'
  BY <1>1, <1>2, <1>4 DEF ListsRight
<1>17. KeptRight'
  <2>1. \A k \in DOMAIN sync.kept : sync.kept[k].list # l
    <3>1. \A k \in DOMAIN sync.kept : k \in Cubes
      BY PartialIs DEF TypeOK
    <3> QED BY <1>2, <3>1, NoneOK DEF KeptRight, TypeOK
  <2> QED BY <1>2, <1>4, <2>1 DEF KeptRight
<1> QED BY <1>6, <1>9, <1>11, <1>12, <1>13, <1>14, <1>15, <1>16, <1>17

-----------------------------------------------------------------------------
(* The worker's jobs: a scrape adds a cube, a sync takes its snapshot or   *)
(* gives up.                                                               *)
LEMMA ScrapePageInv ==
    ASSUME IInv, ScrapePage
    PROVE  IInv'
<1> USE DEF IInv
<1>1. PICK k \in Cubes \ Cached :
         rows' = [m \in Cached \cup {k} |-> IF m = k THEN New ELSE rows[m]]
  BY DEF ScrapePage
<1>2. UNCHANGED <<lists, made, importer, sync, left, dropped>>
  BY DEF ScrapePage
<1>3. /\ Cached' = Cached \cup {k} /\ Existing' = Existing
      /\ rows'[k] = New /\ \A m \in Cached : rows'[m] = rows[m]
  BY <1>1, <1>2 DEF Cached, Existing
<1>4. New \in Row /\ New.list = None
  BY DEF New, Row, Maybe
<1>5. \A l : l # None => Tracking(l)' = Tracking(l)
  BY <1>3, <1>4 DEF Tracking
<1>6. TypeOK'
  <2>1. rows \in [Cached -> Row] /\ Cached \subseteq Cubes
    BY PartialIs DEF TypeOK, Cached
  <2>2. rows' \in [Cached' -> Row] /\ Cached' \subseteq Cubes
    BY <1>1, <1>3, <1>4, <2>1
  <2>3. rows' \in Partial(Cubes, Row)
    BY <2>2, PartialIs DEF Cached
  <2>4. \A m \in Cached' : rows'[m].list \in Maybe(Existing)
    BY <1>3, <1>4 DEF TypeOK, Maybe
  <2>5. \A a \in Importers : Busy(a) /\ ~importer[a].lost => importer[a].cube \in Cached'
    BY <1>3 DEF TypeOK
  <2>6. \A a : Busy(a)' = Busy(a)
    BY <1>2 DEF Busy
  <2> QED BY <1>2, <1>3, <2>3, <2>4, <2>5, <2>6 DEF TypeOK
<1>7. TrackedIsItsOwn'
  <2> SUFFICES ASSUME NEW m \in Cached, NEW l, rows[m].list = l, l # None
               PROVE  lists[l].of \in {m} \cup dropped /\ Tracking(l)' = {m}
    BY <1>2, <1>3, <1>4 DEF TrackedIsItsOwn
  <2> QED BY <1>5 DEF TrackedIsItsOwn
<1>8. \A l \in Existing : l # None
  BY ListsAre
<1>9. NothingLeftBehind'
  BY <1>2, <1>3, <1>5, <1>8 DEF NothingLeftBehind
<1>10. ImportersRight' /\ MakersApart' /\ NamesApart'
  BY <1>2, <1>3 DEF ImportersRight, MakersApart, NamesApart, Busy
<1>11. HeldRight'
  <2> SUFFICES ASSUME NEW b \in Importers, NEW m \in Existing, importer[b].list = m
               PROVE  ~importer[b].lost => Tracking(m)' \subseteq {importer[b].cube}
    BY <1>2, <1>3 DEF HeldRight
  <2> QED BY <1>5, <1>8 DEF HeldRight
<1>12. ListsRight' /\ TrackedNames'
  BY <1>2, <1>3, <1>4 DEF ListsRight, TrackedNames
<1>13. KeptRight'
  BY <1>2, <1>3 DEF KeptRight
<1> QED BY <1>6, <1>7, <1>9, <1>10, <1>11, <1>12, <1>13

LEMMA SyncSnapshotInv ==
    ASSUME IInv, SyncSnapshot
    PROVE  IInv'
<1> USE DEF IInv
<1>1. sync' = [pc |-> "snapshot", kept |-> rows]
      /\ UNCHANGED <<rows, lists, made, importer, left, dropped>>
  BY DEF SyncSnapshot
<1>2. /\ Existing' = Existing /\ Cached' = Cached /\ \A l : Tracking(l)' = Tracking(l)
      /\ \A a : Busy(a)' = Busy(a)
  BY <1>1 DEF Existing, Cached, Tracking, Busy
<1>3. TypeOK'
  BY <1>1, <1>2 DEF TypeOK
<1>4. TrackedIsItsOwn' /\ NothingLeftBehind'
  BY <1>1, <1>2 DEF TrackedIsItsOwn, NothingLeftBehind
<1>5. ImportersRight' /\ HeldRight' /\ MakersApart' /\ NamesApart'
  BY <1>1, <1>2 DEF ImportersRight, HeldRight, MakersApart, NamesApart
<1>6. ListsRight' /\ TrackedNames'
  BY <1>1, <1>2 DEF ListsRight, TrackedNames
<1>7. KeptRight'
  <2>1. \A k \in Cached : rows[k].list \in Existing =>
           /\ lists[rows[k].list].name \in NamesOf(k)
           /\ lists[rows[k].list].of \in {k} \cup dropped
           /\ \A j \in Cached : rows[j].list = rows[k].list => j = k
    BY ListsAre DEF TrackedIsItsOwn, TrackedNames, Tracking
  <2>2. \A k \in Cached : rows[k].list \in Maybe(1..made)
    BY DEF TypeOK, Maybe
  <2> QED BY <1>1, <1>2, <2>1, <2>2 DEF KeptRight, Cached
<1> QED BY <1>3, <1>4, <1>5, <1>6, <1>7

LEMMA SyncFailsInv ==
    ASSUME IInv, SyncFails
    PROVE  IInv'
<1>1. UNCHANGED <<rows, lists, made, importer, left, dropped>>
      /\ sync' = [pc |-> "idle", kept |-> <<>>]
  BY DEF SyncFails
<1>2. /\ Existing' = Existing /\ Cached' = Cached
      /\ Existing \subseteq ListIds /\ None \notin ListIds
  BY <1>1, ListsAre DEF IInv, Existing, Cached
<1>3. lists' = [l \in Existing' |-> lists[l]]
  BY <1>1, <1>2, PartialIs DEF IInv, TypeOK, Existing
<1>4. importer' \in [Importers -> Importer] /\ \A a \in Importers : LetsGo(a)
  BY <1>1 DEF IInv, TypeOK, LetsGo
<1>5. rows' \in Partial(Cubes, Row) /\ left' \subseteq ListIds
      /\ \A k \in Cached : rows'[k].list = IF rows[k].list \in Existing'
                                         THEN rows[k].list ELSE None
  BY <1>1, <1>2 DEF IInv, TypeOK, Maybe
<1> QED BY <1>1, <1>2, <1>3, <1>4, <1>5, LettingGo

(* A sync replaces the cubes.  The importers under way have lost theirs,   *)
(* and the lists it gives back are right because its snapshot stayed so.   *)
LEMMA SyncCommitInv ==
    ASSUME IInv, SyncCommit
    PROVE  IInv'
<1> USE DEF IInv
<1>1. PICK found \in SUBSET Cubes :
         LET fresh == Replace(found, sync.kept)
             Kept == {fresh[k].list : k \in found} \ {None}
         IN  /\ Kept \subseteq Existing
             /\ rows' = fresh
             /\ left' = left \cup ({rows[k].list : k \in Cached} \ (Kept \cup {None}))
             /\ dropped' = dropped \cup (Cached \ found)
  BY DEF SyncCommit
<1>2. /\ importer' = [a \in Importers |->
                       IF Busy(a) THEN [importer[a] EXCEPT !.lost = TRUE] ELSE importer[a]]
      /\ sync' = [pc |-> "idle", kept |-> <<>>]
      /\ UNCHANGED <<lists, made>>
  BY DEF SyncCommit
<1>3. /\ Cached' = found /\ Existing' = Existing
      /\ rows' \in [found -> Row]
      /\ \A k \in found : rows'[k] = IF k \in DOMAIN sync.kept THEN sync.kept[k] ELSE New
      /\ \A k \in found : rows'[k].list # None => rows'[k].list \in Existing
  <2>1. \A k \in DOMAIN sync.kept : sync.kept[k] \in Row
    BY PartialIs DEF TypeOK
  <2>2. New \in Row
    BY DEF New, Row, Maybe
  <2> QED BY <1>1, <1>2, <2>1, <2>2 DEF Replace, Cached, Existing
<1>4. \A k \in found : rows'[k].list # None =>
         k \in DOMAIN sync.kept /\ rows'[k].list = sync.kept[k].list
  BY <1>3 DEF New
<1>5. dropped' = dropped \cup (Cached \ found) /\ left \subseteq left'
      /\ \A k \in Cached : rows[k].list # None
             => rows[k].list \in left' \/ \E j \in found : rows'[j].list = rows[k].list
  BY <1>1
<1>6. ASSUME NEW a \in Importers
      PROVE  /\ importer'[a] \in Importer
             /\ importer'[a].pc = importer[a].pc /\ importer'[a].list = importer[a].list
             /\ importer'[a].cube = importer[a].cube
             /\ importer'[a].name = importer[a].name
             /\ importer'[a].pc # "idle" => importer'[a].lost
  <2>1. importer[a] \in Importer
    BY DEF TypeOK
  <2>2. CASE Busy(a)
    <3>1. importer'[a] = [importer[a] EXCEPT !.lost = TRUE]
      BY <1>2, <2>2
    <3> QED BY <2>1, <3>1 DEF Importer
  <2>3. CASE ~Busy(a)
    <3>1. importer'[a] = importer[a]
      BY <1>2, <2>3
    <3> QED BY <2>1, <2>3, <3>1 DEF Busy
  <2> QED BY <2>2, <2>3
<1>7. TypeOK'
  <2>1. rows' \in Partial(Cubes, Row)
    BY <1>3, PartialIs DEF Cached
  <2>2. importer' \in [Importers -> Importer]
    BY <1>2, <1>6
  <2>3. sync' \in [pc : {"idle", "snapshot"}, kept : Partial(Cubes, Row)]
    <3>1. DOMAIN <<>> = {} /\ <<>> \in [{} -> Row]
      OBVIOUS
    <3> QED BY <1>2, <3>1, PartialIs
  <2>4. left' \subseteq ListIds
    <3>1. \A k \in Cached : rows[k].list # None => rows[k].list \in ListIds
      BY ListsAre DEF TypeOK, Maybe
    <3> QED BY <1>1, <3>1 DEF TypeOK
  <2>5. dropped' \subseteq Cubes
    <3>1. Cached \subseteq Cubes
      BY PartialIs DEF TypeOK, Cached
    <3> QED BY <1>5, <3>1 DEF TypeOK
  <2>6. \A k \in found : rows'[k].list \in Maybe(Existing)
    BY <1>3 DEF Maybe
  <2>7. \A m, n \in Existing' : lists'[m].name = lists'[n].name => m = n
    BY <1>2, <1>3 DEF TypeOK
  <2> QED BY <1>2, <1>3, <1>6, <2>1, <2>2, <2>3, <2>4, <2>5, <2>6, <2>7 DEF TypeOK, Busy
<1>8. TrackedIsItsOwn'
  <2> SUFFICES ASSUME NEW k \in found, NEW l, rows'[k].list = l, l # None
               PROVE  lists[l].of \in {k} \cup dropped' /\ Tracking(l)' = {k}
    BY <1>2, <1>3 DEF TrackedIsItsOwn
  <2>1. k \in DOMAIN sync.kept /\ sync.kept[k].list = l /\ l \in Existing
    BY <1>3, <1>4
  <2>2. lists[l].of \in {k} \cup dropped
        /\ \A j \in DOMAIN sync.kept : sync.kept[j].list = l => j = k
    BY <2>1 DEF KeptRight
  <2>3. \A j \in found : rows'[j].list = l => j = k
    BY <1>4, <2>2
  <2> QED BY <1>3, <1>5, <2>2, <2>3 DEF Tracking
<1>9. NothingLeftBehind'
  <2> SUFFICES ASSUME NEW l \in Existing, l \notin left'
               PROVE  \/ Tracking(l)' # {}
                      \/ \E a \in Importers : importer'[a].list = l
    BY <1>2, <1>3 DEF NothingLeftBehind
  <2>1. CASE Tracking(l) # {}
    <3>1. PICK k \in Cached : rows[k].list = l
      BY <2>1 DEF Tracking
    <3>2. l # None
      BY ListsAre
    <3> QED BY <1>3, <1>5, <3>1, <3>2 DEF Tracking
  <2>2. CASE \E a \in Importers : importer[a].list = l
    BY <1>6, <2>2
  <2> QED BY <1>5, <2>1, <2>2 DEF NothingLeftBehind
<1>10. ImportersRight'
  BY <1>2, <1>3, <1>5, <1>6 DEF ImportersRight, Busy
<1>11. HeldRight'
  <2> SUFFICES ASSUME NEW b \in Importers, NEW m \in Existing, importer'[b].list = m
               PROVE  /\ lists[m].name = importer'[b].name
                      /\ importer'[b].pc \in {"filling", "cleaning"} => lists[m].of = None
                      /\ importer'[b].pc = "tracking" => lists[m].of = importer'[b].cube
                      /\ importer'[b].pc = "adopting"
                            => lists[m].of \in {importer'[b].cube} \cup dropped'
                      /\ importer'[b].lost
    BY <1>2, <1>3 DEF HeldRight
  <2>1. importer'[b].lost
    BY <1>6, ListsAre DEF ImportersRight
  <2> QED BY <1>5, <1>6, <2>1 DEF HeldRight
<1>12. MakersApart' /\ NamesApart'
  BY <1>6 DEF MakersApart, NamesApart, Busy
<1>13. ListsRight'
  BY <1>2, <1>3, <1>5 DEF ListsRight
<1>14. TrackedNames'
  BY <1>2, <1>3, <1>4 DEF TrackedNames, KeptRight
<1>15. KeptRight'
  BY <1>2 DEF KeptRight
<1> QED BY <1>7, <1>8, <1>9, <1>10, <1>11, <1>12, <1>13, <1>14, <1>15

-----------------------------------------------------------------------------
LEMMA InitInv == Init => IInv
<1> SUFFICES ASSUME Init PROVE IInv
  OBVIOUS
<1>1. PICK S \in SUBSET Cubes : rows = [k \in S |-> New]
  BY DEF Init
<1>2. /\ Cached = S /\ Existing = {} /\ \A k \in S : rows[k].list = None
      /\ New \in Row
  BY <1>1 DEF Init, Cached, Existing, New, Row, Maybe
<1>3. TypeOK
  <2>1. rows \in Partial(Cubes, Row)
    <3>1. rows \in [S -> Row] /\ DOMAIN rows = S
      BY <1>1, <1>2
    <3> QED BY <3>1, PartialIs
  <2>2. \A T : <<>> \in [{} -> T] /\ DOMAIN <<>> = {}
    OBVIOUS
  <2>3. \A D, T : <<>> \in Partial(D, T)
    BY <2>2, PartialIs
  <2>4. importer \in [Importers -> Importer]
    BY RestingTyped DEF Init
  <2>5. made \in 0..MaxLists
    BY MaxListsOK DEF Init
  <2> QED BY <1>2, <2>1, <2>3, <2>4, <2>5, RestingTyped DEF Init, TypeOK, Busy, Maybe
<1>4. TrackedIsItsOwn /\ NothingLeftBehind /\ ListsRight /\ TrackedNames
  BY <1>2 DEF TrackedIsItsOwn, NothingLeftBehind, ListsRight, TrackedNames
<1>5. ImportersRight /\ MakersApart /\ NamesApart
  BY RestingTyped DEF Init, ImportersRight, MakersApart, NamesApart, Busy
<1>6. HeldRight
  BY <1>2 DEF HeldRight
<1>7. KeptRight
  BY DEF Init, KeptRight
<1> QED BY <1>3, <1>4, <1>5, <1>6, <1>7 DEF IInv

LEMMA NextInv == IInv /\ [Next]_vars => IInv'
<1> SUFFICES ASSUME IInv, [Next]_vars PROVE IInv'
  OBVIOUS
<1>1. ASSUME NEW a \in Importers, Import(a)
      PROVE  IInv'
  <2>1. CASE \E k \in Cubes : Begin(a, k)
    BY <2>1, BeginInv
  <2>2. CASE Adopt(a) \/ Track(a)
    BY <2>2, StoreInv DEF Adopt, Track
  <2>3. CASE Discard(a) \/ Cleanup(a)
    BY <2>3, DiscardInv
  <2>4. CASE Create(a) \/ Fail(a)
    BY <2>4, CreateInv, FailInv
  <2>5. CASE Fill(a)
    BY <2>5, FillInv
  <2>6. CASE Record(a)
    BY <2>6, RecordInv
  <2>7. CASE Crash(a)
    BY <2>7, RaiseInv DEF Crash
  <2> QED BY <1>1, <2>1, <2>2, <2>3, <2>4, <2>5, <2>6, <2>7 DEF Import
<1>2. CASE SyncSnapshot \/ SyncCommit \/ SyncFails \/ ScrapePage \/ UserDeletes
  BY <1>2, SyncSnapshotInv, SyncCommitInv, SyncFailsInv, ScrapePageInv, UserDeletesInv
<1>3. CASE UNCHANGED vars
  <2>1. /\ Existing' = Existing /\ Cached' = Cached
        /\ \A l : Tracking(l)' = Tracking(l)
        /\ \A a : Busy(a)' = Busy(a)
        /\ UNCHANGED <<rows, lists, made, importer, sync, left, dropped>>
    BY <1>3 DEF vars, Existing, Cached, Tracking, Busy
  <2>2. TypeOK'
    BY <2>1 DEF IInv, TypeOK
  <2>3. TrackedIsItsOwn' /\ NothingLeftBehind'
    BY <2>1 DEF IInv, TrackedIsItsOwn, NothingLeftBehind
  <2>4. ImportersRight' /\ HeldRight' /\ MakersApart' /\ NamesApart'
    BY <2>1 DEF IInv, ImportersRight, HeldRight, MakersApart, NamesApart
  <2>5. ListsRight' /\ TrackedNames' /\ KeptRight'
    BY <2>1 DEF IInv, ListsRight, TrackedNames, KeptRight
  <2> QED BY <2>2, <2>3, <2>4, <2>5 DEF IInv
<1> QED BY <1>1, <1>2, <1>3 DEF Next

(* The strengthened invariant: what importers hold, what the cubes track   *)
(* and what the snapshot keeps agree with the names of the lists.          *)
THEOREM Invariance == Spec => []IInv
BY InitInv, NextInv, PTL DEF Spec

(* Types, unique names of lists, no dangling tracking, and no importer     *)
(* working on a cube that is gone without knowing.                         *)
THEOREM TypeCorrect == Spec => []TypeOK
<1>1. IInv => TypeOK
  BY DEF IInv
<1> QED BY Invariance, <1>1, PTL

(* A cube leads to a list of its own cards, which no other cube leads to.  *)
THEOREM TrackedStaysItsOwn == Spec => []TrackedIsItsOwn
<1>1. IInv => TrackedIsItsOwn
  BY DEF IInv
<1> QED BY Invariance, <1>1, PTL

(* Every list is tracked, held, or of one of the four known ways to leave  *)
(* one behind.                                                             *)
THEOREM NoneLeftBehind == Spec => []NothingLeftBehind
<1>1. IInv => NothingLeftBehind
  BY DEF IInv
<1> QED BY Invariance, <1>1, PTL

(* An import deletes no list that another cube leads to.                   *)
THEOREM OnlyOwnDeleted == Spec => DeletesOnlyItsOwn
<1>1. ASSUME IInv, [Next]_vars, NEW a \in Importers, NEW l \in Existing \ DOMAIN lists',
             importer'[a] # importer[a], ~importer[a].lost
      PROVE  Tracking(l) \subseteq {importer[a].cube}
  <2>1. ASSUME NEW b \in Importers, Discard(b) \/ Cleanup(b), DOMAIN lists' # Existing
        PROVE  Tracking(l) \subseteq {importer[a].cube}
    <3>1. /\ lists' = [m \in Existing \ {importer[b].list} |-> lists[m]]
          /\ importer' = [importer EXCEPT ![b] = importer'[b]]
      <4>1. \A pc : [importer EXCEPT ![b].pc = pc, ![b].list = None]
                     = [importer EXCEPT ![b] = [importer[b] EXCEPT !.pc = pc, !.list = None]]
        BY DEF IInv, TypeOK, Importer
      <4>2. CASE Discard(b)
        BY <4>1, <4>2 DEF Discard, Delete, IInv, TypeOK
      <4>3. CASE Cleanup(b) /\ importer[b].list \in Existing
        BY <4>1, <4>3 DEF Cleanup, Delete, IInv, TypeOK
      <4>4. CASE Cleanup(b) /\ importer[b].list \notin Existing
        BY <2>1, <4>4 DEF Cleanup, Raise, Existing
      <4> QED BY <2>1, <4>2, <4>3, <4>4
    <3>2. l = importer[b].list /\ b = a
      BY <1>1, <3>1 DEF IInv, TypeOK
    <3> QED BY <1>1, <3>2 DEF IInv, HeldRight
  <2>2. CASE DOMAIN lists' = Existing
    BY <2>2
  <2>3. ASSUME NEW b \in Importers, Create(b)
        PROVE  Existing \subseteq DOMAIN lists'
    BY <2>3 DEF Create, Existing
  <2>4. ASSUME NEW b \in Importers, Import(b), ~Create(b),
               ~((Discard(b) \/ Cleanup(b)) /\ DOMAIN lists' # Existing)
        PROVE  DOMAIN lists' = Existing
    BY <2>4 DEF Import, Begin, Adopt, Track, Store, Raise, Discard, Fill, Fail, Cleanup,
         Record, Crash, Existing
  <2>5. CASE \E b \in Importers : Import(b)
    BY <2>1, <2>2, <2>3, <2>4, <2>5
  <2>6. CASE UserDeletes
    BY <1>1, <2>6 DEF UserDeletes
  <2>7. CASE SyncSnapshot \/ SyncCommit \/ SyncFails \/ ScrapePage \/ UNCHANGED vars
    BY <2>2, <2>7 DEF SyncSnapshot, SyncCommit, SyncFails, ScrapePage, vars, Existing
  <2> QED BY <1>1, <2>5, <2>6, <2>7 DEF Next
<1>2. IInv /\ [Next]_vars
         => [\A a \in Importers : \A l \in Existing \ DOMAIN lists' :
                importer'[a] # importer[a] /\ ~importer[a].lost =>
                    Tracking(l) \subseteq {importer[a].cube}]_vars
  BY <1>1
<1> QED BY Invariance, <1>2, PTL DEF Spec, DeletesOnlyItsOwn
=============================================================================
