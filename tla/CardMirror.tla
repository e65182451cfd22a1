---------------------------- MODULE CardMirror ----------------------------
(***************************************************************************)
(* The local mirror of Scryfall's printings and the two kinds of rows that *)
(* point into it: price observations (ON DELETE CASCADE) and the resolved  *)
(* printing of an imported item (ON DELETE SET NULL).  The bulk sync       *)
(* deletes and reinserts every printing in one transaction, so it has to   *)
(* carry by hand whatever the deletion takes along, while requests set and *)
(* clear manual prices, import items and resolve them again.               *)
(*                                                                         *)
(* The variables hold what is committed.  Between its DELETE and its       *)
(* commit the sync holds locks on every printing and on the rows the       *)
(* deletion cascades to: requests still read the old rows, and wait before *)
(* they write.                                                             *)
(***************************************************************************)
EXTENDS Naturals, FiniteSets

CONSTANTS
    Cards,     \* printings Scryfall may publish
    Prices,    \* prices
    Items,     \* rows of collections and lists
    Wants,     \* the printing each item names
    Requests,  \* concurrent API requests
    None

ASSUME NoneOK == None \notin Cards /\ None \notin Prices
ASSUME WantsOK == Wants \in [Items -> Cards]

VARIABLES
    cards,     \* ids in scryfall_cards
    prices,    \* rows of price_observations, currency and foil left out
    resolved,  \* resolved_scryfall_card_id of the items that exist
    matched,   \* history: what the last resolution of each item found
    sync,      \* where the worker's bulk sync stands
    request,   \* request[r]: where a request stands
    wish,      \* history: the manual price last acknowledged, per printing
    raced      \* history: printings whose manual price changed in a gap

vars == <<cards, prices, resolved, matched, sync, request, wish, raced>>

Providers == {"scryfall", "mtgjson", "manual"}
Observation == [card : Cards, provider : Providers, price : Prices]

(* release: the printings in the bulk file; kept: preserved_prices.        *)
Sync == [pc : {"idle", "fetched", "snapshot", "deleted"},
         release : SUBSET Cards, kept : SUBSET Observation]
NoSync == [pc |-> "idle", release |-> {}, kept |-> {}]

(* A request has read and will write.  row: the manual row it read, which  *)
(* may be gone by now; read: the price it had then; changes: the           *)
(* resolutions it will store.                                              *)
Request == [pc : {"idle", "setting", "clearing", "resolving"},
            card : Cards \cup {None}, price : Prices \cup {None},
            row : {"none", "there", "gone"}, read : SUBSET Prices,
            changes : UNION {[S -> Cards \cup {None}] : S \in SUBSET Items}]
Idle == [pc |-> "idle", card |-> None, price |-> None, row |-> "none",
         read |-> {}, changes |-> <<>>]

Of(provider, c) == {o \in prices : o.provider = provider /\ o.card = c}
Manual(c) == Of("manual", c)
ManualPrice(c) == {o.price : o \in Manual(c)}

Init ==
    /\ cards = {} /\ prices = {}
    /\ resolved = <<>> /\ matched = <<>>
    /\ sync = NoSync
    /\ request = [r \in Requests |-> Idle]
    /\ wish = [c \in Cards |-> None]
    /\ raced = {}

Locked == sync.pc = "deleted"
Leave(r) == request' = [request EXCEPT ![r] = Idle]

-----------------------------------------------------------------------------
(* The worker *)

(* The bulk file is downloaded: its contents are fixed from here on. *)
Download ==
    /\ sync.pc = "idle"
    /\ \E release \in SUBSET Cards :
          sync' = [NoSync EXCEPT !.pc = "fetched", !.release = release]
    /\ UNCHANGED <<cards, prices, resolved, matched, request, wish, raced>>

(* Broken variant: the snapshot only takes the manual rows. *)
SnapshotManual ==
    /\ sync.pc = "fetched"
    /\ sync' = [sync EXCEPT !.pc = "snapshot",
                   !.kept = {o \in prices : o.provider = "manual"}]
    /\ UNCHANGED <<cards, prices, resolved, matched, request, wish, raced>>

Snapshot ==
    /\ sync.pc = "fetched"
    /\ sync' = [sync EXCEPT !.pc = "snapshot",
                   !.kept = {o \in prices : o.provider # "scryfall"}]
    /\ UNCHANGED <<cards, prices, resolved, matched, request, wish, raced>>

DeleteCards ==
    /\ sync.pc = "snapshot"
    /\ sync' = [sync EXCEPT !.pc = "deleted"]
    /\ UNCHANGED <<cards, prices, resolved, matched, request, wish, raced>>

(* Broken variant: every preserved row is inserted again. *)
RestoreAll(release, kept) == kept

(* restorable *)
Restore(release, kept) == {o \in kept : o.card \in release}

(* Broken variant: a price Scryfall does not know is inserted as null.      *)
QuotedNulls(release) == {[card : release, provider : {"scryfall"}, price : {None}]}

(* What _map_prices finds for the printings of the release. *)
Quoted(release) ==
    {fresh \in SUBSET [card : release, provider : {"scryfall"}, price : Prices] :
        \A o, p \in fresh : o.card = p.card => o = p}

(* New printings, fresh Scryfall prices, the preserved rows inserted again *)
(* under new row ids; every resolution was set to null by the DELETE.      *)
CommitSync ==
    /\ sync.pc = "deleted"
    /\ cards' = sync.release
    /\ \E fresh \in Quoted(sync.release) :
          prices' = fresh \cup Restore(sync.release, sync.kept)
    /\ resolved' = [i \in DOMAIN resolved |-> None]
    /\ request' = [r \in Requests |->
                      IF request[r].row = "there"
                      THEN [request[r] EXCEPT !.row = "gone"] ELSE request[r]]
    /\ wish' = [c \in Cards |-> IF c \in sync.release THEN wish[c] ELSE None]
    /\ sync' = NoSync
    /\ UNCHANGED <<matched, raced>>

(* An error or a kill: the transaction is rolled back. *)
SyncFails ==
    /\ sync.pc # "idle"
    /\ sync' = NoSync
    /\ UNCHANGED <<cards, prices, resolved, matched, request, wish, raced>>

(* run_price_sync, for the printings in the mirror.  The one worker never  *)
(* runs it beside the bulk sync, and no request touches its rows.          *)
MtgjsonSync ==
    /\ sync.pc = "idle"
    /\ \E fresh \in Quoted(cards) :
          prices' = {o \in prices : o.provider # "mtgjson"}
                       \cup {[o EXCEPT !.provider = "mtgjson"] : o \in fresh}
    /\ UNCHANGED <<cards, resolved, matched, sync, request, wish, raced>>

-----------------------------------------------------------------------------
(* Manual prices *)

Read(r, pc, c, p) ==
    request' = [request EXCEPT ![r] =
        [Idle EXCEPT !.pc = pc, !.card = c, !.price = p, !.read = ManualPrice(c),
                     !.row = IF Manual(c) = {} THEN "none" ELSE "there"]]

ReadToSet(r, c, p) ==
    /\ request[r].pc = "idle"
    /\ c \in cards
    /\ Read(r, "setting", c, p)
    /\ UNCHANGED <<cards, prices, resolved, matched, sync, wish, raced>>

ReadToClear(r, c) ==
    /\ request[r].pc = "idle"
    /\ Manual(c) # {}
    /\ Read(r, "clearing", c, None)
    /\ UNCHANGED <<cards, prices, resolved, matched, sync, wish, raced>>

(* History: a manual price was acknowledged; is the sync sure to keep it? *)
Acknowledge(c, p, sure) ==
    /\ wish' = [wish EXCEPT ![c] = p]
    /\ raced' = IF sure /\ sync.pc # "snapshot" THEN raced \ {c} ELSE raced \cup {c}

(* Broken variant: a price is always inserted. *)
InsertManual(c, p) == prices \cup {[card |-> c, provider |-> "manual", price |-> p]}

(* The one manual row of c, updated or inserted. *)
Upsert(c, p) ==
    (prices \ Manual(c)) \cup {[card |-> c, provider |-> "manual", price |-> p]}

(* An UPDATE needs the row it read, an INSERT needs the printing and no    *)
(* row under the unique key: otherwise the request fails.                  *)
SetManual(r) ==
    LET c == request[r].card IN
    /\ request[r].pc = "setting"
    /\ ~Locked
    /\ \/ request[r].row = "there" /\ request[r].read # {request[r].price}
       \/ request[r].row = "none" /\ c \in cards /\ Manual(c) = {}
    /\ prices' = Upsert(c, request[r].price)
    /\ Acknowledge(c, request[r].price, TRUE)
    /\ Leave(r)
    /\ UNCHANGED <<cards, resolved, matched, sync>>

(* A price equal to the one read changes nothing in the session: there is  *)
(* no UPDATE and no wait, only the row is read again.                      *)
KeepManual(r) ==
    LET c == request[r].card IN
    /\ request[r].pc = "setting"
    /\ request[r].row = "there" /\ request[r].read = {request[r].price}
    /\ wish' = [wish EXCEPT ![c] = request[r].price]
    /\ raced' = IF ManualPrice(c) = request[r].read THEN raced ELSE raced \cup {c}
    /\ Leave(r)
    /\ UNCHANGED <<cards, prices, resolved, matched, sync>>

(* A DELETE of a row that is gone deletes nothing, and is still answered   *)
(* as a success.                                                           *)
ClearManual(r) ==
    LET c == request[r].card
        hit == request[r].row = "there" IN
    /\ request[r].pc = "clearing"
    /\ ~Locked
    /\ prices' = IF hit THEN prices \ Manual(c) ELSE prices
    /\ Acknowledge(c, None, hit)
    /\ request' = [q \in Requests |->
          IF q = r THEN Idle
          ELSE IF hit /\ request[q].card = c /\ request[q].row = "there"
               THEN [request[q] EXCEPT !.row = "gone"] ELSE request[q]]
    /\ UNCHANGED <<cards, resolved, matched, sync>>

-----------------------------------------------------------------------------
(* Resolution *)

(* resolve_card: the printing an item names, if the mirror has it. *)
Resolve(i) == IF Wants[i] \in cards THEN Wants[i] ELSE None

(* confirm_import resolves the rows it will insert ... *)
ReadToImport(r, i) ==
    /\ request[r].pc = "idle"
    /\ i \notin DOMAIN resolved
    /\ request' = [request EXCEPT ![r] = [Idle EXCEPT !.pc = "resolving",
                                             !.changes = [j \in {i} |-> Resolve(j)]]]
    /\ UNCHANGED <<cards, prices, resolved, matched, sync, wish, raced>>

(* ... and resolve_collection all that exist; only what differs from the   *)
(* value it read is written back.                                          *)
ReadToResolve(r) ==
    /\ request[r].pc = "idle"
    /\ LET changed == {i \in DOMAIN resolved : Resolve(i) # resolved[i]} IN
          request' = [request EXCEPT ![r] = [Idle EXCEPT !.pc = "resolving",
                         !.changes = [i \in changed |-> Resolve(i)]]]
    /\ UNCHANGED <<cards, prices, resolved, matched, sync, wish, raced>>

(* The foreign key: what is stored must be in the mirror by now. *)
Storable(changes) == \A i \in DOMAIN changes : changes[i] \in cards \cup {None}

(* The rows of old with the changes written over them, new rows included. *)
Written(changes, old) ==
    [i \in DOMAIN changes \cup DOMAIN old |->
        IF i \in DOMAIN changes THEN changes[i] ELSE old[i]]

Store(r) ==
    LET changes == request[r].changes IN
    /\ request[r].pc = "resolving"
    /\ ~Locked
    /\ Storable(changes)
    /\ resolved' = Written(changes, resolved)
    /\ matched' = Written(changes, matched)
    /\ Leave(r)
    /\ UNCHANGED <<cards, prices, sync, wish, raced>>

(* A constraint, a row that is gone, a lost connection. *)
RequestFails(r) ==
    /\ request[r].pc # "idle"
    /\ Leave(r)
    /\ UNCHANGED <<cards, prices, resolved, matched, sync, wish, raced>>

-----------------------------------------------------------------------------
WorkerStep ==
    Download \/ Snapshot \/ DeleteCards \/ CommitSync \/ SyncFails \/ MtgjsonSync

RequestStep(r) ==
    \/ \E c \in Cards, p \in Prices : ReadToSet(r, c, p)
    \/ \E c \in Cards : ReadToClear(r, c)
    \/ \E i \in Items : ReadToImport(r, i)
    \/ ReadToResolve(r)
    \/ SetManual(r) \/ KeepManual(r) \/ ClearManual(r) \/ Store(r) \/ RequestFails(r)

Next == WorkerStep \/ \E r \in Requests : RequestStep(r)

Spec == Init /\ [][Next]_vars

-----------------------------------------------------------------------------
(* Type invariant. *)
TypeOK ==
    /\ cards \subseteq Cards
    /\ prices \subseteq Observation
    /\ DOMAIN resolved \subseteq Items
    /\ \A i \in DOMAIN resolved : resolved[i] \in Cards \cup {None}
    /\ DOMAIN matched = DOMAIN resolved
    /\ sync \in Sync
    /\ request \in [Requests -> Request]
    /\ wish \in [Cards -> Prices \cup {None}]
    /\ raced \subseteq Cards

(* The foreign keys of price_observations and of the resolved printings    *)
(* hold after every commit of run_bulk_sync, whatever the release dropped, *)
(* and a printing has one price per provider after any mix of syncs,       *)
(* restored rows and manual prices.                                        *)
KeysHold ==
    /\ \A o \in prices : o.card \in cards
    /\ \A o, p \in prices : o.card = p.card /\ o.provider = p.provider => o = p
    /\ \A i \in DOMAIN resolved : resolved[i] \in cards \cup {None}

(* What the user last set or cleared by hand is what the table holds,      *)
(* bulk syncs notwithstanding, as long as the printing stays and the       *)
(* change did not fall into the gap between snapshot and deletion, hit a   *)
(* row that had just been replaced, or set the price it had read again     *)
(* while another request was changing it.                                  *)
ManualPriceKept ==
    \A c \in Cards \ raced : ManualPrice(c) = {wish[c]} \ {None}

(* A bulk sync takes no other provider's prices with it: MTGJSON's rows of *)
(* the printings that stay are the same before and after.                  *)
SyncKeepsMtgjson ==
    [][\A c \in Cards :
          Locked /\ cards' = sync.release /\ c \in cards \cap cards'
             => Of("mtgjson", c) = Of("mtgjson", c)']_vars

(* The comment on CollectionItem: a resolved printing can be null if       *)
(* resolution found no match.  Stated the other way round, for an item     *)
(* whose printing has not left the mirror.                                 *)
NullMeansNoMatch ==
    \A i \in DOMAIN resolved :
        resolved[i] = None => matched[i] \notin cards
=============================================================================
