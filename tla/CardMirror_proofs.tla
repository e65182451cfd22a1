------------------------- MODULE CardMirror_proofs -------------------------
(***************************************************************************)
(* Proofs about CardMirror, for any printings, prices, items and requests. *)
(*                                                                         *)
(* What the bulk sync will insert again must stay true of the tables until *)
(* its commit, although requests write in between.  Preserved says so of   *)
(* the snapshot: MTGJSON's rows are those of the table, and a manual price *)
(* is the one last acknowledged unless it changed in the gap.  RowsRead    *)
(* says that the row a request means to update is there while it is        *)
(* believed to be.                                                         *)
(***************************************************************************)
EXTENDS CardMirror, TLAPS

(* One row per printing and provider. *)
OnePerKey(rows) ==
    \A o, p \in rows : o.card = p.card /\ o.provider = p.provider => o = p

KeptManual(c) == {o \in sync.kept : o.provider = "manual" /\ o.card = c}

Preserved ==
    /\ OnePerKey(sync.kept)
    /\ \A o \in sync.kept : o.provider # "scryfall"
    /\ sync.pc \in {"snapshot", "deleted"} =>
          /\ \A o \in Observation :
                o.provider = "mtgjson" => (o \in sync.kept <=> o \in prices)
          /\ \A c \in Cards \ raced :
                {o.price : o \in KeptManual(c)} = {wish[c]} \ {None}

RowsRead ==
    \A r \in Requests :
        /\ request[r].row = "there" => Manual(request[r].card) # {}
        /\ request[r].pc \in {"setting", "clearing"} => request[r].card \in Cards
        /\ request[r].pc = "setting" => request[r].price \in Prices

IInv == TypeOK /\ KeysHold /\ ManualPriceKept /\ Preserved /\ RowsRead

-----------------------------------------------------------------------------
(* The prices quoted for a release: one per printing, of one provider.     *)
LEMMA QuotedRows ==
    ASSUME NEW release \in SUBSET Cards, NEW fresh \in Quoted(release)
    PROVE  /\ fresh \subseteq Observation
           /\ \A o \in fresh : o.card \in release /\ o.provider = "scryfall"
           /\ \A o, p \in fresh : o.card = p.card => o = p
BY DEF Quoted, Observation, Providers

LEMMA IdleTyped == Idle \in Request /\ Idle.row = "none" /\ Idle.pc = "idle"
<1>1. <<>> \in [{} -> Cards \cup {None}]
  OBVIOUS
<1>2. <<>> \in UNION {[S -> Cards \cup {None}] : S \in SUBSET Items}
  BY <1>1
<1> QED BY <1>2 DEF Idle, Request

(* The state the module starts in. *)
LEMMA InitInv == Init => IInv
<1> SUFFICES ASSUME Init PROVE IInv
  OBVIOUS
<1>1. TypeOK
  BY IdleTyped DEF Init, TypeOK, Sync, NoSync
<1>2. KeysHold /\ Preserved /\ RowsRead
  BY DEF Init, KeysHold, Preserved, RowsRead, OnePerKey, NoSync, Idle
<1>3. ManualPriceKept
  BY DEF Init, ManualPriceKept, ManualPrice, Manual, Of
<1> QED BY <1>1, <1>2, <1>3 DEF IInv

-----------------------------------------------------------------------------
LEMMA PriceTyped ==
    ASSUME IInv, NEW c \in Cards
    PROVE  ManualPrice(c) \in SUBSET Prices
BY DEF IInv, TypeOK, ManualPrice, Manual, Of, Observation

(* Reading, and leaving without a write: the tables and the sync stay.     *)
LEMMA TablesStay ==
    ASSUME IInv, UNCHANGED <<cards, prices, resolved, matched, sync, wish, raced>>
    PROVE  KeysHold' /\ ManualPriceKept' /\ Preserved'
<1>1. \A c \in Cards : Manual(c)' = Manual(c) /\ KeptManual(c)' = KeptManual(c)
  BY DEF Manual, Of, KeptManual
<1>2. KeysHold'
  BY DEF IInv, KeysHold
<1>3. ManualPriceKept'
  BY <1>1 DEF IInv, ManualPriceKept, ManualPrice
<1>4. Preserved'
  BY <1>1 DEF IInv, Preserved, OnePerKey
<1> QED BY <1>2, <1>3, <1>4

(* A request starts with a row it has just read, or with none.             *)
LEMMA ReadInv ==
    ASSUME IInv, NEW r \in Requests, NEW q \in Request,
           request' = [request EXCEPT ![r] = q],
           q.row = "there" => Manual(q.card) # {},
           q.pc \in {"setting", "clearing"} => q.card \in Cards,
           q.pc = "setting" => q.price \in Prices,
           UNCHANGED <<cards, prices, resolved, matched, sync, wish, raced>>
    PROVE  IInv'
<1>1. TypeOK'
  BY DEF IInv, TypeOK
<1>2. RowsRead'
  <2>1. \A c : Manual(c)' = Manual(c)
    BY DEF Manual, Of
  <2> QED BY <2>1 DEF IInv, TypeOK, RowsRead
<1> QED BY <1>1, <1>2, TablesStay DEF IInv

LEMMA ReadsInv ==
    ASSUME IInv, NEW r \in Requests,
           \/ \E c \in Cards, p \in Prices : ReadToSet(r, c, p)
           \/ \E c \in Cards : ReadToClear(r, c)
           \/ \E i \in Items : ReadToImport(r, i)
           \/ ReadToResolve(r)
           \/ RequestFails(r)
    PROVE  IInv'
<1>1. \A S \in SUBSET Items : \A f \in [S -> Cards \cup {None}] :
          [Idle EXCEPT !.pc = "resolving", !.changes = f] \in Request
  BY DEF Idle, Request
<1>2. \A i \in Items : Resolve(i) \in Cards \cup {None}
  BY WantsOK DEF Resolve
<1>3. CASE \E c \in Cards, p \in Prices : ReadToSet(r, c, p)
  <2> PICK c \in Cards, p \in Prices : ReadToSet(r, c, p)
    BY <1>3
  <2> DEFINE q == [Idle EXCEPT !.pc = "setting", !.card = c, !.price = p,
                        !.read = ManualPrice(c), !.row = IF Manual(c) = {} THEN "none" ELSE "there"]
  <2>1. /\ q \in Request /\ q.card \in Cards
        /\ q.row = "there" => Manual(q.card) # {}
        /\ q.pc = "setting" => q.price \in Prices
    <3>1. ManualPrice(c) \in SUBSET Prices
      BY PriceTyped
    <3>2. q \in Request
      BY <3>1, IdleTyped DEF Request
    <3> QED BY <3>2 DEF Idle
  <2>2. /\ request' = [request EXCEPT ![r] = q]
        /\ UNCHANGED <<cards, prices, resolved, matched, sync, wish, raced>>
    BY DEF ReadToSet, Read
  <2> QED BY <2>1, <2>2, ReadInv
<1>4. CASE \E c \in Cards : ReadToClear(r, c)
  <2> PICK c \in Cards : ReadToClear(r, c)
    BY <1>4
  <2> DEFINE q == [Idle EXCEPT !.pc = "clearing", !.card = c, !.price = None,
                        !.read = ManualPrice(c), !.row = IF Manual(c) = {} THEN "none" ELSE "there"]
  <2>1. /\ q \in Request /\ q.card \in Cards
        /\ q.row = "there" => Manual(q.card) # {}
        /\ q.pc = "setting" => q.price \in Prices
    <3>1. ManualPrice(c) \in SUBSET Prices
      BY PriceTyped
    <3>2. q \in Request
      BY <3>1, IdleTyped DEF Request
    <3> QED BY <3>2 DEF Idle
  <2>2. /\ request' = [request EXCEPT ![r] = q]
        /\ UNCHANGED <<cards, prices, resolved, matched, sync, wish, raced>>
    BY DEF ReadToClear, Read
  <2> QED BY <2>1, <2>2, ReadInv
<1>5. CASE \E i \in Items : ReadToImport(r, i)
  <2> PICK i \in Items : ReadToImport(r, i)
    BY <1>5
  <2> DEFINE f == [j \in {i} |-> Resolve(j)]
             q == [Idle EXCEPT !.pc = "resolving", !.changes = f]
  <2>1. f \in [{i} -> Cards \cup {None}]
    BY <1>2
  <2>2. q \in Request /\ q.row # "there" /\ q.pc = "resolving"
    <3>1. q \in Request
      BY <1>1, <2>1
    <3> QED BY <3>1 DEF Idle
  <2>3. /\ request' = [request EXCEPT ![r] = q]
        /\ UNCHANGED <<cards, prices, resolved, matched, sync, wish, raced>>
    BY DEF ReadToImport
  <2> QED BY <2>2, <2>3, ReadInv
<1>6. CASE ReadToResolve(r)
  <2> DEFINE changed == {i \in DOMAIN resolved : Resolve(i) # resolved[i]}
             f == [i \in changed |-> Resolve(i)]
             q == [Idle EXCEPT !.pc = "resolving", !.changes = f]
  <2>1. changed \in SUBSET Items /\ f \in [changed -> Cards \cup {None}]
    BY <1>2 DEF IInv, TypeOK
  <2>2. q \in Request /\ q.row # "there" /\ q.pc = "resolving"
    <3>1. q \in Request
      BY <1>1, <2>1
    <3> QED BY <3>1 DEF Idle
  <2>3. /\ request' = [request EXCEPT ![r] = q]
        /\ UNCHANGED <<cards, prices, resolved, matched, sync, wish, raced>>
    BY <1>6 DEF ReadToResolve
  <2> QED BY <2>2, <2>3, ReadInv
<1>7. CASE RequestFails(r)
  <2> QED BY <1>7, IdleTyped, ReadInv DEF RequestFails, Leave
<1> QED BY <1>3, <1>4, <1>5, <1>6, <1>7

-----------------------------------------------------------------------------
(* A resolution is stored: only printings in the mirror, or null.          *)
LEMMA StoreInv ==
    ASSUME IInv, NEW r \in Requests, Store(r)
    PROVE  IInv'
<1> DEFINE changes == request[r].changes
           after == Written(changes, resolved)
<1>1. /\ DOMAIN changes \subseteq Items
      /\ \A i \in DOMAIN changes : changes[i] \in cards \cup {None}
  <2>1. PICK S \in SUBSET Items : changes \in [S -> Cards \cup {None}]
    <3>1. request[r] \in Request
      BY DEF IInv, TypeOK
    <3>2. changes \in UNION {[S -> Cards \cup {None}] : S \in SUBSET Items}
      BY <3>1 DEF Request
    <3> QED BY <3>2
  <2> QED BY <2>1 DEF Store, Storable
<1>2. /\ DOMAIN after = DOMAIN changes \cup DOMAIN resolved
      /\ \A i \in DOMAIN after : after[i] \in cards \cup {None}
  BY <1>1 DEF Written, IInv, KeysHold
<1>3. /\ resolved' = after /\ matched' = Written(changes, matched)
      /\ request' = [request EXCEPT ![r] = Idle]
      /\ UNCHANGED <<cards, prices, sync, wish, raced>>
  BY DEF Store, Leave
<1> HIDE DEF changes
<1>4. TypeOK'
  <2>1. DOMAIN resolved' \subseteq Items
    BY <1>1, <1>2, <1>3 DEF IInv, TypeOK
  <2>2. DOMAIN matched' = DOMAIN resolved'
    BY <1>3 DEF Written, IInv, TypeOK
  <2>3. \A i \in DOMAIN resolved' : resolved'[i] \in Cards \cup {None}
    BY <1>2, <1>3 DEF IInv, TypeOK
  <2>4. request' \in [Requests -> Request]
    BY <1>3, IdleTyped DEF IInv, TypeOK
  <2> QED BY <1>3, <2>1, <2>2, <2>3, <2>4 DEF IInv, TypeOK
<1>5. KeysHold'
  BY <1>2, <1>3 DEF IInv, KeysHold
<1>6. \A c : Manual(c)' = Manual(c) /\ KeptManual(c)' = KeptManual(c)
  BY <1>3 DEF Manual, Of, KeptManual
<1>7. ManualPriceKept' /\ Preserved'
  BY <1>3, <1>6 DEF IInv, ManualPriceKept, ManualPrice, Preserved, OnePerKey
<1>8. RowsRead'
  BY <1>3, <1>6 DEF IInv, TypeOK, RowsRead, Idle
<1> QED BY <1>4, <1>5, <1>7, <1>8 DEF IInv

-----------------------------------------------------------------------------
(* A manual price is written: the row that was there is replaced, or one   *)
(* of a printing in the mirror is new.                                     *)
LEMMA SetManualInv ==
    ASSUME IInv, NEW r \in Requests, SetManual(r)
    PROVE  IInv'
<1> DEFINE c == request[r].card
           p == request[r].price
           row == [card |-> c, provider |-> "manual", price |-> p]
<1>1. c \in cards /\ c \in Cards
  <2>1. CASE request[r].row = "there"
    BY <2>1 DEF IInv, RowsRead, KeysHold, Manual, Of, TypeOK, Observation
  <2>2. CASE request[r].row # "there"
    BY <2>2 DEF SetManual, IInv, TypeOK
  <2> QED BY <2>1, <2>2
<1>2. p \in Prices /\ row \in Observation
  <2>1. p \in Prices
    BY DEF SetManual, IInv, RowsRead
  <2> QED BY <1>1, <2>1 DEF Observation, Providers
<1>3. /\ prices' = (prices \ Manual(c)) \cup {row}
      /\ wish' = [wish EXCEPT ![c] = p]
      /\ raced' = IF sync.pc # "snapshot" THEN raced \ {c} ELSE raced \cup {c}
      /\ request' = [request EXCEPT ![r] = Idle]
      /\ sync.pc # "deleted"
      /\ UNCHANGED <<cards, resolved, matched, sync>>
  BY DEF SetManual, Upsert, Acknowledge, Leave, Locked
<1>4. \A d \in Cards : Manual(d)' = IF d = c THEN {row} ELSE Manual(d)
  BY <1>1, <1>2, <1>3 DEF Manual, Of
<1> HIDE DEF c, p
<1>5. TypeOK'
  <2>1. request' \in [Requests -> Request]
    BY <1>3, IdleTyped DEF IInv, TypeOK
  <2> QED BY <1>1, <1>2, <1>3, <2>1 DEF IInv, TypeOK
<1>6. KeysHold'
  BY <1>1, <1>2, <1>3 DEF IInv, KeysHold, Manual, Of
<1>7. ManualPriceKept'
  <2> SUFFICES ASSUME NEW d \in Cards, d \notin raced'
               PROVE  {o.price : o \in Manual(d)'} = {wish'[d]} \ {None}
    BY DEF ManualPriceKept, ManualPrice
  <2>1. CASE d = c
    BY <1>2, <1>3, <1>4, <2>1, NoneOK DEF IInv, TypeOK
  <2>2. CASE d # c
    BY <1>3, <1>4, <2>2 DEF IInv, TypeOK, ManualPriceKept, ManualPrice
  <2> QED BY <2>1, <2>2
<1>8. Preserved'
  <2>1. \A o \in Observation : o.provider = "mtgjson" => (o \in prices' <=> o \in prices)
    BY <1>3 DEF Manual, Of
  <2>2. \A d \in Cards \ raced' :
           sync.pc \in {"snapshot", "deleted"} => d # c /\ d \in Cards \ raced
    BY <1>3
  <2>3. \A d : KeptManual(d)' = KeptManual(d)
    BY <1>3 DEF KeptManual
  <2> QED BY <1>3, <2>1, <2>2, <2>3 DEF IInv, TypeOK, Preserved, OnePerKey
<1>9. RowsRead'
  <2>1. ASSUME NEW q \in Requests, request[q].row = "there"
        PROVE  \E o \in prices' : o.provider = "manual" /\ o.card = request[q].card
    <3>1. PICK o \in prices : o.provider = "manual" /\ o.card = request[q].card
      BY <2>1 DEF IInv, RowsRead, Manual, Of
    <3>2. CASE o.card = c
      <4>1. row \in prices'
        BY <1>3
      <4>2. row.provider = "manual" /\ row.card = c
        OBVIOUS
      <4> QED BY <3>1, <3>2, <4>1, <4>2
    <3>3. CASE o.card # c
      BY <1>3, <3>1, <3>3 DEF Manual, Of
    <3> QED BY <3>2, <3>3
  <2>2. ASSUME NEW q \in Requests
        PROVE  request'[q] = Idle \/ request'[q] = request[q]
    BY <1>3 DEF IInv, TypeOK
  <2> QED BY <2>1, <2>2, IdleTyped DEF IInv, RowsRead, Manual, Of
<1> QED BY <1>5, <1>6, <1>7, <1>8, <1>9 DEF IInv

(* A manual price is set to what it was read to be: no row changes, and if *)
(* the price still is the one read, it is the one last acknowledged.       *)
LEMMA KeepManualInv ==
    ASSUME IInv, NEW r \in Requests, KeepManual(r)
    PROVE  IInv'
<1> DEFINE c == request[r].card
           p == request[r].price
<1>1. c \in Cards /\ p \in Prices
  BY DEF KeepManual, IInv, RowsRead
<1>2. /\ wish' = [wish EXCEPT ![c] = p]
      /\ raced' = IF ManualPrice(c) = {p} THEN raced ELSE raced \cup {c}
      /\ request' = [request EXCEPT ![r] = Idle]
      /\ UNCHANGED <<cards, prices, resolved, matched, sync>>
  BY DEF KeepManual, Leave
<1> HIDE DEF c, p
<1>3. \A d \in Cards \ raced' : d \in Cards \ raced /\ wish'[d] = wish[d]
  <2> SUFFICES ASSUME NEW d \in Cards, d \notin raced'
               PROVE  d \notin raced /\ wish'[d] = wish[d]
    OBVIOUS
  <2>1. d \notin raced
    BY <1>2
  <2>2. CASE d = c
    <3>1. {p} = {wish[c]} \ {None}
      BY <1>1, <1>2, <2>1, <2>2 DEF IInv, ManualPriceKept
    <3>2. wish[c] = p
      BY <3>1
    <3> QED BY <1>1, <1>2, <2>1, <2>2, <3>2 DEF IInv, TypeOK
  <2>3. CASE d # c
    BY <1>2, <2>1, <2>3 DEF IInv, TypeOK
  <2> QED BY <2>2, <2>3
<1>4. TypeOK'
  BY <1>1, <1>2, IdleTyped DEF IInv, TypeOK
<1>5. KeysHold'
  BY <1>2 DEF IInv, KeysHold
<1>6. \A d : Manual(d)' = Manual(d) /\ KeptManual(d)' = KeptManual(d)
  BY <1>2 DEF Manual, Of, KeptManual
<1>7. ManualPriceKept'
  BY <1>3, <1>6 DEF IInv, ManualPriceKept, ManualPrice
<1>8. Preserved'
  BY <1>2, <1>3, <1>6 DEF IInv, Preserved, OnePerKey
<1>9. RowsRead'
  BY <1>2, <1>6, IdleTyped DEF IInv, TypeOK, RowsRead
<1> QED BY <1>4, <1>5, <1>7, <1>8, <1>9 DEF IInv

-----------------------------------------------------------------------------
(* A manual price is cleared: the row is deleted if it was there, and      *)
(* whoever else had read it will find it gone.                             *)
LEMMA ClearManualInv ==
    ASSUME IInv, NEW r \in Requests, ClearManual(r)
    PROVE  IInv'
<1> DEFINE c == request[r].card
           hit == request[r].row = "there"
           Gone(q) == hit /\ request[q].card = c /\ request[q].row = "there"
<1>1. c \in Cards
  BY DEF ClearManual, IInv, RowsRead
<1>2. /\ prices' = IF hit THEN prices \ Manual(c) ELSE prices
      /\ wish' = [wish EXCEPT ![c] = None]
      /\ raced' = IF hit /\ sync.pc # "snapshot" THEN raced \ {c} ELSE raced \cup {c}
      /\ request' = [q \in Requests |->
             IF q = r THEN Idle
             ELSE IF Gone(q) THEN [request[q] EXCEPT !.row = "gone"] ELSE request[q]]
      /\ sync.pc # "deleted"
      /\ UNCHANGED <<cards, resolved, matched, sync>>
  BY DEF ClearManual, Acknowledge, Locked
<1>3. \A d \in Cards : Manual(d)' = IF hit /\ d = c THEN {} ELSE Manual(d)
  BY <1>1, <1>2 DEF Manual, Of
<1>4. TypeOK'
  <2>1. request' \in [Requests -> Request]
    <3>1. \A q \in Requests : [request[q] EXCEPT !.row = "gone"] \in Request
      BY DEF IInv, TypeOK, Request
    <3> QED BY <1>2, <3>1, IdleTyped DEF IInv, TypeOK
  <2>2. prices' \subseteq Observation /\ wish' \in [Cards -> Prices \cup {None}]
        /\ raced' \subseteq Cards
    BY <1>1, <1>2 DEF IInv, TypeOK
  <2> QED BY <1>2, <2>1, <2>2 DEF IInv, TypeOK
<1>5. prices' \subseteq prices
  BY <1>2
<1>6. KeysHold'
  BY <1>2, <1>5 DEF IInv, KeysHold
<1>7. ManualPriceKept'
  <2> SUFFICES ASSUME NEW d \in Cards, d \notin raced'
               PROVE  {o.price : o \in Manual(d)'} = {wish'[d]} \ {None}
    BY DEF ManualPriceKept, ManualPrice
  <2>1. CASE d = c
    BY <1>1, <1>2, <1>3, <2>1 DEF IInv, TypeOK
  <2>2. CASE d # c
    BY <1>2, <1>3, <2>2 DEF IInv, TypeOK, ManualPriceKept, ManualPrice
  <2> QED BY <2>1, <2>2
<1>8. Preserved'
  <2>1. \A o \in Observation : o.provider = "mtgjson" => (o \in prices' <=> o \in prices)
    BY <1>2 DEF Manual, Of
  <2>2. \A d \in Cards \ raced' :
           sync.pc \in {"snapshot", "deleted"} => d # c /\ d \in Cards \ raced
    BY <1>2
  <2>3. \A d : KeptManual(d)' = KeptManual(d)
    BY <1>2 DEF KeptManual
  <2> QED BY <1>2, <2>1, <2>2, <2>3 DEF IInv, TypeOK, Preserved, OnePerKey
<1>9. RowsRead'
  <2> SUFFICES ASSUME NEW q \in Requests, q # r
               PROVE  /\ request'[q].row = "there" =>
                            \E o \in prices' : o.provider = "manual"
                                             /\ o.card = request'[q].card
                      /\ request'[q].pc = request[q].pc
                      /\ request'[q].card = request[q].card
                      /\ request'[q].price = request[q].price
    BY <1>2, IdleTyped DEF IInv, RowsRead, Manual, Of
  <2>1. request[q] \in Request
    BY DEF IInv, TypeOK
  <2>2. CASE Gone(q)
    <3>1. request'[q] = [request[q] EXCEPT !.row = "gone"]
      BY <1>2, <2>2
    <3> QED BY <2>1, <3>1 DEF Request
  <2>3. CASE ~Gone(q)
    <3>1. request'[q] = request[q]
      BY <1>2, <2>3
    <3>2. request[q].row = "there" =>
             \E o \in prices : o.provider = "manual" /\ o.card = request[q].card
      BY DEF IInv, RowsRead, Manual, Of
    <3> QED BY <1>2, <2>3, <3>1, <3>2 DEF Manual, Of
  <2> QED BY <2>2, <2>3
<1> QED BY <1>4, <1>6, <1>7, <1>8, <1>9 DEF IInv

-----------------------------------------------------------------------------
(* The worker downloads, takes its snapshot, deletes, or gives up.         *)
LEMMA PrepareInv ==
    ASSUME IInv, Download \/ Snapshot \/ DeleteCards \/ SyncFails
    PROVE  IInv'
<1>1. UNCHANGED <<cards, prices, resolved, matched, request, wish, raced>>
  BY DEF Download, Snapshot, DeleteCards, SyncFails
<1>2. \A d : Manual(d)' = Manual(d)
  BY <1>1 DEF Manual, Of
<1>3. KeysHold' /\ ManualPriceKept' /\ RowsRead'
  BY <1>1, <1>2 DEF IInv, KeysHold, ManualPriceKept, ManualPrice, RowsRead
<1>4. TypeOK' /\ Preserved'
  <2>1. sync \in Sync
    BY DEF IInv, TypeOK
  <2>2. CASE Download
    <3>1. sync' \in Sync /\ sync'.pc = "fetched" /\ sync'.kept = {}
      BY <2>2 DEF Download, Sync, NoSync
    <3> QED BY <1>1, <3>1 DEF IInv, TypeOK, Preserved, OnePerKey
  <2>3. CASE Snapshot
    <3>1. /\ sync' \in Sync /\ sync'.pc = "snapshot"
          /\ sync'.kept = {o \in prices : o.provider # "scryfall"}
      BY <2>1, <2>3 DEF Snapshot, Sync, IInv, TypeOK
    <3>2. \A d : KeptManual(d)' = Manual(d)
      BY <3>1 DEF KeptManual, Manual, Of
    <3>3. OnePerKey(sync.kept)' /\ \A o \in sync'.kept : o.provider # "scryfall"
      BY <3>1 DEF OnePerKey, IInv, KeysHold
    <3>4. \A o \in Observation : o.provider = "mtgjson"
             => (o \in sync'.kept <=> o \in prices')
      BY <1>1, <3>1
    <3>5. \A d \in Cards \ raced' :
             {o.price : o \in KeptManual(d)'} = {wish'[d]} \ {None}
      BY <1>1, <3>2 DEF IInv, ManualPriceKept, ManualPrice
    <3> QED BY <1>1, <3>1, <3>3, <3>4, <3>5 DEF IInv, TypeOK, Preserved
  <2>4. CASE DeleteCards
    <3>1. /\ sync' \in Sync /\ sync'.pc = "deleted" /\ sync.pc = "snapshot"
          /\ sync'.kept = sync.kept
      BY <2>1, <2>4 DEF DeleteCards, Sync
    <3>2. \A d : KeptManual(d)' = KeptManual(d)
      BY <3>1 DEF KeptManual
    <3> QED BY <1>1, <3>1, <3>2 DEF IInv, TypeOK, Preserved, OnePerKey
  <2>5. CASE SyncFails
    <3>1. sync' \in Sync /\ sync'.pc = "idle" /\ sync'.kept = {}
      BY <2>5 DEF SyncFails, Sync, NoSync
    <3> QED BY <1>1, <3>1 DEF IInv, TypeOK, Preserved, OnePerKey
  <2> QED BY <2>2, <2>3, <2>4, <2>5
<1> QED BY <1>3, <1>4 DEF IInv

(* MTGJSON's rows are replaced while no snapshot is held. *)
LEMMA MtgjsonSyncInv ==
    ASSUME IInv, MtgjsonSync
    PROVE  IInv'
<1>1. PICK fresh \in Quoted(cards) :
         prices' = {o \in prices : o.provider # "mtgjson"}
                      \cup {[o EXCEPT !.provider = "mtgjson"] : o \in fresh}
  BY DEF MtgjsonSync
<1> DEFINE kept == {o \in prices : o.provider # "mtgjson"}
           quoted == {[o EXCEPT !.provider = "mtgjson"] : o \in fresh}
<1>2. /\ fresh \subseteq Observation
      /\ \A o \in fresh : o.card \in cards
      /\ \A o, p \in fresh : o.card = p.card => o = p
  BY <1>1, QuotedRows DEF IInv, TypeOK
<1>3. /\ quoted \subseteq Observation
      /\ \A o \in quoted : o.card \in cards /\ o.provider = "mtgjson"
      /\ \A o, p \in quoted : o.card = p.card => o = p
  <2>1. ASSUME NEW o \in fresh
        PROVE  /\ [o EXCEPT !.provider = "mtgjson"] \in Observation
               /\ [o EXCEPT !.provider = "mtgjson"].card = o.card
               /\ [o EXCEPT !.provider = "mtgjson"].provider = "mtgjson"
    BY <1>2 DEF Observation, Providers
  <2>2. ASSUME NEW q \in quoted
        PROVE  /\ q \in Observation /\ q.card \in cards /\ q.provider = "mtgjson"
               /\ \E o \in fresh : /\ q = [o EXCEPT !.provider = "mtgjson"]
                                 /\ q.card = o.card
    <3>1. PICK o \in fresh : q = [o EXCEPT !.provider = "mtgjson"]
      OBVIOUS
    <3> QED BY <1>2, <2>1, <3>1
  <2> HIDE DEF quoted
  <2>3. ASSUME NEW o \in quoted, NEW p \in quoted, o.card = p.card
        PROVE  o = p
    <3>1. PICK f \in fresh : o = [f EXCEPT !.provider = "mtgjson"] /\ o.card = f.card
      BY <2>2
    <3>2. PICK g \in fresh : p = [g EXCEPT !.provider = "mtgjson"] /\ p.card = g.card
      BY <2>2
    <3>3. f = g
      BY <1>2, <2>3, <3>1, <3>2
    <3> QED BY <3>1, <3>2, <3>3
  <2> QED BY <2>2, <2>3
<1> HIDE DEF quoted
<1>4. prices' = kept \cup quoted
  BY <1>1 DEF quoted
<1>5. sync.pc = "idle"
      /\ UNCHANGED <<cards, resolved, matched, sync, request, wish, raced>>
  BY DEF MtgjsonSync
<1>6. TypeOK'
  BY <1>3, <1>4, <1>5 DEF IInv, TypeOK
<1>7. KeysHold'
  BY <1>3, <1>4, <1>5 DEF IInv, KeysHold
<1>8. \A d : Manual(d)' = Manual(d)
  BY <1>3, <1>4 DEF Manual, Of
<1>9. ManualPriceKept' /\ Preserved' /\ RowsRead'
  BY <1>5, <1>8 DEF IInv, ManualPriceKept, ManualPrice, Preserved, OnePerKey, RowsRead
<1> QED BY <1>6, <1>7, <1>9 DEF IInv

(* The new mirror is committed with fresh quotes and what was preserved.   *)
LEMMA CommitSyncInv ==
    ASSUME IInv, CommitSync
    PROVE  IInv'
<1>1. PICK fresh \in Quoted(sync.release) :
         prices' = fresh \cup Restore(sync.release, sync.kept)
  BY DEF CommitSync
<1> DEFINE restored == {o \in sync.kept : o.card \in sync.release}
<1>2. prices' = fresh \cup restored
  BY <1>1 DEF Restore
<1>3. sync.release \subseteq Cards /\ sync.kept \subseteq Observation
      /\ sync.pc = "deleted"
  BY DEF IInv, TypeOK, Sync, CommitSync
<1>4. /\ fresh \subseteq Observation
      /\ \A o \in fresh : o.card \in sync.release /\ o.provider = "scryfall"
      /\ \A o, p \in fresh : o.card = p.card => o = p
  BY <1>1, <1>3, QuotedRows
<1>5. /\ cards' = sync.release /\ sync' = NoSync
      /\ resolved' = [i \in DOMAIN resolved |-> None]
      /\ wish' = [c \in Cards |-> IF c \in sync.release THEN wish[c] ELSE None]
      /\ UNCHANGED <<matched, raced>>
      /\ request' = [r \in Requests |->
             IF request[r].row = "there"
             THEN [request[r] EXCEPT !.row = "gone"] ELSE request[r]]
  BY DEF CommitSync
<1>6. \A r \in Requests :
         /\ request'[r] \in Request /\ request'[r].row # "there"
         /\ request'[r].pc = request[r].pc
         /\ request'[r].card = request[r].card
         /\ request'[r].price = request[r].price
  <2> SUFFICES ASSUME NEW r \in Requests
               PROVE  /\ request'[r] \in Request /\ request'[r].row # "there"
                      /\ request'[r].pc = request[r].pc
                      /\ request'[r].card = request[r].card
                      /\ request'[r].price = request[r].price
    OBVIOUS
  <2>1. request[r] \in Request
    BY DEF IInv, TypeOK
  <2>2. CASE request[r].row = "there"
    <3>1. request'[r] = [request[r] EXCEPT !.row = "gone"]
      BY <1>5, <2>2
    <3> QED BY <2>1, <3>1 DEF Request
  <2>3. CASE request[r].row # "there"
    <3>1. request'[r] = request[r]
      BY <1>5, <2>3
    <3> QED BY <2>1, <2>3, <3>1
  <2> QED BY <2>2, <2>3
<1>7. TypeOK'
  <2>1. request' \in [Requests -> Request]
    BY <1>5, <1>6
  <2>2. sync' \in Sync
    BY <1>5 DEF NoSync, Sync
  <2>3. wish' \in [Cards -> Prices \cup {None}]
    BY <1>5 DEF IInv, TypeOK
  <2> QED BY <1>2, <1>3, <1>4, <1>5, <2>1, <2>2, <2>3 DEF IInv, TypeOK
<1>8. KeysHold'
  <2>1. \A o, p \in prices' : o.card = p.card /\ o.provider = p.provider => o = p
    BY <1>2, <1>4 DEF IInv, Preserved, OnePerKey
  <2> QED BY <1>2, <1>4, <1>5, <2>1 DEF KeysHold
<1>9. ManualPriceKept'
  <2> SUFFICES ASSUME NEW c \in Cards, c \notin raced
               PROVE  {o.price : o \in Manual(c)'} = {wish'[c]} \ {None}
    BY <1>5 DEF ManualPriceKept, ManualPrice
  <2>1. CASE c \in sync.release
    <3>1. Manual(c)' = KeptManual(c)
      BY <1>2, <1>4, <2>1 DEF Manual, Of, KeptManual
    <3> QED BY <1>3, <1>5, <2>1, <3>1 DEF IInv, Preserved
  <2>2. CASE c \notin sync.release
    <3>1. Manual(c)' = {}
      BY <1>2, <1>4, <2>2 DEF Manual, Of
    <3> QED BY <1>5, <2>2, <3>1
  <2> QED BY <2>1, <2>2
<1>10. Preserved' /\ RowsRead'
  BY <1>5, <1>6 DEF IInv, Preserved, RowsRead, OnePerKey, NoSync
<1> QED BY <1>7, <1>8, <1>9, <1>10 DEF IInv

-----------------------------------------------------------------------------
LEMMA NextInv == IInv /\ [Next]_vars => IInv'
<1> SUFFICES ASSUME IInv, [Next]_vars PROVE IInv'
  OBVIOUS
<1>1. CASE WorkerStep
  BY <1>1, PrepareInv, CommitSyncInv, MtgjsonSyncInv DEF WorkerStep
<1>2. CASE \E r \in Requests : RequestStep(r)
  BY <1>2, ReadsInv, SetManualInv, KeepManualInv, ClearManualInv, StoreInv DEF RequestStep
<1>3. CASE UNCHANGED vars
  <2>1. UNCHANGED <<cards, prices, resolved, matched, sync, wish, raced>>
    BY <1>3 DEF vars
  <2>2. request' = request /\ \A d : Manual(d)' = Manual(d)
    BY <1>3 DEF vars, Manual, Of
  <2>3. TypeOK' /\ RowsRead'
    BY <2>1, <2>2 DEF IInv, TypeOK, RowsRead
  <2> QED BY <2>1, <2>3, TablesStay DEF IInv
<1> QED BY <1>1, <1>2, <1>3 DEF Next

(* The state of the mirror keeps its types, and what is proved by hand     *)
(* holds of it whatever requests do beside a sync.                         *)
THEOREM Invariance == Spec => []IInv
BY InitInv, NextInv, PTL DEF Spec

(* Every variable stays in its type: whatever the requests store and the   *)
(* syncs restore are rows of known printings, providers and prices.        *)
THEOREM TypeCorrect == Spec => []TypeOK
<1>1. IInv => TypeOK
  BY DEF IInv
<1> QED BY Invariance, <1>1, PTL

(* The foreign keys and the unique key hold after every commit of the      *)
(* syncs and of the requests.                                              *)
THEOREM KeysAlwaysHold == Spec => []KeysHold
<1>1. IInv => KeysHold
  BY DEF IInv
<1> QED BY Invariance, <1>1, PTL

(* A manual price survives any number of bulk syncs, outside the gap.      *)
THEOREM ManualPricesStay == Spec => []ManualPriceKept
<1>1. IInv => ManualPriceKept
  BY DEF IInv
<1> QED BY Invariance, <1>1, PTL

(* The bulk sync gives MTGJSON's prices back as they were.                 *)
THEOREM MtgjsonPricesStay == Spec => SyncKeepsMtgjson
<1>1. ASSUME IInv, [Next]_vars, NEW c \in Cards,
             Locked, cards' = sync.release, c \in cards \cap cards'
      PROVE  Of("mtgjson", c) = Of("mtgjson", c)'
  <2>1. CASE CommitSync
    <3>1. PICK fresh \in Quoted(sync.release) :
             prices' = fresh \cup Restore(sync.release, sync.kept)
      BY <2>1 DEF CommitSync
    <3>2. sync.release \in SUBSET Cards /\ sync.kept \subseteq Observation
          /\ prices \subseteq Observation
      BY <1>1 DEF IInv, TypeOK, Sync
    <3>3. \A o \in fresh : o.provider = "scryfall"
      BY <3>2, QuotedRows
    <3>4. \A o \in Observation : o.provider = "mtgjson"
             => (o \in sync.kept <=> o \in prices)
      BY <1>1 DEF IInv, Preserved, Locked
    <3> QED BY <1>1, <3>1, <3>2, <3>3, <3>4 DEF Of, Restore
  <2>2. CASE ~CommitSync
    <3>1. prices' = prices
      BY <1>1, <2>2 DEF Next, WorkerStep, RequestStep, vars, Locked,
           Download, Snapshot, DeleteCards, SyncFails, MtgjsonSync, ReadToSet,
           ReadToClear, ReadToImport, ReadToResolve, SetManual, KeepManual, ClearManual,
           Store, RequestFails
    <3> QED BY <3>1 DEF Of
  <2> QED BY <2>1, <2>2
<1>2. IInv /\ [Next]_vars
         => [\A c \in Cards :
                Locked /\ cards' = sync.release /\ c \in cards \cap cards'
                   => Of("mtgjson", c) = Of("mtgjson", c)']_vars
  BY <1>1
<1> QED BY Invariance, <1>2, PTL DEF Spec, SyncKeepsMtgjson
=============================================================================
