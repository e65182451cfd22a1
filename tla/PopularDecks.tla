---------------------------- MODULE PopularDecks ----------------------------
(***************************************************************************)
(* The popular decks of Moxfield: a sync lists the decks, looks up the     *)
(* names of their commanders one by one, keeps those in a cache of its own *)
(* that it commits every few names, and then replaces all rows in one      *)
(* commit; meanwhile requests price the rows they have read, each with a   *)
(* fetch of the deck.  Who starts a sync, and what status it publishes, is *)
(* in SyncJob.  A deck is one main card, its commander, or None; a name    *)
(* stands for its main card.                                               *)
(***************************************************************************)
EXTENDS Requests, FiniteSetsExt, Functions

CONSTANTS
    Decks,       \* external ids
    MainCards,   \* main_card_id of the decks
    FlushEvery,  \* names between two commits of the cache
    MaxSyncs,    \* bound: syncs that list the decks
    MaxFaults    \* bound: kills and database errors

ASSUME DecksAssumption == FlushEvery \in Nat \ {0} /\ MaxSyncs \in Nat /\ MaxFaults \in Nat

VARIABLES
    decks,      \* popular_decks by external id: [row, main, name, price]
    commanders, \* moxfield_commander_cache
    sync,       \* the running sync
    nextRow,    \* the sequence of the primary key, one step per sync
    answers,    \* history: names the source has answered with, in all
    faults

deckVars == <<decks, commanders, sync, nextRow, answers, faults>>

NoSync == [pc |-> "idle"]

DecksInit ==
    /\ decks = <<>>
    /\ commanders = {}
    /\ sync = NoSync
    /\ nextRow = 1
    /\ answers = 0
    /\ faults = 0

-----------------------------------------------------------------------------
(* run_discovery_sync for this source, _resolve_moxfield_commanders within *)
(* it.  pending are the names added to the session and not committed; a    *)
(* sync that did not come through the lookups is not named.                *)

ListDecks(listing) ==
    /\ sync = NoSync
    /\ nextRow <= MaxSyncs
    /\ sync' = [pc |-> "looking", listing |-> listing, pending |-> {}, named |-> FALSE,
                todo |-> (Range(listing) \ {None}) \ commanders]
    /\ UNCHANGED <<decks, commanders, nextRow, answers, faults, request>>

(* The next batch is begun only when the last one is committed *)
LookUp(card) ==
    /\ sync.pc = "looking" /\ card \in sync.todo
    /\ Cardinality(sync.pending) < FlushEvery
    /\ sync' = [sync EXCEPT !.todo = @ \ {card}, !.pending = @ \cup {card}]
    /\ answers' = answers + 1
    /\ UNCHANGED <<decks, commanders, nextRow, faults, request>>

\* Any answer but a name
LookUpFindsNothing(card) ==
    /\ sync.pc = "looking" /\ card \in sync.todo
    /\ Cardinality(sync.pending) < FlushEvery
    /\ sync' = [sync EXCEPT !.todo = @ \ {card}]
    /\ UNCHANGED <<decks, commanders, nextRow, answers, faults, request>>

FlushNames ==
    /\ sync.pc = "looking" /\ Cardinality(sync.pending) = FlushEvery
    /\ commanders' = commanders \cup sync.pending
    /\ sync' = [sync EXCEPT !.pending = {}]
    /\ UNCHANGED <<decks, nextRow, answers, faults, request>>

EndLookUps ==
    /\ sync.pc = "looking" /\ sync.todo = {}
    /\ Cardinality(sync.pending) < FlushEvery
    /\ commanders' = commanders \cup sync.pending
    /\ sync' = [sync EXCEPT !.pc = "listed", !.pending = {}, !.named = TRUE]
    /\ UNCHANGED <<decks, nextRow, answers, faults, request>>

\* broken variant: the names that were pending are lost
LookUpRollsBack ==
    /\ sync.pc = "looking" /\ sync.todo # {}
    /\ Cardinality(sync.pending) < FlushEvery
    /\ sync' = [sync EXCEPT !.pc = "listed", !.pending = {}]
    /\ UNCHANGED <<decks, commanders, nextRow, answers, faults, request>>

(* A lookup raises, or the job's timeout does: a warning, and what is      *)
(* pending stays so until the rows are committed.                          *)
LookUpRaises ==
    /\ sync.pc = "looking" /\ sync.todo # {}
    /\ Cardinality(sync.pending) < FlushEvery
    /\ sync' = [sync EXCEPT !.pc = "listed"]
    /\ UNCHANGED <<decks, commanders, nextRow, answers, faults, request>>

ReplaceRows ==
    /\ sync.pc = "listed"
    /\ decks' = [d \in DOMAIN sync.listing |->
                    LET main == sync.listing[d]
                    IN [row |-> nextRow, main |-> main, price |-> None,
                        name |-> IF sync.named /\ main \in commanders THEN main ELSE None]]
    /\ commanders' = commanders \cup sync.pending
    /\ nextRow' = nextRow + 1
    /\ sync' = NoSync
    /\ UNCHANGED <<answers, faults, request>>

(* The worker is killed, or a commit of names fails: the handler that      *)
(* makes a warning of it does not roll back, so the next statement raises  *)
(* where nothing catches it.  Either way the rows stay as they were.       *)
SyncBreaks ==
    /\ sync # NoSync
    /\ faults < MaxFaults
    /\ faults' = faults + 1
    /\ sync' = NoSync
    /\ UNCHANGED <<decks, commanders, nextRow, answers, request>>

-----------------------------------------------------------------------------
(* price_popular_deck: the row is read, the deck is fetched from the       *)
(* source, and the row is updated with the price if it is still there.  A  *)
(* price is known by the row it was computed for.                          *)

PriceDeck(r, d) ==
    /\ Begin(r, [op |-> "price", phase |-> "write", deck |-> d, row |-> decks[d].row])
    /\ UNCHANGED deckVars

\* broken variant: the deck's row of now, not the row that was read
WriteNowPrice(r) ==
    /\ Runs(r, "price", "write")
    /\ request[r].deck \in DOMAIN decks
    /\ decks' = [decks EXCEPT ![request[r].deck].price = request[r].row]
    /\ End(r)
    /\ UNCHANGED <<commanders, sync, nextRow, answers, faults>>

RowIsThere(r) == request[r].deck \in DOMAIN decks /\ decks[request[r].deck].row = request[r].row

WritePrice(r) ==
    /\ Runs(r, "price", "write")
    /\ RowIsThere(r)
    /\ decks' = [decks EXCEPT ![request[r].deck].price = request[r].row]
    /\ End(r)
    /\ UNCHANGED <<commanders, sync, nextRow, answers, faults>>

\* The source does not answer with a deck, or the row is gone
PriceFails(r) ==
    /\ Runs(r, "price", "write")
    /\ End(r)
    /\ UNCHANGED deckVars

DecksNext ==
    \/ \E D \in SUBSET Decks : \E listing \in [D -> MainCards \cup {None}] : ListDecks(listing)
    \/ \E card \in MainCards : LookUp(card) \/ LookUpFindsNothing(card)
    \/ FlushNames \/ EndLookUps \/ LookUpRaises \/ ReplaceRows \/ SyncBreaks
    \/ \E r \in Requests : WritePrice(r) \/ PriceFails(r)

=============================================================================
