----------------------------- MODULE UserRecords -----------------------------
(***************************************************************************)
(* The records that requests of the user create and change: the requests   *)
(* of a few browser tabs and the dashboard interleave over the price       *)
(* profiles, the collections and the imports that fill them, and the       *)
(* popular decks that are priced with both.                                *)
(***************************************************************************)
EXTENDS PriceProfiles, Collections, PopularDecks

vars == <<request, profileVars, collectionVars, deckVars>>

Init ==
    /\ request = [r \in Requests |-> Idle]
    /\ ProfilesInit
    /\ CollectionsInit
    /\ DecksInit

(* POST /api/discover/decks/{id}/price: with the profile the request names *)
(* (404 if there is none) and a collection, the default one unless the     *)
(* request names another                                                   *)
AskPrice(r) ==
    /\ DOMAIN profiles # {} /\ DOMAIN collections # {}
    /\ \E d \in DOMAIN decks : PriceDeck(r, d)

RecordsStep ==
    \/ ProfilesNext /\ UNCHANGED <<collectionVars, deckVars>>
    \/ CollectionsNext /\ UNCHANGED <<profileVars, deckVars>>

DecksStep ==
    /\ DecksNext \/ \E r \in Requests : AskPrice(r)
    /\ UNCHANGED <<profileVars, collectionVars>>

Next == RecordsStep \/ DecksStep

Spec == Init /\ [][Next]_vars

-----------------------------------------------------------------------------
(* Properties *)

(* Profiles, collections and imports are rows of their tables, and no two  *)
(* profiles have one name.                                                 *)
TypeOK ==
    /\ DOMAIN profiles \subseteq 1..(nextProfile - 1)
    /\ \A id \in DOMAIN profiles : profiles[id] \in [name : ProfileNames, default : BOOLEAN]
    /\ \A id \in DOMAIN profiles : Named(profiles[id].name) = {id}
    /\ DOMAIN collections \subseteq CollectionNames
    /\ \A name \in DOMAIN collections : collections[name] \in BOOLEAN
    /\ \A i \in DOMAIN imports :
            /\ imports[i].status \in Statuses
            /\ imports[i].collection \in DOMAIN collections
            /\ imports[i].file \in Files
            /\ imports[i].duplicate \in {None} \cup 1..(i - 1)

DefaultCollections == {name \in DOMAIN collections : collections[name]}

\* A request about to make a profile the default has seen all the others
SeesAllDefaults(r) ==
    /\ Runs(r, "profile", "write")
    /\ request[r].default = TRUE
    /\ request[r].cleared = Defaults \ {request[r].id}

(* Requests that make different profiles, or different first collections,  *)
(* the default do not see each other, so there can be several; but never   *)
(* more than there are requests at the same time, however many follow one  *)
(* another.  The next request that is not overtaken leaves one profile the *)
(* default.  Collections have no such repair; but once there are any, one  *)
(* is the default.                                                         *)
DefaultsStayFew ==
    /\ [](/\ Cardinality(Defaults) <= Cardinality(Requests)
          /\ Cardinality(DefaultCollections) <= Cardinality(Requests)
          /\ DOMAIN collections # {} => DefaultCollections # {})
    /\ [][\A r \in Requests : WriteProfile(r) /\ SeesAllDefaults(r) => Cardinality(Defaults') = 1]_vars

\* The rows of an import are in its collection exactly when its status says so
Agrees(i) ==
    LET entered == [item \in {it \in DOMAIN items : it.source = i} |-> items[item]]
    IN /\ entered = IF imports[i].status \in Confirmed THEN RowsOf(i) ELSE EmptyBag
       /\ imports[i].status = "confirmed" => ~HasBad[imports[i].file]

(* Rows and status of an import change together.  They come apart only     *)
(* when a request settles an import that another has settled since it was  *)
(* read: an abort then hides rows that stay, a second confirm enters them  *)
(* again.  No row enters more often than there are requests at a time, and *)
(* an import that is settled and that nobody is settling stays as it is.   *)
ImportEntersOnce ==
    /\ [](\A item \in DOMAIN items : items[item] <= Cardinality(Requests))
    /\ [][\A i \in DOMAIN imports' :
            /\ ~Agrees(i)' => i \in DOMAIN imports /\ (imports[i].status = "previewed" => ~Agrees(i))
            /\ i \in DOMAIN imports /\ imports[i].status # "previewed"
               /\ (\A r \in Requests : request[r] # Idle => request[r].op \notin {"confirm", "abort"})
                    => imports'[i] = imports[i] /\ items' = items]_vars

(* A commander is looked up once, for all decks and all syncs to come,     *)
(* also when a later lookup raises: only a killed worker or a commit that  *)
(* fails makes answers be asked for again, and no more than one batch.     *)
CommanderPaidOnce ==
    LET pending == IF sync = NoSync THEN {} ELSE sync.pending
    IN answers <= Cardinality(commanders \cup pending) + FlushEvery * faults

(* The price a deck shows was asked for this row of it: a sync that came   *)
(* in between makes it fail rather than show on the new row.  And a name   *)
(* that was shown for a commander is shown by the next sync too, unless    *)
(* that one's lookups raised, which hides even the names it knew.          *)
DecksShowTheirOwn ==
    /\ [](\A d \in DOMAIN decks : decks[d].price \in {None, decks[d].row})
    /\ [][\A d \in DOMAIN decks \cap DOMAIN decks' :
            (sync # NoSync /\ sync.named /\ decks'[d].main = decks[d].main /\ decks[d].name # None)
                => decks'[d].name = decks[d].name]_vars

(* pricing_service.delete_price_profile: without a default,                *)
(* get_or_create_default_price_profile "transparently creates a fresh one  *)
(* the next time anything needs one".                                      *)
ADefaultCanBeFound ==
    [][\A r \in Requests : Runs(r, "profile", "write") /\ request[r].id = None /\ request'[r] = Idle
            => Defaults' # {}]_vars

=============================================================================
