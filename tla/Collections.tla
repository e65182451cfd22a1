----------------------------- MODULE Collections -----------------------------
(***************************************************************************)
(* The collections of the user, the first of which is the default, and the *)
(* imports that fill them: preview, then confirm or abort.  Collections    *)
(* are neither renamed nor deleted, so their name is their identity; items *)
(* never leave a collection.                                               *)
(***************************************************************************)
EXTENDS Requests, Bags, SequencesExt

CONSTANTS
    CollectionNames,
    DefaultCollectionName,
    Files,    \* uploaded files
    OkRows,   \* the rows of each file that parse
    HasBad,   \* whether it has rows that do not
    MaxImports \* bound: previews ever made

ASSUME CollectionsAssumption ==
    /\ DefaultCollectionName \in CollectionNames
    /\ HasBad \in [Files -> BOOLEAN]
    /\ MaxImports \in Nat

VARIABLES
    collections,  \* by name, whether it is the default
    imports,      \* previews in the order of their creation
    items         \* bag of [collection, row, source]

collectionVars == <<collections, imports, items>>

Statuses == {"previewed", "confirmed", "partially_confirmed", "aborted"}
Confirmed == {"confirmed", "partially_confirmed"}

CollectionsInit == collections = <<>> /\ imports = <<>> /\ items = EmptyBag

-----------------------------------------------------------------------------
(* get_or_create_default_collection and create_collection.  A collection   *)
(* becomes the default when its creation has seen no other.                *)

GetDefaultCollection(r) ==
    /\ \A name \in DOMAIN collections : ~collections[name]
    /\ Begin(r, [op |-> "collection", phase |-> "look", name |-> DefaultCollectionName, default |-> FALSE])
    /\ UNCHANGED collectionVars

CreateCollection(r, name) ==
    /\ Begin(r, [op |-> "collection", phase |-> "look", name |-> name, default |-> FALSE])
    /\ UNCHANGED collectionVars

LookForExisting(r) ==
    /\ Runs(r, "collection", "look")
    /\ Proceed(r, [request[r] EXCEPT !.phase = "write", !.default = DOMAIN collections = {}])
    /\ UNCHANGED collectionVars

\* A name that is taken fails the request
WriteCollection(r) ==
    /\ Runs(r, "collection", "write")
    /\ request[r].name \notin DOMAIN collections
    /\ collections' = [name \in DOMAIN collections \cup {request[r].name} |->
                            IF name = request[r].name THEN request[r].default ELSE collections[name]]
    /\ End(r)
    /\ UNCHANGED <<imports, items>>

RejectCollection(r) ==
    /\ Runs(r, "collection", "write")
    /\ request[r].name \in DOMAIN collections
    /\ End(r)
    /\ UNCHANGED collectionVars

-----------------------------------------------------------------------------
(* create_preview: the rows are kept with the import; a file this          *)
(* collection has confirmed before is marked as a duplicate of the last    *)
(* such import, and imported all the same if the user says so.             *)

PriorConfirmed(collection, file) ==
    {i \in DOMAIN imports : /\ imports[i].collection = collection
                            /\ imports[i].file = file
                            /\ imports[i].status \in Confirmed}

Preview(r, collection, file) ==
    LET prior == PriorConfirmed(collection, file)
    IN /\ Begin(r, [op |-> "preview", phase |-> "write", collection |-> collection, file |-> file,
                    duplicate |-> IF prior = {} THEN None ELSE Max(prior)])
       /\ UNCHANGED collectionVars

WritePreview(r) ==
    /\ Runs(r, "preview", "write")
    /\ Len(imports) < MaxImports
    /\ imports' = Append(imports, [collection |-> request[r].collection, file |-> request[r].file,
                                   duplicate |-> request[r].duplicate, status |-> "previewed"])
    /\ End(r)
    /\ UNCHANGED <<collections, items>>

(* confirm_import and abort_import: the status is read, and later written  *)
(* by a commit that does not look at it again.                             *)

\* broken variant: only an aborted import is refused
IsNotAborted(i) == imports[i].status # "aborted"

IsPreviewed(i) == imports[i].status = "previewed"

ConfirmImport(r, i, skipBadRows) ==
    /\ IsPreviewed(i)
    /\ HasBad[imports[i].file] => skipBadRows
    /\ Begin(r, [op |-> "confirm", phase |-> "write", import |-> i])
    /\ UNCHANGED collectionVars

AbortImport(r, i) ==
    /\ IsPreviewed(i)
    /\ Begin(r, [op |-> "abort", phase |-> "write", import |-> i])
    /\ UNCHANGED collectionVars

RowsOf(i) ==
    SetToBag({[collection |-> imports[i].collection, row |-> row, source |-> i] : row \in OkRows[imports[i].file]})

WriteConfirm(r) ==
    /\ Runs(r, "confirm", "write")
    /\ LET i == request[r].import
       IN /\ items' = items (+) RowsOf(i)
          /\ imports' = [imports EXCEPT ![i].status =
                            IF HasBad[imports[i].file] THEN "partially_confirmed" ELSE "confirmed"]
    /\ End(r)
    /\ UNCHANGED collections

WriteAbort(r) ==
    /\ Runs(r, "abort", "write")
    /\ imports' = [imports EXCEPT ![request[r].import].status = "aborted"]
    /\ End(r)
    /\ UNCHANGED <<collections, items>>

CollectionRequest(r) ==
    \/ GetDefaultCollection(r)
    \/ \E name \in CollectionNames : CreateCollection(r, name)
    \/ LookForExisting(r)
    \/ WriteCollection(r)
    \/ RejectCollection(r)
    \/ \E collection \in DOMAIN collections, file \in Files : Preview(r, collection, file)
    \/ WritePreview(r)
    \/ \E i \in DOMAIN imports, skipBadRows \in BOOLEAN : ConfirmImport(r, i, skipBadRows)
    \/ \E i \in DOMAIN imports : AbortImport(r, i)
    \/ WriteConfirm(r)
    \/ WriteAbort(r)

CollectionsNext == \E r \in Requests : CollectionRequest(r)

=============================================================================
