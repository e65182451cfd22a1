--------------------------- MODULE MCUserRecords ---------------------------
(* A file without bad rows and one with some; two requests that run at the *)
(* same time.                                                              *)
EXTENDS UserRecords, TLC

MCOkRows == [f \in Files |-> {"row1"}]
MCHasBad == [f \in Files |-> f = "broken"]
(* Bounds: a behaviour is long in one part only.  Imports come after at    *)
(* most one profile; decks after the default profile and collection, then  *)
(* with nothing beside the sync but requests for prices.                   *)
Apart == nextProfile = 1 \/ DOMAIN collections = {} \/ (nextProfile = 2 /\ imports = <<>>)
DecksBegin ==
    /\ profiles = <<[name |-> DefaultProfileName, default |-> TRUE]>>
    /\ collections = (DefaultCollectionName :> TRUE) /\ imports = <<>>
    /\ \A r \in Requests : request[r] # Idle => request[r].op = "price"
NoDecks == sync = NoSync /\ nextRow = 1 /\ faults = 0
MCSpec == Init /\ [][(NoDecks /\ RecordsStep) \/ (DecksBegin /\ DecksStep)]_vars

Symmetry == Permutations(Requests)
=============================================================================
