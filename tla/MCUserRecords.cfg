SPECIFICATION MCSpec
CONSTANTS
    None = None
    Requests = {r1, r2}
    ProfileNames = {"Default", "Cheap", "Paper"}
    DefaultProfileName = "Default"
    MaxProfiles = 4
    CollectionNames = {"My Collection", "Trades"}
    DefaultCollectionName = "My Collection"
    Files = {"fine", "broken"}
    OkRows <- MCOkRows
    HasBad <- MCHasBad
    MaxImports = 2
    Decks = {d1, d2}
    MainCards = {c1, c2}
    FlushEvery = 2
    MaxSyncs = 2
    MaxFaults = 1
CONSTRAINT Apart
SYMMETRY Symmetry
\* A behaviour ends when the bounds on the tables are reached.
CHECK_DEADLOCK FALSE
INVARIANTS TypeOK CommanderPaidOnce
PROPERTIES
    DefaultsStayFew
    ImportEntersOnce
    DecksShowTheirOwn
