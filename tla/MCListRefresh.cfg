\* The system may stop: a deleted list leaves nothing to do.
CHECK_DEADLOCK FALSE
SPECIFICATION FairSpec
CONSTANTS
    A = A
    B = B
    text = text
    api1 = api1
    api2 = api2
    Worker = Worker
    Contents = {A, B}
    Uploads = {text}
    Callers = {api1}
    MaxImports = 3
    MaxQueue = 1
    MaxFaults = 1
INVARIANTS TypeOK FetchingIsOwned LastConfirmedIsShown ImportEntersOnce
PROPERTIES RefreshIsWhole StaleIsSwept
