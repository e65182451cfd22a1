\* The system may stop: a sync left FETCHING refuses every later trigger.
CHECK_DEADLOCK FALSE
SPECIFICATION Spec
CONSTANTS
    api1 = api1
    api2 = api2
    tick = tick
    boot = boot
    NoSync = NoSync
    Syncs = {"edhrec", "decks"}
    Callers = {api1, api2}
    Periodic = {}
    Startup = {}
    PerSource <- MCPerSource
    RejectsEmpty <- MCRejectsEmpty
    PeriodicSyncs <- MCPeriodicSyncs
    AutoSyncs <- MCAutoSyncs
    SourcesOf <- MCSourcesOf
    QueueOf <- MCQueueOf
    QueueNames <- WorkerQueues
    MaxQueue = 2
    MaxFaults = 1
SYMMETRY Symmetry
INVARIANTS TypeOK RunningIsFetching FetchingIsOwned
PROPERTY ImplementsContract
