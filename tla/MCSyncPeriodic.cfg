\* The system may stop: a sync left FETCHING refuses every later trigger.
CHECK_DEADLOCK FALSE
SPECIFICATION FairSpec
CONSTANTS
    api1 = api1
    api2 = api2
    tick = tick
    boot = boot
    NoSync = NoSync
    Syncs = {"scryfall", "mtgjson"}
    Callers = {tick, boot}
    Periodic = {tick}
    Startup = {boot}
    PerSource <- MCPerSource
    RejectsEmpty <- MCRejectsEmpty
    PeriodicSyncs <- MCPeriodicSyncs
    AutoSyncs <- MCAutoSyncs
    SourcesOf <- MCSourcesOf
    QueueOf <- MCQueueOf
    QueueNames <- WorkerQueues
    MaxQueue = 2
    MaxFaults = 1
PROPERTY StaleIsRefreshed
