\* The system may stop: a job left RUNNING refuses every later trigger.
CHECK_DEADLOCK FALSE
SPECIFICATION FairSpec
CONSTANTS
    N = 3
    Pages <- MCPages
    Catalogues <- MCCatalogues
    Filters <- MCFilters
    DefaultFilter <- MCDefaultFilter
    MaxId = 5
    MaxQueue = 1
    MaxFaults = 1
PROPERTY ResumesAfterRestart
