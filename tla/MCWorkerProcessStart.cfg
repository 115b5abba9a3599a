SPECIFICATION FairSpec
CONSTANTS
    WorkerCount = 2
    BatchSize = 1
PROPERTIES DrainAlwaysGiven
CHECK_DEADLOCK FALSE
