SPECIFICATION WorkerFairSpec
CONSTANTS
    WorkerCount = 2
    BatchSize = 2
    Calls = 1
INVARIANTS OneMoreAfterStop DrainGiven FinishUnrefused
PROPERTIES StopEndsRun LostLeaseEndsCall HeartbeatEnds TimeoutEndsCall
\* Run has returned and every goroutine has ended.
CHECK_DEADLOCK FALSE
