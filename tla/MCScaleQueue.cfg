\* One job with and without a retry, two workers that take entries over from each
\* other, one dispatcher, two failures anywhere.  No symmetry, for liveness.
SPECIFICATION QueueSpec
CONSTANTS
    Job = {j1}
    Worker = {w1, w2}
    Dispatcher = {d1}
    Budgets = {0, 1}
    Delays = {1}
    LeaseTime = 1
    RepublishAfter = 1
    MaxGeneration = 1
    MaxCopies = 1
    MaxFaults = 2
    None = None
PROPERTIES AcknowledgedIsSettled QueueDrains
