\* Two jobs whose intents are due together and are dispatched lowest id first,
\* again and again while they are unfinished, and one failure.
SPECIFICATION QueueSpec
CONSTANTS
    Job = {j1, j2}
    Worker = {w1}
    Dispatcher = {d1}
    Budgets = {0}
    Delays = {1}
    LeaseTime = 1
    RepublishAfter = 1
    MaxGeneration = 1
    MaxCopies = 1
    MaxFaults = 1
    None = None
PROPERTIES QueueDrains
