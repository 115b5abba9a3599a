\* Three jobs in every stage, changing while one client reads; pages of one and
\* two, asked for with limits below, within and above the range.
SPECIFICATION Spec
CONSTANTS
    Job = {j1, j2, j3}
    Budgets = {0}
    Asked <- AskedLimits
    NaN = NaN
    DefaultLimit = 2
    MaxLimit = 2
    MaxTime = 3
    MaxChanges = 2
SYMMETRY Symmetry
INVARIANTS LogsExplainJob
PROPERTIES WalkSkipsNothing TotalCoversPage
\* The client has read what it wanted and nothing changes any more.
CHECK_DEADLOCK FALSE
