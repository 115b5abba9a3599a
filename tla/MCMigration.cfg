\* Two jobs that are retried twice, up to four steps of the new release, and four
\* rollbacks; runs break off anywhere, any number of times.
\* A broken-off migration that cannot be repeated is left to the operator, and
\* the new release stops at its bound: the system may really stop.
SPECIFICATION Spec
CHECK_DEADLOCK FALSE
CONSTANTS
    Job = {j1, j2}
    Budget = 2
    None = None
    MaxWork = 4
    MaxDowns = 4
SYMMETRY Symmetry
INVARIANTS UpgradeKeepsBudget
PROPERTIES RollbackCostsOneAttempt UpgradeStartsJobStore
