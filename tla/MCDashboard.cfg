\* One job that dies again after a replay, and two fetches that overtake each
\* other, one of which fails; no symmetry, for liveness.
SPECIFICATION LiveSpec
CONSTANTS
    Job = {j1}
    Slot = {s1, s2}
    MaxChanges = 1
    MaxFaults = 1
INVARIANTS OneRequestPerButton
PROPERTIES CatchesUp NothingStaysBusy
