SPECIFICATION FairSpec
CONSTANTS
    Delivery = {d1}
    Malformed = Malformed
    Consumer = {c1}
    Count = 1
    MaxCopies = 1
    MaxLosses = 1
    MaxFaults = 0
PROPERTIES LostStreamHeals
