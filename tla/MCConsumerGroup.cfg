\* Two loops, a delivery and an entry that cannot be parsed, two entries at a
\* time; the stream is lost once and one other fault happens, anywhere.  No
\* symmetry, for liveness.
SPECIFICATION FairSpec
CONSTANTS
    Delivery = {d1}
    Malformed = Malformed
    Consumer = {c1, c2}
    Count = 1
    MaxCopies = 1
    MaxLosses = 1
    MaxFaults = 1
PROPERTIES ImplementsQueue EverySettled
