\* Two senders, with and without one key, asking for the same or for different
\* things in two spellings, on two connections, with one fault anywhere; there
\* are ids for every request that can be in progress, so none waits for an id.
SPECIFICATION FairSpec
CONSTANTS
    Client = {c1, c2}
    Key = {k1}
    NoKey = NoKey
    Body <- SomeBodies
    JobId = {j1, j2, j3, j4}
    Connection = {n1, n2}
    NoId = NoId
    MaxFaults = 1
    Name <- SomeNames
    Token <- SomeTokens
    Value <- SomeValues
    Depth <- DepthOf
    Rank <- RankInOrder
    Payload <- SomePayloads
    Types = {"send_email"}
    Numbers = {"3", "5"}
    Absent = "absent"
INVARIANTS SameKeySameJob ConflictIsReal HashIsMeaning
PROPERTIES ImplementsPromise EveryClientAnswered
\* Everybody has an answer in the end and nothing is left to do.
CHECK_DEADLOCK FALSE
