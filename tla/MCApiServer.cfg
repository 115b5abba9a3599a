\* Three clients compete for one connection that requests need up to three times;
\* a signal comes at any moment, and the database may never answer.
SPECIFICATION FairSpec
CONSTANTS
    c1 = c1
    c2 = c2
    c3 = c3
    Client = {c1, c2, c3}
    Sent <- SentByEach
    Connection = {n1}
    Nobody = Nobody
INVARIANTS PoolAccounts ErrorOnlyAfterFault
PROPERTIES EveryRequestAnswered StopEnds
\* The process ends.
CHECK_DEADLOCK FALSE
