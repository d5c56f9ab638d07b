SPECIFICATION FairSpec
CONSTANTS
    sts1 = sts1
    sts2 = sts2
    other = other
    Clusters = {sts1, sts2, other}
    Sites <- AllSites
    Workers = {w1, w2}
    Retries = 2
    MaxEdits = 1
    MaxFaults = 1
INVARIANTS TypeOK OwnCredentials
PROPERTY Served
\* Once every cluster has its certificate, nothing is left to do.
CHECK_DEADLOCK FALSE
