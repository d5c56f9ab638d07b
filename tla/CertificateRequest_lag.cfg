SPECIFICATION FairSpec
CONSTANTS
    d1 = d1
    Domains = {d1}
    CacheLags = TRUE
    ClientNeedsCD = FALSE
    IssuerKnown = TRUE
    ForeignCDs = FALSE
    EnvOps = {"delete", "recreate", "emptySecret", "replaceCert"}
    MaxEdits = 2
    MaxFaults = 1
    MaxCerts = 2
INVARIANTS TypeOK FinalizerGuardsIssued LiveNotRevoked
PROPERTIES DeletionCompletes Implements
\* Once the object is gone and its Secret collected, nothing is left to do.
CHECK_DEADLOCK FALSE
