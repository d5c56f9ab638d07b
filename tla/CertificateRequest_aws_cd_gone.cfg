SPECIFICATION FairSpec
CONSTANTS
    d1 = d1
    Domains = {d1}
    CacheLags = FALSE
    ClientNeedsCD = TRUE
    IssuerKnown = TRUE
    ForeignCDs = FALSE
    EnvOps = {"delete", "cdGone"}
    MaxEdits = 2
    MaxFaults = 0
    MaxCerts = 2
PROPERTY DeletionCompletes
\* Once the object is gone and its Secret collected, nothing is left to do.
CHECK_DEADLOCK FALSE
