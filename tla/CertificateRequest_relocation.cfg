SPECIFICATION FairSpec
CONSTANTS
    d1 = d1
    Domains = {d1}
    CacheLags = FALSE
    ClientNeedsCD = FALSE
    IssuerKnown = TRUE
    ForeignCDs = FALSE
    EnvOps = {"relocate"}
    MaxEdits = 1
    MaxFaults = 0
    MaxCerts = 2
PROPERTY RelocationReported
\* Once the object is gone and its Secret collected, nothing is left to do.
CHECK_DEADLOCK FALSE
