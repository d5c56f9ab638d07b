SPECIFICATION Spec
CONSTANTS
    d1 = d1
    Domains = {d1}
    CacheLags = TRUE
    ClientNeedsCD = FALSE
    IssuerKnown = TRUE
    ForeignCDs = FALSE
    EnvOps = {"delete"}
    MaxEdits = 1
    MaxFaults = 0
    MaxCerts = 2
PROPERTY RevokedBeforeGone
\* Once the object is gone and its Secret collected, nothing is left to do.
CHECK_DEADLOCK FALSE
