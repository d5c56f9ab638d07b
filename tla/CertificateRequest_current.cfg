SPECIFICATION FairSpec
CONSTANTS
    d1 = d1
    d2 = d2
    Domains = {d1, d2}
    CacheLags = FALSE
    ClientNeedsCD = TRUE
    IssuerKnown = TRUE
    ForeignCDs = TRUE
    EnvOps = {"delete", "recreate", "spec", "dropOwner", "dropSecret", "emptySecret", "replaceCert", "relocate", "cdGone", "age"}
    MaxEdits = 2
    MaxFaults = 1
    MaxCerts = 6
INVARIANTS IInv SecretInv
PROPERTIES RevokedBeforeGone NoDuplicateIssuance Converges
\* Once the object is gone and its Secret collected, nothing is left to do.
CHECK_DEADLOCK FALSE
