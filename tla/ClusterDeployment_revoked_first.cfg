SPECIFICATION Spec
CONSTANTS
    b1 = b1
    Bundles = {b1}
    Uses <- OneUse
    ExtraNames = {}
    CRName <- DistinctNames
    CacheLags = FALSE
    ClientNeedsCD = TRUE
    EnvOps = {"delete"}
    MaxEdits = 1
    MaxFaults = 0
PROPERTY RevokedFirst
\* Once the ClusterDeployment is gone, nothing is left to do.
CHECK_DEADLOCK FALSE
