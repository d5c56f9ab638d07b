SPECIFICATION FairSpec
CONSTANTS
    b1 = b1
    b2 = b2
    Bundles = {b1, b2}
    Uses <- ThreeUses
    ExtraNames <- RHAPI
    CRName <- DistinctNames
    CacheLags = FALSE
    ClientNeedsCD = TRUE
    EnvOps = {"bundles", "serving", "delete", "relocate"}
    MaxEdits = 1
    MaxFaults = 1
INVARIANT CleanUpInv
PROPERTIES CleanedUpFirst Converges
\* Once the ClusterDeployment is gone, nothing is left to do.
CHECK_DEADLOCK FALSE
