SPECIFICATION FairSpec
CONSTANTS
    b1 = b1
    Bundles = {b1}
    Uses <- OneUse
    ExtraNames = {}
    CRName <- DistinctNames
    CacheLags = TRUE
    ClientNeedsCD = TRUE
    EnvOps = {"bundles", "delete", "recreate", "manage", "deleteCR"}
    MaxEdits = 2
    MaxFaults = 1
INVARIANTS TypeOK FinalizerInv
PROPERTIES CreatesUnderFinalizer DeletionCompletes Converges OnlyBlockedLeft
\* Once the ClusterDeployment is gone, nothing is left to do.
CHECK_DEADLOCK FALSE
