SPECIFICATION FairSpec
CONSTANTS
    Bundles <- MCBundles
    Modes <- AllModes
    CurrentGovernance = FALSE
    MaxKills = 2
    MaxDrops = 1
INVARIANTS
    ManifestApplied
    LogIsClean
PROPERTIES
    ReplayCompletes
CHECK_DEADLOCK FALSE
