SPECIFICATION ProgressSpec
CONSTANTS
    r0 = r0
    Timelock = timelock
    Uint32 = 16
    Validators <- MCValidators
    PermissionlessValidator = permissionless
    ChainTypeManager = ctm
    Roots <- MCRoots
    GenesisRoot = r0
    Chunks <- MCChunks
    PatchesPerMinor = 2
    PRIORITY_EXPIRATION = 1
    COMMIT_TIMESTAMP_NOT_OLDER = 1
    PAUSE_DEPOSITS_TIME_WINDOW_START = 0
    MAX_ALLOWED_MINOR_VERSION_DELTA = 1
    InitTime = 1
    InitVersion = 2
    MaxChunks = 1
    MaxTime = 2
    ZKsyncOS = TRUE
    Delays <- NoDelay
    Contents <- MCContents
    StartIndex = 0
    COMMIT_TIMESTAMP_APPROXIMATION_DELTA = 0
    MaxBatches = 3
    MaxOps = 1
    MaxVersion = 2
PROPERTIES
    OverdueOpsProcessed
CHECK_DEADLOCK FALSE
