SPECIFICATION TimelockSpec
CONSTANTS
    r0 = r0
    r1 = r1
    Timelock = timelock
    Uint32 = 16
    Validators <- MCValidators
    PermissionlessValidator = permissionless
    ChainTypeManager = ctm
    Roots <- MCRoots
    GenesisRoot = r0
    Chunks <- MCChunks
    PatchesPerMinor = 2
    PRIORITY_EXPIRATION = 1
    COMMIT_TIMESTAMP_NOT_OLDER = 1
    PAUSE_DEPOSITS_TIME_WINDOW_START = 0
    MAX_ALLOWED_MINOR_VERSION_DELTA = 1
    InitTime = 1
    InitVersion = 2
    MaxChunks = 1
    MaxTime = 2
    ZKsyncOS = FALSE
    Delays <- MCDelays
    Contents <- MCEraContents
    StartIndex = 1
    COMMIT_TIMESTAMP_APPROXIMATION_DELTA = 1
    MaxBatches = 3
    MaxOps = 0
    MaxVersion = 2
INVARIANTS
    PrecommitmentForNextBatch
    BatchTimestampsIncrease
CHECK_DEADLOCK FALSE
