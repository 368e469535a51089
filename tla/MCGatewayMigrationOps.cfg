SPECIFICATION OpsSpec
CONSTANTS
    StartIndex = 0
    MaxOps = 1
    MaxBatches = 2
    MaxInFlight = 1
    MaxMigrations = 2
    MaxGatewayBatches = 3
    MaxVersions = 1
INVARIANTS
    OneSettlementLayer
    TreesAgree
    RecordedSettlementLayer
    MigrationNotStuck
    ForkSeesSettledBatch
    ConfigurationIsNotLost
PROPERTIES
    SettlesLikeOneChain
CHECK_DEADLOCK FALSE
