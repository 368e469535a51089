SPECIFICATION Spec
CHECK_DEADLOCK FALSE
CONSTANTS
    CtmOrder <- Both
    Chains = {"c1", "c2"}
    ExemptChains = {"c2"}
    PuhGoverned = TRUE
    NewGateway = TRUE
    LegacyGateway = TRUE
    Intervals <- OneInterval
    DaPairs = {"era"}
    Delay = 1
    MaxRev = 2
    Worlds <- MCWorlds
    Away = {"c2"}
    Bump = 1
    MaxRuns = 3
INVARIANTS
    RunIsOneStep VerdictIsRight
