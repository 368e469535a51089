SPECIFICATION Spec
CONSTANTS
    o1 = o1
    o2 = o2
    o3 = o3
    c1 = c1
    c2 = c2
    Operations <- MCOperations
    NoOperation = none
    predecessor <- MCpredecessor
    calls <- MCcalls
    Owner = owner
    Councils <- MCCouncils
    Delays <- MCDelays
    InitDelay = 2
    InitCouncil = c1
    InitTime = 3
    MaxTime = 5
    MaxDepth = 2
INVARIANTS
    ExecutedOnce
    PredecessorsFirst
PROPERTIES
    DelayRespected
CHECK_DEADLOCK FALSE
