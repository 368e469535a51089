SPECIFICATION Spec
CONSTANTS
    Env = "stage"
    Parts <- AllParts
    GatewayFlavor = "zksync_os"
    Changing <- MCChanging
    MaxChanges = 1
    MaxFaults = 1
INVARIANTS
    AcceptedIsGenuine
    RegenerationAccepted
CHECK_DEADLOCK FALSE
