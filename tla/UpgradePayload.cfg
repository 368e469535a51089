SPECIFICATION Spec
CONSTANTS
  Flavors = {"era", "zkos"}
  Deviations = {"none", "noTx", "otherTx", "from", "to", "gas", "lowGas", "pubdata", "nonce", "value", "selector", "delegate", "flag", "ctmDeployer", "additional", "depMissing", "depTwice", "depExtra", "depKind", "fdMissing", "fdTwice", "fdExtra", "fdFile", "fdCtor", "fdValue", "fdInput", "fdUnsafe", "fdBlake", "fdProxy", "delegateBlake", "otherVM", "infoBlake", "hash", "noHash", "timestamp", "version", "fixed", "toml", "genesisUpgrade", "diamondInit", "root", "commitment", "index", "initHash", "initFixed"}
  Touched = {"L2Bridgehub", "L2ChainAssetHandler", "InteropCenter"}
  FirstBatch = {"SystemContractProxy", "Bootloader", "L2Bridgehub", "L2V31Upgrade"}
  Others = {"L2Bridgehub", "InteropCenter"}
INVARIANTS AcceptedNeverReverts UpgradedAsExpected
PROPERTIES EventuallyExecuted
CHECK_DEADLOCK FALSE
