SPECIFICATION Spec
CONSTANTS
  Selectors <- MCSelectors
  Addresses <- MCAddresses
  Zero = "zero"
  Chains = {"era", "zk"}
  Era = "era"
  InitialCut <- MCInitialCut
  Bytecode <- MCBytecode
  PatchBase = 2
  StartVersion = 2
  OldVersion = 3
  NewVersion = 4
  MaxPatch = 1
  PatchDeadlines = {"finite"}
  DeadlineChanges = {"past"}
  Deviations = {"none", "deadline", "old", "new", "freezable", "dropped", "selector", "order", "replace", "facet", "repeated", "creation"}
  MaxReverts = 1
INVARIANTS
  UniformFacets
  UpgradeApplies
  StuckOnlyByDeadline
