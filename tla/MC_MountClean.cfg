CONSTANTS
  Mounts <- MCMounts
  Tables <- MCTables
  LoopSources <- MCLoopSources
SPECIFICATION Spec
INVARIANT CleanMatchesReference
