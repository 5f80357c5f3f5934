CONSTANTS
  Names <- MCNames
  Values <- MCValues
  InitialParameters <- MCInitialParameters
  InitialStates = {"finalized"}
  InputPaths = {}
  Priorities = {"normal"}
  FaultStates = {}
  DriftStates = {}
  MaxQueued = 2
  InputPatches <- MCPatches
  MaxRevision = 1
  Mapped <- MCNames
  NodeEvents <- MCNodeEvents
  Budget <- EveryFault
SPECIFICATION ProcessFairSpec
INVARIANT FinalizedOwnsNothing
INVARIANT CompletedPatchApplied
PROPERTY SettlesStopped
