CONSTANTS
  Names <- MCNames
  Values <- MCValues
  InitialParameters <- MCInitialParameters
  InitialStates = {"finalized"}
  InputPaths <- NoSuchEdge
  Priorities = {"normal"}
  FaultStates = {}
  DriftStates = {}
  MaxQueued = 2
  InputPatches <- Gate
  MaxRevision = 2
  Mapped <- MCNames
  NodeEvents <- MCNodeEvents
  Budget <- SilentNode
SPECIFICATION ProcessFairSpec
INVARIANT DisappearanceReported
PROPERTY SettlesRunning
