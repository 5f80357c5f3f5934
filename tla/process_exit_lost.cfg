CONSTANTS
  Names <- MCNames
  Values <- MCValues
  InitialParameters <- MCInitialParameters
  InitialStates = {"finalized"}
  InputPaths = {}
  Priorities = {"normal"}
  FaultStates = {}
  DriftStates = {}
  MaxQueued = 2
  InputPatches = {}
  MaxRevision = 0
  Mapped <- MCNames
  NodeEvents <- MCNodeEvents
  Budget <- TalkingNode
SPECIFICATION ProcessFairSpec
PROPERTY DisappearanceFinalizes
