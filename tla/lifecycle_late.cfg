CONSTANTS
  Names <- MCNames
  Values <- MCValues
  InitialParameters <- MCInitialParameters
  InitialStates = {"unknown"}
  Priorities = {"normal"}
  FaultStates = {}
  DriftStates = {}
  MaxQueued = 1
  NodeEvents <- NodeFault
  MaxIncidents = 1
  MaxEvents = 2
  InputPaths <- NoSuchEdge
  InputPatches = {}
  MaxRevision = 0
  Incidents = {"refuse", "slow", "lost", "restart", "event", "submit", "stop"}
SPECIFICATION LifecycleFairSpec
INVARIANT EventsBeatAnswers
PROPERTY ConfiguredAsAsked
PROPERTY CacheCatchesUp
PROPERTY SettlesActive
