CONSTANTS
  Names <- MCNames
  Values <- MCValues
  InitialParameters <- MCInitialParameters
  InitialStates = {"finalized"}
  InputPaths <- OperatorPaths
  InputPatches <- GatedPatches
  Priorities = {"urgent", "normal"}
  FaultStates = {}
  DriftStates = {}
  MaxQueued = 2
  MaxRevision = 3
SPECIFICATION Spec
INVARIANT PendingIsQueued
INVARIANT PatchPlansNewest
INVARIANT StoppedIsEmpty
INVARIANT FinalizedWhenJoined
INVARIANT CalledFromSource
PROPERTY DeltaHandedOver
PROPERTY ImplementsSerialExecutor
