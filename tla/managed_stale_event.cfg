CONSTANTS
  Names <- MCNames
  Values <- MCValues
  InitialParameters <- MCInitialParameters
  InitialStates = {"finalized"}
  InputPaths = {}
  Priorities = {"normal"}
  FaultStates = {}
  DriftStates = {}
  MaxQueued = 2
  InputPatches = {}
  MaxRevision = 0
  ReaderEvents <- SerialEvents
  MaxFailures = 1
  MaxEvents = 2
SPECIFICATION ManagedSpec
PROPERTY ActiveUntilAsked
