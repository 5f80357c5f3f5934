CONSTANTS
  Names <- MCNames
  Values <- MCValues
  InitialParameters <- MCInitialParameters
  InitialStates = {"finalized"}
  InputPaths = {}
  Priorities = {"urgent", "normal"}
  FaultStates = {}
  DriftStates = {}
  MaxQueued = 2
  InputPatches <- AllPatches
  MaxRevision = 2
  ReaderEvents <- BatteryEvents
  MaxFailures = 1
  MaxEvents = 2
SPECIFICATION ManagedFairSpec
INVARIANT NewestUntilFault
PROPERTY SettlesActive
PROPERTY SettlesFinalized
