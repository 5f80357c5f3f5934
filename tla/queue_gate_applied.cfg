CONSTANTS
  Names <- MCNames
  Values <- MCValues
  InitialParameters <- MCInitialParameters
  InitialStates = {"finalized"}
  InputPaths <- StartupPaths
  InputPatches <- GatedPatches
  Priorities = {"urgent", "normal"}
  FaultStates = {}
  DriftStates = {}
  MaxQueued = 2
  MaxRevision = 3
SPECIFICATION Spec
INVARIANT NewestParametersApplied
