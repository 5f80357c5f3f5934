CONSTANTS
  Names <- MCNames
  Values <- MCValues
  InitialParameters <- MCInitialParameters
  InitialStates = {"finalized"}
  InputPaths <- RecoveryPaths
  InputPatches <- GatedPatches
  Priorities = {"normal"}
  FaultStates = {"unconfigured"}
  DriftStates = {"active", "transitioning"}
  MaxQueued = 2
  MaxRevision = 2
SPECIFICATION FairSpec
INVARIANT TypeOK
INVARIANT CompletedPatchApplied
INVARIANT AdjacentExecution
PROPERTY StopTerminates
PROPERTY PatchSettles
