CONSTANTS
  d1 = d1
  d2 = d2
  c1 = c1
  c2 = c2
  Nobody = Nobody
  Device = d1
  Devices <- MCDevices
  Controllers <- MCControllers
  Faults = {"handler", "register", "registered", "thread"}
  MaxSessions = 2
  MaxFaults = 1
  MaxQueued = 2
SPECIFICATION FairSpec
INVARIANT StoppedMeansStopped
INVARIANT NoStaleTick
INVARIANT HookKeptOnce
PROPERTY DeviceIsExecutor
PROPERTY CallsReturn
