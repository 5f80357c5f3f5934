SPECIFICATION Spec
CONSTANTS
  Kinds <- AllKinds
  Incidents <- AllIncidents
  MaxIncidents <- Bounds
  Sectors = 4
  Windows <- SomeWindows
  FailuresToOffline = 3
  OtpWindows = 2
INVARIANT LossReported
INVARIANT StoppedIsQuiet
INVARIANT ScanIsOneTurn
PROPERTY OfflineNeedsFailures
PROPERTY CallsReturn
PROPERTY LinkRecovers
