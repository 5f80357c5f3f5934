SPECIFICATION PathSpec
CONSTANTS
  Codecs = {"hipnuc", "smit", "pager"}
  Payloads <- SomePayloads
  NoiseBytes = {0, 1, 4, 5, 6}
  MaxNoise = 3
  MaxDamage = 2
  Fragments <- AnswerSizes
  Faults = {"late", "lost", "foreign", "refused"}
  MaxFaults = 3
  Lenses <- SomeLenses
  FrameSizes <- SomeSizes
  Crops <- SomeCrops
  FocalScales = {1, 2, 4}
INVARIANT OnlyFramesSent
INVARIANT Resynchronises
INVARIANT RegistersMatchRequest
INVARIANT InfoDescribesImage
PROPERTY PollsRecover
