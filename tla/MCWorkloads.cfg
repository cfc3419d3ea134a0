CONSTANTS
  Timeout = 2
  MaxSeq = 3
  MaxBoot = 2
  MaxNet = 2
  MaxNoise = 1
  MaxRestart = 1
  MaxDisorder = 1

  Interval = 2
  Duration = 5
  RollingWindow = 2
  Readings = {3, 8}
  MaxClock = 6

  x1 = x1
  x2 = x2
  x3 = x3
  Chunks <- MCChunks
  Bits = {1, 2}
  HoldSweeps = 2
  MaxReport = 1
  CheckpointSweeps = 2
  Iterations = 0
  InjectSweep = 2
  InjectByte = x3
  InjectBit = 1
  MaxSweeps = 4
  MaxFlips = 3

  EpochSteps = 5
  Stride = 2
  StepLimit = 0
  MaxEpochs = 2
  MaxUpsets = 1
  MaxFaults = 1
  MaxDeaths = 1

  EnergyValues = {0, 1, 5000, 5300, 10000, 12345}
  LengthValues = {0, 1, 800}
  DurationValues = {0, 30, 50, 51, 10000, 8640000, 8640001}
  StartFields = {"energy", "shield", "duration", "extras"}
  ReceiverEnergies = {5000, 6300, 10000, 20000}
  ReceiverThicknesses = {0, 800, 1200, 1600}

  TallyLimited = {"compute"}
  TallyRecords = 1
  TallyEnds = 2

SPECIFICATION WorkloadsSpec
INVARIANTS
  WorkloadsTypeOK
  GapsAreLosses
  DetectedInTime
  LoggedIsTrue
  NeverAhead
  Conservation
  LogAddsUp
  
  OneSeePerEpoch
  DumpLocates
  
  NothingStale
  EffectsAgree
  RestartsCounted
  CrashesShown
PROPERTIES
  NoFalseAlarm
CHECK_DEADLOCK FALSE
