CONSTANTS
  EpochSteps = 5
  Stride = 2
  StepLimit = 0
  MaxEpochs = 2
  MaxUpsets = 2
  MaxFaults = 0
  MaxDeaths = 1

SPECIFICATION ParticlesSpec
INVARIANTS
  TriageTrue
CHECK_DEADLOCK FALSE
