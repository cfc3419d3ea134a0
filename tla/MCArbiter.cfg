CONSTANTS
  MaxRecords = 2
  MaxCrashes = 1
  MaxLost = 2
  MaxShown = 2
  Backends = {"rsync", "scp"}

  b1 = b1
  b2 = b2
  Baselines = {b1, b2}
  Rows = 2
  MaxFailed = 1
  MaxResult = 4
  InPlace = TRUE

  r1 = r1
  r2 = r2
  r3 = r3
  s1 = s1
  None = None
  Runs = {r1, r2, r3}
  StopIds = {s1}
  Replies = {"ACCEPTED", "REJECTED", "lost"}
  Mishaps = {"decline", "audit", "raise"}

SPECIFICATION ArbiterSpec
INVARIANTS
  ArbiterTypeOK
  ShownOnce
  NothingSkipped
  SavedOnce
  SavedHasSamples
  MirrorStopsItsRun
  
PROPERTIES
  EventuallyShown
  NoOverwrite
  FetchAnswered
  MirrorActs
CHECK_DEADLOCK FALSE
