CONSTANTS
  h1 = h1  h2 = h2
  t1 = t1  t2 = t2
  p1 = p1  p2 = p2
  r1 = r1  r2 = r2
  s1 = s1  s2 = s2
  None = None
  Handlers = {h1, h2}
  Timers = {t1, t2}
  Samplers = {p1, p2}
  NumChannels = 2
  OnStartTest = FALSE
  Faults = {}
  Runs = {r1, r2}
  StopIds = {s1, s2}
  Replies = {}
  Mishaps = {"decline", "audit"}
  LostCommands = {"STOP_TEST"}

SPECIFICATION SysSpec
SYMMETRY Symmetry
INVARIANTS
  IdleMeansStopped
  ActiveHasRequest
PROPERTY KeepsPromise
CHECK_DEADLOCK FALSE
