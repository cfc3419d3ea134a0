CONSTANTS
  h1 = h1  h2 = h2
  t1 = t1  t2 = t2
  r1 = r1  r2 = r2  r3 = r3
  None = None
  Handlers = {h1, h2}
  Timers = {t1, t2}
  Samplers = {}
  RequestIds = {r1, r2, r3}
  Commands = {"START_TEST", "STOP_TEST"}
  NumChannels = 2
  OnStartTest = FALSE
  AllowRetry = FALSE
  Faults = {"disarm", "receiver", "board"}

SPECIFICATION Spec
SYMMETRY Symmetry
INVARIANTS
  TypeOK
  ArmedCovered
  RunningArmed
  TimerArmed
CHECK_DEADLOCK FALSE
