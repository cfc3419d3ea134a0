CONSTANTS
  h1 = h1
  t1 = t1  t2 = t2
  s1 = s1  s2 = s2
  r1 = r1  r2 = r2  r3 = r3
  None = None
  Handlers = {h1}
  Timers = {t1, t2}
  Samplers = {s1, s2}
  RequestIds = {r1, r2, r3}
  Commands = {"START_TEST", "STOP_TEST", "BASELINE_TEST"}
  NumChannels = 2
  OnStartTest = FALSE
  AllowRetry = FALSE
  Faults = {}

SPECIFICATION Spec
PROPERTY AutoStopOnlyItsRun
CHECK_DEADLOCK FALSE
