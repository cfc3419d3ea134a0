CONSTANTS
  r1 = r1  r2 = r2
  s1 = s1
  None = None
  Runs = {r1, r2}
  StopIds = {s1}
  Replies = {"ACCEPTED"}
  Mishaps = {"decline"}

SPECIFICATION FairSpec
PROPERTY ReturnsToIdle
CHECK_DEADLOCK FALSE
