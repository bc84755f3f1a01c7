CONSTANTS
  Hosts = {a, b, c}
  Skew = 1
  StopTime = 3
  HoldUntil = 4
  Delay = 1
  MaxClock = 7
  MaxTurns = 2
SPECIFICATION Spec
PROPERTY CutLandsOnAStoppedEstate
CHECK_DEADLOCK FALSE
