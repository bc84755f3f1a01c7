CONSTANTS
  Hosts = {a, b, c}
  Skew = 1
  StopTime = 3
  HoldUntil = 4
  Delay = 1
  MaxClock = 7
  MaxTurns = 2
SPECIFICATION Spec
INVARIANT SequencesAreSpared
PROPERTIES
  EarlyMeansEveryone
  SequencesEnd
  HaltedComesBack
CHECK_DEADLOCK FALSE
