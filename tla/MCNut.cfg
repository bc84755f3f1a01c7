CONSTANTS
  First2 = u1
  Second2 = u2
  Upsd = {u1, u2}
  Confs <- TwoEndpoints
  Calls <- EveryCall
  DialTimeout = 3
SPECIFICATION Spec
INVARIANTS
  CutReportedIsTaken
  CutRepeatedOnlyUnheard
  ReadingOfOneUpsd
  QuickFailuresCostNothing
PROPERTY CallReturns
CHECK_DEADLOCK FALSE
