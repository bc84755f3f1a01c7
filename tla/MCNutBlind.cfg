CONSTANTS
  First2 = u1
  Second2 = u2
  Upsd = {u1, u2}
  Confs <- TwoEndpoints
  Calls <- GateReads
  DialTimeout = 3
SPECIFICATION Spec
INVARIANT OneDeadDoesNotBlind
CHECK_DEADLOCK FALSE
