CONSTANTS
  JobNames = {"worker"}
  OnNames = {"OL"}
  OffNames = {"OB"}
  MaxSteps = 6
  Jobs <- MCJobs
  Guests <- GuestSet
  Far = {"far"}
  Order <- OrderMap
  SamplesOn <- MCSamplesOn
  SamplesOff <- MCSamplesOff
  PriorMarks = {{"k8s.cordon"}}
  Deadline = 3
  ForceStopGrace = 1
  HaltTimeout = 1
SPECIFICATION Spec
INVARIANT PriorMarksKept
CHECK_DEADLOCK FALSE
