CONSTANTS
  JobNames = {"powerloss", "together", "worker", "remote", "conserve", "reboot", "rehearsal"}
  OnNames = {"OL", "recharge"}
  OffNames = {"OB"}
  MaxSteps = 6
  Jobs <- MCJobs
  Guests <- GuestSet
  Far = {"far"}
  Order <- OrderMap
  SamplesOn <- MCSamplesOn
  SamplesOff <- MCSamplesOff
  PriorMarks = {{}}
  Deadline = 4
  ForceStopGrace = 1
  HaltTimeout = 1
SPECIFICATION Spec
INVARIANTS
  TypeOK
  QuietBeforeTheCut
  AbandonedMeansNothingArmed
  AbortGivesBack
  NooutOutlivesTheGuests
PROPERTIES
  OnlyMainsAbandon
  CommitsTogether
  RunEnds
  KeepsThePromise
CHECK_DEADLOCK FALSE
