CONSTANTS
  Guests = {"app", "web"}
  ShedTag = {"app"}
  Tiers <- BothAtOnce
  Faults = {"stop", "start", "blind", "journal", "kill", "reboot"}
  MaxRuns = 2
  MaxTurns = 2
SPECIFICATION Spec
INVARIANTS
  TypeOK
  NothingForgotten
PROPERTY UndoneOnce
CHECK_DEADLOCK FALSE
