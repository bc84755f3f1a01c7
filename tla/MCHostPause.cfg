CONSTANTS
  Guests = {"app"}
  ShedTag = {"app"}
  Tiers <- OnlyApp
  Faults = {"stop", "start", "blind", "journal", "listing", "gap", "kill", "reboot"}
  MaxRuns = 2
  MaxTurns = 2
SPECIFICATION Spec
INVARIANT NothingForgotten
CHECK_DEADLOCK FALSE
