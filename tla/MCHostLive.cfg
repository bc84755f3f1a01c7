CONSTANTS
  Guests = {"app"}
  ShedTag = {"app"}
  Tiers <- OnlyApp
  Faults = {"reboot"}
  MaxRuns = 2
  MaxTurns = 4
SPECIFICATION Spec
PROPERTIES
  VerbsEnd
  EverythingComesBack
CHECK_DEADLOCK FALSE
