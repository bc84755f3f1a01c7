CONSTANTS
  Jobs <- Record
  MaxLines = 8
  Gap = 2
  Limit = 2
  Margin <- Half
  Floor = 2
  MaxRuns = 3
  MaxOf <- OneConserve
  MaxClock = 4
SPECIFICATION Spec
INVARIANTS
  TypeOK
  NothingActsUnannounced
  CutReadsAsCut
  UndoFindsTheOutage
  ThresholdCoversEveryRun
CHECK_DEADLOCK FALSE
