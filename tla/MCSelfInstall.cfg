CONSTANTS
  v1 = v1
  v2 = v2
  rc = rc
  dev = dev
  Builds = {v1, v2, rc, dev}
  Kind <- KindOf
  UnitNames <- Units
  Armed = {"stasis", "wake"}
  UnitOf <- Embedded
  Garbage = garbage
SPECIFICATION Spec
INVARIANTS
  ArmedCanRun
  UpdateReachesNewest
  InstallIsLoaded
  RemoveLeavesNothing
