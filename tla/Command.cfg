SPECIFICATION Spec
CONSTANTS
  Motors = {"m1", "m2"}
  Setups <- MCSetups
  ScanModels <- MCScanModels
  MaxMishaps = 2
INVARIANTS ReportsAreReal ScanMissesNone TouchesOnlyItsOwn LeavesAsAsked VerifiedMeansMoved InterruptIsClean
