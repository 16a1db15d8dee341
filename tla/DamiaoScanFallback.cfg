SPECIFICATION Spec
CONSTANTS
  Motors = {"m1", "m2"}
  Setups <- DeafToReads
  ScanModels <- MCScanModels
  MaxMishaps = 0
INVARIANT FeedbackFinds
