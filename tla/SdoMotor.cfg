SPECIFICATION Spec
CONSTANTS
  c1 = c1
  c2 = c2
  Callers = {c1, c2}
  Setups <- Threads
  MaxMishaps = 1
  MaxReports = 1
  MaxReplies = 3
  Late = FALSE
PROPERTIES OkMeansDone TargetFitsMode IntactSucceeds QueryIsFresh EveryCallReturns
