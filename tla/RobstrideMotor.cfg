SPECIFICATION Spec
CONSTANTS
  c1 = c1
  c2 = c2
  Callers = {c1, c2}
  Setups <- Threads
  Modes = {"mit", "csp"}
  NHosts = 2
  Attempts = 2
  MaxLost = 1
  MaxAnswers = 2
  Late = FALSE
PROPERTIES OkMeansObeyed VerifiedModeHolds ReadsItsOwn StopHolds EveryCallReturns
