SPECIFICATION SafeSpec
CONSTANTS
  c1 = c1
  c2 = c2
  Callers = {c1, c2}
  Calls <- ReadersAndWriter
  Modes = {"vel", "pos_vel"}
  WriteAttempts = 2
  VerifyAttempts = 2
  MaxLost = 1
  MaxAnswers = 2
  Late = FALSE
  Faults = TRUE
  StartsEnabled = FALSE
  Serialized = FALSE
PROPERTIES OkMeansMode ReadIsFresh
