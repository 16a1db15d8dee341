SPECIFICATION Spec
CONSTANTS
  c1 = c1
  c2 = c2
  Callers = {c1}
  Calls <- GuardedCalls
  Modes = {"vel", "pos_vel", "mit", "force_pos"}
  WriteAttempts = 2
  VerifyAttempts = 2
  MaxLost = 0
  MaxAnswers = 3
  Late = FALSE
  Faults = FALSE
  StartsEnabled = FALSE
  Serialized = TRUE
PROPERTIES SwitchesOnlyWhenStill WritesOnlyDisabled EveryCallReturns
