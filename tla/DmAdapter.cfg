SPECIFICATION Spec
CONSTANTS
  u1 = u1
  u2 = u2
  Users = {u1, u2}
  Channels = {0, 1}
  Limit = 2
  Exclusive = TRUE
  MaxFrames = 4
  MaxOpens = 3
SYMMETRY Alike
INVARIANTS OnlyFirstIsForeign MissesOnlyTheOldest
CHECK_DEADLOCK FALSE
