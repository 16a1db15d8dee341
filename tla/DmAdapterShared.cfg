SPECIFICATION Spec
CONSTANTS
  u1 = u1
  u2 = u2
  Users = {u1, u2}
  Channels = {0, 1}
  Limit = 2
  Exclusive = FALSE
  MaxFrames = 0
  MaxOpens = 2
INVARIANT SendsOnItsChannel
CHECK_DEADLOCK FALSE
