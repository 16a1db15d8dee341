SPECIFICATION Spec
CONSTANTS
  s1 = s1
  s2 = s2
  m1 = m1
  m2 = m2
  b1 = b1
  b2 = b2
  Sessions = {s1}
  Motors = {m1, m2}
  Buses = {b1, b2}
  Unnamed = Unnamed
  None = None
  ScanForms <- AllScans
CHECK_DEADLOCK FALSE
INVARIANTS StopEndsOwnDriving ActiveIsForThisMotor ConnectedToTarget
