SPECIFICATION Spec
CONSTANTS
  a = a
  b = b
  NoOne = NoOne
  Motors = {1, 2}
  Callers = {a}
  Workers = {w1, w2}
  Calls <- OneUser
  FrameShapes <- MCShapes
  MaxFrames = 2
  GapPinned = FALSE
  Faults <- FaultKinds
  Serialized = TRUE
INVARIANTS TypeOK OneWorker ShutdownDisablesAll
PROPERTIES ClosesBusQuietly ShutdownKeepsOrder EveryCallReturns QueueIsDrained
CHECK_DEADLOCK FALSE
