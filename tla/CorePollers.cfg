SPECIFICATION SafeSpec
CONSTANTS
  a = a
  b = b
  NoOne = NoOne
  Motors = {1, 2}
  Callers = {a, b}
  Workers = {w1}
  Calls <- AddAndPoll
  FrameShapes <- MCShapes
  MaxFrames = 2
  GapPinned = FALSE
  Faults <- FaultKinds
  Serialized = FALSE
PROPERTIES DeliversEachFrameOnce CallersKeepOrder PollLeavesOnlyTheWorkers
CHECK_DEADLOCK FALSE
