SPECIFICATION Spec
CONSTANTS
  Receivers = {r1}
  AutoThreads = {a1}
  UltraThreads = {u1}
  NoThread = NoThread
  Buffers <- Modes
  QueueMax = 2
  Faults = {}
  MayRestart = FALSE
PROPERTIES
  AutoRecreated
CHECK_DEADLOCK FALSE
