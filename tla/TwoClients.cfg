SPECIFICATION Spec
CONSTANTS
  Receivers = {r1, r2}
  AutoThreads = {a1, a2}
  UltraThreads = {u1, u2}
  NoThread = NoThread
  Buffers <- Modes
  QueueMax = 1
  Faults = {"open", "msgsnd"}
  MayRestart = FALSE
INVARIANTS
  NoticesAlternate
  DeviceHeldByOne
PROPERTIES
  ArmedProcessSurvives
CHECK_DEADLOCK FALSE
SYMMETRY ThreadSymmetry
