SPECIFICATION FairSpec
CONSTANTS
  Receivers = {r1}
  AutoThreads = {a1, a2}
  UltraThreads = {u1}
  NoThread = NoThread
  Buffers <- Modes
  QueueMax = 3
  Faults = {}
  MayRestart = FALSE
INVARIANTS
  VerdictReachesMotors
  NoOpposedDrive
PROPERTIES
  StopRequestsKept
  KilledUltraCloses
  SelfSignalIsForever
  AvoidsObstacles
  ActsOnEveryVerdict
  MotorsTrackObstacle
CHECK_DEADLOCK FALSE
