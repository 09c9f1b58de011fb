SPECIFICATION Spec
CONSTANTS
  Receivers = {r1}
  AutoThreads = {a1}
  UltraThreads = {u1}
  NoThread = NoThread
  Buffers <- Everything
  QueueMax = 1
  Faults = {"create", "write", "open", "msgget", "msgsnd"}
  MayRestart = TRUE
INVARIANTS
  TypeOK
  NoticesAlternate
