SPECIFICATION FairSpec
CONSTANTS
  Connections = {c1, c2}
  Threads = {t1, t2}
  Fds <- TwoFds
  Nobody = Nobody
  Failures = {"accept", "create"}
  Nodes = {n1, n2}
  NULL = NULL
INVARIANTS
  ListedAreOpen
  ListedOnce
  OneThreadPerConnection
PROPERTIES
  EveryClientOnce
  ClosesOnlyItsOwn
  LeftIsUnlisted
CHECK_DEADLOCK FALSE
