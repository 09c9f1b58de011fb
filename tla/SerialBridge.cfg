SPECIFICATION FairSpec
CONSTANTS
  c1 = c1
  c2 = c2
  Clients = {c1, c2}
  Threads = {t1, t2}
  Fds = {4, 5}
  Nobody = Nobody
  Bytes <- SomeBytes
  Noise <- OneNoise
  MaxSent <- TwoAndOne
  MaxArrived = 2
  Failures = {"setup", "create"}
INVARIANTS
  ClientSeesUart
PROPERTIES
  CarriesAsPipe
  SentIsWritten
  AllBytesLeave
CHECK_DEADLOCK FALSE
