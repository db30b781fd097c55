SPECIFICATION FairSpec
CONSTANTS
  c1 = c1
  c2 = c2
  k1 = k1
  k2 = k2
  NoConn = NoConn
  Callers = {c1}
  Subscribers = {c1}
  Conns = {k1, k2}
  AutoReconnect = TRUE
  Disposable = FALSE
  MaxInFlight = 1
  MaxAcks = 0
  MaxLoops = 1
PROPERTIES
  CallsReturn
  LifecycleReturns
