SPECIFICATION Spec
CONSTANTS
  c1 = c1
  c2 = c2
  k1 = k1
  k2 = k2
  NoConn = NoConn
  Callers = {c1}
  Subscribers = {c1}
  Conns = {k1, k2}
  AutoReconnect = TRUE
  Disposable = TRUE
  MaxInFlight = 2
  MaxAcks = 1
  MaxLoops = 1
INVARIANTS
  TypeOK
  SendDiscipline
  NoOrphanedRequest
  SubscriptionsMatch
  NoForgottenConnection
  ConnectedMeansHandshaken
  StoppedIsQuiet
PROPERTIES
  StoppedIsSticky
  ResponsesPaired
\* A disposed endpoint does nothing any more.
CHECK_DEADLOCK FALSE
