SPECIFICATION FairSpec
CONSTANTS
  i1 = i1
  i2 = i2
  i3 = i3
  read = read
  write = write
  Ids = {i1, i2, i3}
  None = None
  Calls = {read, write}
  Awaiting = {write}
  MaxInjections = 2
INVARIANTS TypeOK AnswerIsOwn
PROPERTIES EveryCallSettles ImplementsRemoteCalls
