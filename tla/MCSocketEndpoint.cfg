SPECIFICATION FairSpec
CONSTANTS
  t1 = t1
  t2 = t2
  t3 = t3
  l1 = l1
  l2 = l2
  l3 = l3
  None = None
  Clients = {t1, t2, t3}
  Loops = {l1, l2, l3}
  MaxLate = 1
INVARIANTS
  TypeOK
  
  StoppedIsClosed
  NeverAbandoned
 
\* A stopped or disposed endpoint does nothing any more.
CHECK_DEADLOCK FALSE
