SPECIFICATION FairSpec
CONSTANTS
  Waiters = {w1, w2}
  Connectors = {c1}
  Nobody = nobody
  SetTo = {TRUE, FALSE}
  MaxWaits = 2
INVARIANTS
  TypeOK
  FalseOnlyAfterDeadline
  TrueOnlyIfConnected
PROPERTY WaitReturns
