SPECIFICATION Spec
CONSTANTS
  Waiters = {w1, w2}
  Connectors = {c1}
  Nobody = nobody
  SetTo = {}
  MaxWaits = 2
INVARIANT NoMissedWakeup
