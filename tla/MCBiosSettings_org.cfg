SPECIFICATION Spec
CONSTANTS
  t1 = t1
  t2 = t2
  Threads = {t1, t2}
  Nobody = nobody
  Bits = {1, 6, 8}
  NotPrint = 8
  AutoShift = 6
  Masks <- NoBits
  Values = {v1, v2, bad}
  BadValues = {bad}
  Calls <- OrgCalls
INVARIANT OrgDataTogether
