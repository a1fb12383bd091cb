SPECIFICATION Spec
CONSTANTS
  t1 = t1
  t2 = t2
  Threads = {t1, t2}
  Nobody = nobody
  Bits = {6, 8}
  NotPrint = 8
  AutoShift = 6
  Masks <- SomeMasks
  Values = {v1, v2, bad}
  BadValues = {bad}
  Calls <- MaskAndOfdCalls
INVARIANTS
  TypeOK
  OfdSettingsTogether
PROPERTIES
  PurchaseOnlyGains
  PrinterSettingsKept
  AbstractSpec
