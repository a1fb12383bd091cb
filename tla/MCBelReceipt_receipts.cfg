SPECIFICATION FairSpec
CONSTANTS
  t1 = t1
  t2 = t2
  Nobody = Nobody
  NoDoc = NoDoc
  NoReceipt = NoReceipt
  NoType = NoType
  Cash = 0
  Threads <- MCThreads
  PayTypes <- MCPayTypes
  Receipts <- MCReceipts
  Calls <- MCCalls
INVARIANTS
  TypeOK
  ArchivedIsWhole
  VerdictMatchesArchive
  DocumentHasOneWriter
  LeakIsExplained
  CancelReachesPrinter
PROPERTIES
  AbstractSpec
  MutexReleased
