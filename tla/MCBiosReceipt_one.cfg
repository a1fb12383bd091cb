SPECIFICATION FairSpec
CONSTANTS
  t1 = t1
  t2 = t2
  Nobody = Nobody
  NoDoc = NoDoc
  NoReceipt = NoReceipt
  NoType = NoType
  Cash = 0
  Threads <- MCThreads
  PayTypes <- MCPayTypes
  Receipts <- AllReceipts
  Calls <- OneCashier
INVARIANTS
  TypeOK
  VerdictMatchesArchive
  DocumentHasOneWriter
  LeakIsExplained
  CancelReachesPrinter
  ArchivedIsWhole
PROPERTIES
  AbstractSpec
  Undisturbed
  MutexReleased
