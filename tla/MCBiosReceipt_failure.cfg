SPECIFICATION Spec
CONSTANTS
  t1 = t1
  t2 = t2
  Nobody = Nobody
  NoDoc = NoDoc
  NoReceipt = NoReceipt
  NoType = NoType
  Cash = 0
  Threads <- MCThreads
  PayTypes <- MCPayTypes
  Receipts <- Requisites
  Calls <- Receipt
INVARIANTS
  FailureCancels
