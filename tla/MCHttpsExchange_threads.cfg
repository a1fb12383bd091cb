SPECIFICATION FairSpec
CONSTANTS
  window = window
  loader = loader
  Nobody = Nobody
  Threads <- MCThreads
  Calls <- Everything
  Size = 2
  MaxLength = 2
INVARIANTS
  TypeOK
  LoadedIsWhole
  AnswerIsOfThisTime
PROPERTIES
  MutexCurlKeptByNetwork
