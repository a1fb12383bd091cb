SPECIFICATION FairSpec
CONSTANTS
  Gui = gui
  Threads = {gui}
  Nobody = nobody
  NoDoc = nodoc
  PayTypes = {1}
  PayType = 1
  Positions = 10
  Strings = 4
INVARIANTS
  TypeOK
  ReceiptIsItsOwn
  LeftoverIsExplained
PROPERTIES
  ClickEnds
