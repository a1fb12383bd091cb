SPECIFICATION Spec
CONSTANTS
  HubIds = {1, 2}
  Word = 4
  HubTypes <- OddTypes
  Extras = {x}
  MaxTasks = 2
  MaxData = 2
INVARIANTS
  CarriesItsOwn
