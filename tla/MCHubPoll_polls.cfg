SPECIFICATION Spec
CONSTANTS
  HubIds = {1, 4}
  Word = 4
  HubTypes <- TypesOfInterest
  Extras = {x}
  MaxTasks = 2
  MaxData = 2
INVARIANTS
  TypeOK
  TasksAreTheAnswers
  InProgressHasData
  DataComesFromItsPoll
  OnlyDiscountsSurvive
PROPERTIES
  NothingIsDropped
