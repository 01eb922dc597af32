SPECIFICATION Spec
CONSTANTS
  Pages <- MCShortPages
  UiOnly = {}
  Skippable = {}
  Silent = {}
  NoGo = {}
  FilterIds = {f1, f2, f3}
  NoFilter = NoFilter
  NoWidget = NoWidget
  Prompt = TRUE
  MaxFaults = 1
INVARIANTS
  TypeOK
  StepsInOrder
  NoDeadFilter
CHECK_DEADLOCK FALSE
