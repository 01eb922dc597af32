SPECIFICATION Spec
CONSTANTS
  Pages <- MCShortPages
  UiOnly = {}
  Skippable = {}
  Silent = {}
  NoGo = {}
  FilterIds = {f1, f2, f3, f4}
  NoFilter = NoFilter
  NoWidget = NoWidget
  Prompt = TRUE
  MaxFaults = 0
INVARIANT CommittedOnce
CHECK_DEADLOCK FALSE
