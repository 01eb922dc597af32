SPECIFICATION FairSpec
CONSTANTS
  Pages <- MCPages
  UiOnly = {"wireless"}
  Skippable = {"wireless"}
  Silent = {"console_setup"}
  NoGo = {"prepare"}
  FilterIds = {f1, f2, f3, f4}
  NoFilter = NoFilter
  NoWidget = NoWidget
  Prompt = FALSE
  MaxFaults = 0
INVARIANTS
  NoQuitLost
  LockedWhileWorking
  ClicksReachThePage
PROPERTIES
  Termination
  ImplementsPlan
