SPECIFICATION Spec
CONSTANTS
  NPages = 7
  Partman = 5
  Screens <- MCScreens
  Skippable = {3}
  Silent = {2}
  MaxChanges = 2
  NoWidget = NoWidget
INVARIANT HistoryFollowsTrail
PROPERTIES
  BackShowsPrevious
  BackEnds
