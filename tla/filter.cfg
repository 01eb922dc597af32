SPECIFICATION Spec
CONSTANTS
  Asked = {"q1", "q2"}
  Errors = {"e"}
  Quiet = {}
  Others = {"o"}
  Seen = {"q2"}
  Automatic = TRUE
  Titles = {"copy", "install"}
  MaxBars = 3
INVARIANTS
  GoFollowsTheAnswer
  CancelOffered
  BarsInStep
