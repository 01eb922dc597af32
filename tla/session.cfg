SPECIFICATION Spec
CONSTANTS
  Boxes <- MCBoxes
  Patience = 1
  MaxTries = 2
  Consoles = {"window", "debconf_ui"}
  NPages = 2
  Automatics = {FALSE, TRUE}
INVARIANTS
  WellStarted
  AWayIn
PROPERTY NeverStuck
