SPECIFICATION Spec
CONSTANTS
  Boxes <- MCBoxes
  Patience = 1
  MaxTries = 2
  Consoles = {"window"}
  NPages = 2
  Automatics = {FALSE, TRUE}
INVARIANT NoOneLockedOut
