SPECIFICATION Spec
CONSTANTS
  Package = {"base", "gone", "lib", "prm", "tool", "doc", "new", "lp", "adcli", "grub", "drv"}
  Depends <- MCDepends
  Recommends <- MCRecommends
  Held = {"base"}
  Prerm = {"prm"}
  Live = {"base", "gone", "lib", "prm", "tool", "doc", "lp", "adcli", "drv"}
  Unwanted = {"gone", "lib", "prm", "tool"}
  Restricted = {"drv"}
  Langpacks = {"lp"}
  AdTools = {"adcli"}
  AdCli = {"adcli"}
  Optional = {"new", "gone"}
  Grub = {"grub"}
  Source <- MCSource
  Walk <- MCWalk
  Owner <- MCOwner
  Reserved <- MCReserved
  Targets <- MCTargets
  ImageModes = {"one", "rofs", "union", "detected", "several"}
  Images <- MCImages
  UpdaterDir <- MCUpdaterDir
  Efi = TRUE
  Display = TRUE
  Plugins = 1
  AutoInst = {"doc"}
  Multiarch = {"new"}
  LateRequests = {"grub"}
  OemConfig = {"gone"}
  Missing = {"lib"}
  Nonfree = {}
INVARIANTS
  CopiesTheSource
  NoFilesMissing
  TargetReleased
  ProgressFits
  AskedForIsInstalled
  NoHollowPackage
PROPERTY NothingLost
CHECK_DEADLOCK FALSE
