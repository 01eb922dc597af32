SPECIFICATION Spec
CONSTANTS
  Size = 4
  DeviceOf <- MCDeviceOf
  Initial <- MCInitial
  Recipe <- MCRecipe
  LockedParts <- MCLocked
  LockedDevices = {"sda"}
  AutoChoices <- MCAutoChoices
  Fallback = "ext4"
  FirstMounts <- MCFirstMounts
  Methods = {"ext4", "crypto"}
  Mounts = {"", "/"}
  OneDisk = FALSE
INVARIANT DeletingRebuilds
