CONSTANTS
  vmnum = 1
  NumCheckouts = 2
  Builds <- MCBuilds
  LtpTag <- MCLtpTag
  LtpVersion = "B"
  DiskVersions = {None, "A"}
  Excluded = {"x"}
  Unsupported = {"u"}
  None = None
  MaxCrashes = 1
  MaxFails = 2
SPECIFICATION Spec
INVARIANTS OwnKernel RightBinaries PassedAreReproduced MachineHasPidFile
PROPERTIES OnlyCommandsHang
