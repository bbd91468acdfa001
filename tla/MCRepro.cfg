CONSTANTS
  vmnum = 2
  NumCheckouts = 3
  Builds <- MCBuilds
  LtpTag <- MCLtpTag
  LtpVersion = "A"
  DiskVersions = {None}
  Excluded = {}
  Unsupported = {}
  None = None
  MaxCrashes = 1
  MaxFails = 1
SPECIFICATION Spec
INVARIANTS OwnCheckout  SlicesReproduced
