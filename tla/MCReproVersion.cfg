CONSTANTS
  vmnum = 1
  NumCheckouts = 2
  Builds <- MCBuilds
  LtpTag <- MCLtpTag
  LtpVersion = "B"
  DiskVersions = {None, "A"}
  Excluded = {"x"}
  Unsupported = {"u"}
  None = None
  MaxCrashes = 0
  MaxFails = 0
SPECIFICATION Spec
INVARIANT LtpOfCheckout
