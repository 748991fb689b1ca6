CONSTANTS
  Type = "gpt"
  Sector = 4
  Grain = 8192
  StartOffset = 0
  AbsoluteStartOffset = FALSE
  ExtraPadding = 0
  GrowRoot = TRUE
  Extent = 32768
  VGMetadata = 8192
  LUKSMetadata = 131072
  Tables = {}
  DiskSizes = {}
  Policies = {TRUE, FALSE}
  Defaults = {TRUE, FALSE}
  ESPSize = 1638400
  BIOSSize = 8192
  PRePSize = 32768
  BootSize = 8388608
  Requests <- MCRequests
  Customs <- MCCustoms
  Boots <- MCBoots
  Required <- MCRequired
  Ancestors <- MCAncestors
  ImageSizes <- MCImageSizes
SPECIFICATION CustomSpec
INVARIANTS MountedOnce
