CONSTANTS
  Type = "dos"
  Sector = 4
  Grain = 8192
  StartOffset = 0
  AbsoluteStartOffset = FALSE
  ExtraPadding = 0
  GrowRoot = TRUE
  Extent = 32768
  VGMetadata = 8192
  LUKSMetadata = 131072
  Tables = {}
  DiskSizes = {}
  Policies = {TRUE, FALSE}
  DefaultFs = "xfs"
  GiB = 8388608
  BootMin = 4096000
  Bases <- MCBases
  Customs <- MCCustoms
  Modes <- MCModes
  Required <- MCRequired
  Ancestors <- MCAncestors
  ImageSizes <- MCImageSizes
SPECIFICATION DiskSpec
INVARIANTS SizesHonoured BootReadable OrderIrrelevant PartitionLimit
PROPERTIES NothingShrinks LayoutSpec
