CONSTANTS
  Type = "gpt"
  Sector = 4
  Grain = 8192
  StartOffset = 9000
  AbsoluteStartOffset = TRUE
  ExtraPadding = 5
  GrowRoot = TRUE
  Extent = 32768
  VGMetadata = 8192
  LUKSMetadata = 131072
  Tables <- MCTables
  DiskSizes <- MCDiskSizes
  ImageSizes <- MCImageSizes
SPECIFICATION Spec
INVARIANTS TypeOK NoOverlap PayloadsFit RootLast
