SPECIFICATION Spec
CONSTANTS
    Requests <- MCRequests
    Images <- MCImages
    MaxWorld = 2
    MaxSerialize = 2
INVARIANTS
    ReferencesResolve
    SourcesComplete
    ToolsInBuildRoot
    KernelFresh
    AbortedIsFinal
    PanicsKnown
    BootImagesMade
    TreeOrder
    NothingDropped
    OwnSettings
CHECK_DEADLOCK FALSE
