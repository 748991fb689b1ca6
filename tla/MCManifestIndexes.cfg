SPECIFICATION Spec
CONSTANTS
    Requests <- MCRequests
    Images <- MCImages
    MaxWorld = 2
    MaxSerialize = 2
INVARIANTS
    IndexesListed
CHECK_DEADLOCK FALSE
