CONSTANTS
    FileSizes = {0, 1, 3, 12}
    OldSizes = {0, 2, 14}
    FnameLen = 7
    Names <- MCNames
    ChunkSize = 4
    PacketSize = 5
    Window = 20

SPECIFICATION Spec
INVARIANT ServerSurvives
CHECK_DEADLOCK FALSE
