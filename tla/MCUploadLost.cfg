CONSTANTS
    FileSizes = {3}
    NameLen = 1
    ValueLen = 1
    ActiveLen = 2
    FnameLen = 5
    PacketSize = 3
    BufferSize = 38
    Cut = TRUE

SPECIFICATION Spec
CHECK_DEADLOCK FALSE
INVARIANT OkMeansWholeFile
