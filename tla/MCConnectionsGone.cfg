CONSTANTS
    NumClients = 3
    Requests <- Mixes
    MaxGone = 1
    MaxTcpCount = 2
    RequestPieces = 2
    FilePieces = 2
    None = None
    AssetFile = AssetFile

SPECIFICATION LiveSpec
PROPERTY GoneAreClosed
CHECK_DEADLOCK FALSE
