SPECIFICATION Spec
CONSTANTS
    BlockSize = 4
    DefaultRate = 3
    EveryN = 2
    MaxChunks = 2
    MaxSec = 2
    MaxSecond = 2
    MaxBlocks = 5
    MaxKeys = 1
    NoPath = NoPath
    base = base
    auto = auto
    own = own
    BasePrefix <- base
    FilePrefixes <- MCPrefixes
    Programs <- MCPrograms
INVARIANTS
    TypeOK
    ReplayFollowsRecording
    MetadataMatchesFile
    FilesWithinLimit
PROPERTY StopEndsProcess
CHECK_DEADLOCK FALSE
