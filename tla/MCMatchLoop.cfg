SPECIFICATION MatchSpec
CONSTANTS
    MaxJamBreakLevel = 3
    KeyPublishMinInterval = 2
    KeyRetryLimit <- NoLimit
    CountCap = 1
    k1 = k1
    NoKey = NoKey
    NoContext = NoContext
    Keys <- MCKeys
    Contexts <- MCContexts
    EventLevels <- MCLevels
    FallbackParam = 0
    MatchColors <- MCColors
INVARIANT NeverAheadOfJudge
PROPERTIES
    InfoKeepsComingBack
    LevelUpIsAnswered
