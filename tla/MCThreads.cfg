SPECIFICATION ThreadSpec
CONSTANTS
    MaxJamBreakLevel = 3
    KeyPublishMinInterval = 1
    KeyRetryLimit <- NoLimit
    CountCap = 1
    NoKey = 0
    NoContext = NoContext
    Keys <- MCKeys
    Contexts <- MCLossyContexts
    EventLevels <- MCLevels
INVARIANT NoLevelAheadOfJudge
PROPERTIES
    WrongKeyIsReplaced
    InfoTunedWhileIdentified
