SPECIFICATION RateSpec
CONSTANTS
    MaxJamBreakLevel = 3
    KeyPublishMinInterval = 2
    KeyRetryLimit = 2
    CountCap = 2
    k1 = k1
    k2 = k2
    NoKey = NoKey
    NoContext = NoContext
    Keys <- MCKeys
    Contexts <- MCContexts
    EventLevels <- MCLevels
PROPERTY SameKeyOncePerInterval
