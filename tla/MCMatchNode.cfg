SPECIFICATION MatchSpec
CONSTANTS
    RunMode = "competition"
    MaxJamBreakLevel = 3
    KeyRetryLimit = 2
    KeyRetryInterval = 1
    LossLimit = 1
    RequireProfile = TRUE
    Profiles <- MCProfiles
    k1 = k1
    NoKey = NoKey
    Keys <- MCKeys
    SelfIds <- MCNone
    SelfColors <- MCNone
    JamLevels <- MCNone
INVARIANT NeverAheadOfJudge
PROPERTY InfoKeepsComingBack
