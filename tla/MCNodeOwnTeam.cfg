SPECIFICATION Spec
CONSTANTS
    RunMode = "competition"
    MaxJamBreakLevel = 2
    KeyRetryLimit = 2
    KeyRetryInterval = 1
    RequireProfile = TRUE
    Profiles <- MCProfiles
    k1 = k1
    k2 = k2
    NoKey = NoKey
    Keys <- MCKeys
    SelfIds <- OurId
    JamLevels <- MCLevels
    SelfColors <- Red
PROPERTIES
    JamCodeTeamIsOpponent
