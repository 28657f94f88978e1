SPECIFICATION Spec
CONSTANTS
    RunMode = "competition"
    MaxJamBreakLevel = 3
    KeyRetryLimit = 2
    KeyRetryInterval = 1
    RequireProfile = TRUE
    Profiles <- MCProfiles
    k1 = k1
    k2 = k2
    NoKey = NoKey
    Keys <- MCKeys
    SelfIds <- MCSelfIds
    SelfColors <- AnyColor
    JamLevels <- MCLevels
INVARIANTS
    TypeOK
    InfoOnlyAfterFinalKey
    WaitOnlyAfterKey
    ReceivesOnlyWithProfile
    ReceivesCurrentTeam
PROPERTIES
    KeyOnlyForNamedLevel
    NoKeyAfterFinal
    RefinesHandshake
