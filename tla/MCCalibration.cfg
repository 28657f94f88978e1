CONSTANTS
    Teams = {"RED", "BLUE"}
    L2Quick <- TwoL2
    L2Full <- OneL2
    L3Quick <- OneL3
    L3Full <- OneL3
    L2Direct = "a"
    L3Direct = "d"
    TopK = 2
    SeedDwell = 2
    ValidateDwell = 1
    StaleTime = 1
    FailoverGap = 1
    GainMin = 1
    GainMax = 2
    InitialGain = 1
    L2Offsets = 2
    L3Offsets = 1
    JamTargets = {"L1"}
    MaxScore = 1
SPECIFICATION Spec
INVARIANTS TypeOK ResultsFollowQueue ResultsAreOwn ValidatesTheBest
PROPERTIES FailoverToBestTwo CalibrationEnds
