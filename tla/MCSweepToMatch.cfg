SPECIFICATION Spec
CONSTANTS
    KHz = 10
    HardwareGainMax = 73
    GainMin = 5
    GainMax = 73
    Dwell = 5
    Absent = Absent
    RadarParams <- MCRadarParams
    ManualGains <- MCManualGains
    RescueRadios <- MCRescueRadios
    FallbackProfiles <- MCFallbackProfiles
    Plans <- MCPlans
    UnknownFilters = {"none"}
    ProbeMetrics <- MCProbeMetrics
    Yields <- MCYields
INVARIANTS
    RowsCountOwnFrames
    RankRespectsDominance
    
    BestProfileReachesMatch
CHECK_DEADLOCK FALSE
