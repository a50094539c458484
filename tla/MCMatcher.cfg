CONSTANTS
    Enrollments <- MCEnrollments
    Probes <- MCProbes
    Configs <- MCConfigs
    Period = 8
    Cosine <- MCCosine
    Sine <- MCSine
    Unit = 10
    One = 100
    Bits = 3
    MaxRecords = 3
    MaxSeeds = 9
SPECIFICATION MatcherSpec
INVARIANT SeedsAreNearest
INVARIANT MovedFingerIsPerfect
INVARIANT MatchNeedsTwoSamples
