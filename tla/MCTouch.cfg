CONSTANTS
    Target = 2
    EnrollAttempts = 3
    VerifyAttempts = 2
    BaseAttempts = 2
    FingerPolls = 2
    LiftPolls = 3
    CaptureAttempts = 2
    MaxLate = 1
    MaxOps = 2
    MaxTouches = 3
SPECIFICATION Spec
INVARIANT SamplesAreSeparateTouches
INVARIANT ScansFollowBase
PROPERTY OperationEnds
