CONSTANTS
    Slots <- MCSlots
    NeedsAck <- MCNeedsAck
    NeedsResponse <- MCNeedsResponse
    Attempts <- MCAttempts
    MaxCalls = 2
    MaxStarts = 2
SPECIFICATION Spec
INVARIANT TrustedResponseIsOwn
INVARIANT DeadReceiverFailsFast
PROPERTY CallReturns
PROPERTY StopReturns
PROPERTY KeepsPromise
