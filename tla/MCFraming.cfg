CONSTANTS
    Base = 3
    Families <- MCFamilies
    MaxPayload = 3
    Block = 5
    Target = 1
    Bypass = 2
    ImageCommand = 2
    ImageData = 1
    StreamRoom = 10
    PlainRoom = 6
    MaxChunk = 3
    MaxFed = 10
SPECIFICATION Spec
INVARIANT FoundAreFrames
INVARIANT NoFrameMissed
