CONSTANTS
    Attempts = 2
    Requests = 4
    FifoRoom = 2
    FetchRoom = 2
    StrayRoom = 2
    MaxSpan = 2
SPECIFICATION CaptureSpec
INVARIANT LagIsGivenUp
PROPERTY ImagesInOrder
PROPERTY CaptureReturns
