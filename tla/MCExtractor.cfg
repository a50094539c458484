CONSTANTS
    k1 = k1
    k2 = k2
    k3 = k3
    Keypoints = {k1, k2, k3}
    Blank = Blank
    Capacity = 3
    Images <- MCImages
    Rows = 3
    Columns = 4
    QueueRoom = 2
    Places = 1
    Threshold = 1
    MaxLabels = 4
    HistoryLabels = 2
SPECIFICATION ExtractorSpec
SYMMETRY Symmetry
INVARIANT MemoryIsTheCallers
INVARIANT AuxStateIsOfSuccesses
INVARIANT ArraysAreSound
INVARIANT SelectionIsLargest
