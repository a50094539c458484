CONSTANTS
    left = left
    middle = middle
    right = right
    small = small
    Features <- MCFeatures
    RecordCount <- MCRecordCount
    Similarity <- MCSimilarity
    Configs <- MCConfigs
    Qualities <- MCQualities
    Coverages <- MCCoverages
    One = 6
    MaxRecords = 4
    MaxSamples = 3
SPECIFICATION Spec
INVARIANT SamplesQualify
INVARIANT StatisticsFit
INVARIANT TemplateReadable
