CONSTANTS
    MaxActions = 4
    MaxCaptures = 3
    Keys <- MCKeys
    KeyFiles <- MCKeyFiles
    Damages <- MCDamages
    NoPrint = NoPrint
    MaxFiles = 1
SPECIFICATION PrintSpec
INVARIANT PipelinesAreSafe
INVARIANT CancelHitsItsTarget
INVARIANT SecretsAreWiped
INVARIANT GoodPrintsAndNoOthers
PROPERTY ActionCompletes
