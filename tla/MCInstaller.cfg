CONSTANTS
    Scripts = 2
    GuardLooks = 3
    Settle = 1
    LiveLimit = 3
SPECIFICATION Spec
INVARIANT FailureRestoresRuntime
INVARIANT PassKeepsLine
PROPERTY GuardRestores
