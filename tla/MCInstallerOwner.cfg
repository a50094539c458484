CONSTANTS
    Scripts = 1
    GuardLooks = 3
    Settle = 1
    LiveLimit = 3
SPECIFICATION Spec
INVARIANT SudoFileIsRoots
