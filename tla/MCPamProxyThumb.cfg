CONSTANTS
    Threads <- MCThreads
    Locales <- MCLocales
    MaxCalls = 3
    MaxSets = 2
SPECIFICATION PamSpec
INVARIANT AnyFingerIsGeneric
