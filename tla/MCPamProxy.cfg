CONSTANTS
    Threads <- MCThreads
    Locales <- MCLocales
    MaxCalls = 3
    MaxSets = 2
SPECIFICATION PamSpec
INVARIANT LocaleReturned
INVARIANT NoProxyOutlivesCall
INVARIANT OnlyThumbsAreNamed
