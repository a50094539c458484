CONSTANTS
    MaxCalls = 3
    MaxReplugs = 2
    Template <- MCTemplate
    Memories <- MCMemories
SPECIFICATION BringupSpec
INVARIANT ResourcesAreSafe
INVARIANT DriversReturned
INVARIANT ActiveIsReady
INVARIANT HandshakeNeverStalls
INVARIANT DamageIsHarmless
INVARIANT UploadCarriesSettings
