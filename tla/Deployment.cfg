SPECIFICATION FairSpec
CONSTANTS
    m1 = m1
    m2 = m2
    m3 = m3
    NoOne = NoOne
    Migrators <- MCMigrators
    Directory <- MCDirectory
    MaxFailures = 2
    NotLoaded = NotLoaded
    Configs <- MCConfigs
    MaxFaults = 2
INVARIANTS
    SchemaSound
    CleanExit
    ConfigChecksAgree
PROPERTIES
    ExitsWhenStopped
    RecoversFromFailure
CHECK_DEADLOCK FALSE
