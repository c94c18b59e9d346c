CONSTANTS
    NoVersion = NoVersion
    BadVersion = BadVersion
    NoName = NoName
    NoEntry = NoEntry
    NoBinary = NoBinary
    RuntimeNames <- MCRuntimeNames
    Binaries <- MCBinaries
    RuntimeTypes <- MCRuntimeTypes
    Versions <- MCVersions
    Options <- MCOptions
    InitialDisks <- MCInitialDisks
    AdminEdits = {}
    Redeploys = FALSE

SPECIFICATION Spec

INVARIANTS
    TypeOK
    CleanupLeavesNoToolkitRuntime
    RoundTripFromEmpty
    DefaultRuntimeNameResolves

PROPERTIES
    RefinesAbstractToolkitConfig
