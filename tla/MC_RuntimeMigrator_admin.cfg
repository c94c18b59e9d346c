CONSTANTS
    NoVersion = NoVersion
    BadVersion = BadVersion
    NoName = NoName
    NoEntry = NoEntry
    NoBinary = NoBinary
    RuntimeNames <- MCRuntimeNames
    Binaries <- MCBinaries
    RuntimeTypes <- MCRuntimeTypes
    Versions <- MCVersions
    Options <- MCOptions
    InitialDisks <- MCInitialDisks
    AdminEdits = {"replace", "retag"}
    Redeploys = FALSE

SPECIFICATION Spec

PROPERTIES
    UnreadableConfigPreserved
