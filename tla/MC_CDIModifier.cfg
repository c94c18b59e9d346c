CONSTANTS
    GPU = GPU
    VENDOR = VENDOR
    BARE = BARE
    EtcCDI = EtcCDI
    RunCDI = RunCDI
    CustomCDI = CustomCDI
    Kinds <- MCKinds
    DefaultKind = GPU
    NoKind = BARE
    Ids <- MCIds
    EnvNames <- MCEnvNames
    AnnotationNames <- MCAnnotationNames
    MaxEnv = 2
    Dirs <- MCDirs
    DefaultSpecDirs <- MCDefaultSpecDirs
    ConfiguredSpecDirs <- MCConfiguredSpecDirs
    FileDir <- MCFileDir

SPECIFICATION Spec

INVARIANTS
    TypeOK
    UnprivilegedEnvDevicesNotInjected
    ResolvedAsRequested
    AllOrNothingInjection
    RefreshErrorNotFatal
