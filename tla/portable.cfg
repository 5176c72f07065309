CONSTANTS
    ServiceNames <- MCServices
    Paths <- MCServices
    Root = NoName
    NoName = NoName
    Alphabet <- MCAlphabet
    Generic = "openapi"
    Noise <- MCNoise
    Top = Top
    None = None
    Manifest = ".mockzilla"
    Pages <- MCPages
    Docs = "docs"
    Relocated = ".ui"
    Deployments <- MCDeployments
    Directories <- MCDirectories
SPECIFICATION Spec
INVARIANTS
    TypeOK
    StorageAsConfigured
    SerialMounts
    PanicNeedsConflict
    PackedMirrorsRaw
    RootServed
    
CHECK_DEADLOCK FALSE
