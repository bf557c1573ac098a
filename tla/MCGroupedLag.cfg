\* Two members of one group, over a cache that lags in what they rewrite.
SPECIFICATION Spec
CONSTANTS
    a = a
    b = b
    c = c
    d = d
    g = g
    pv = pv
    sec = sec
    Names = {a, b}
    Groups = {a, b, g}
    Keys = {a, b}
    Claims = {pv}
    Confs = {}
    ADConfs = {}
    SpecsOf <- AllGrouped
    ClusterSupport = FALSE
    Lagging = {"SmbShare", "ConfigMap", "Deployment"}
    MaxLives <- Once
    MaxEdits = 0
    MaxSize = 2
    None = None
    NoConf = NoConf
    NoKey = NoKey
    NoGroup = NoGroup
    NoBackend = NoBackend
    NoShare = NoShare
    NoSection = NoSection
    NoCustom = NoCustom
INVARIANTS
    TypeOK
    OneController
    OwnersAreFinalized
    RecordedBackend
    ConfigIntegrity
PROPERTIES
    LiveExportKept
    NothingUndone
    RefinesLifecycle
