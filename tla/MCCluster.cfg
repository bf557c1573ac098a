\* Two members of one cluster that ask for different sizes.
SPECIFICATION FairSpec
CONSTANTS
    a = a
    b = b
    c = c
    d = d
    g = g
    pv = pv
    sec = sec
    Names = {a, b}
    Groups = {a, b, g}
    Keys = {a, b}
    Claims = {pv}
    Confs = {}
    ADConfs = {}
    SpecsOf <- ClusterGroup
    ClusterSupport = TRUE
    Lagging = {"SmbShare"}
    MaxLives <- Once
    MaxEdits = 0
    MaxSize = 2
    None = None
    NoConf = NoConf
    NoKey = NoKey
    NoGroup = NoGroup
    NoBackend = NoBackend
    NoShare = NoShare
    NoSection = NoSection
    NoCustom = NoCustom
INVARIANTS
    RecordedBackend
    NoOrphanExport
PROPERTIES
    NothingUndone
    EventuallyServed
