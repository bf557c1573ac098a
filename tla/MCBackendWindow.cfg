\* The availability mode is edited before the backend is recorded.
SPECIFICATION Spec
CONSTANTS
    a = a
    b = b
    c = c
    d = d
    g = g
    pv = pv
    sec = sec
    Names = {a}
    Groups = {a, g}
    Keys = {a}
    Claims = {pv}
    Confs = {sec}
    ADConfs = {sec}
    SpecsOf <- Restless
    ClusterSupport = TRUE
    Lagging = {}
    MaxLives <- Once
    MaxEdits = 1
    MaxSize = 2
    None = None
    NoConf = NoConf
    NoKey = NoKey
    NoGroup = NoGroup
    NoBackend = NoBackend
    NoShare = NoShare
    NoSection = NoSection
    NoCustom = NoCustom
INVARIANTS
    ClusteredHasCtdb
