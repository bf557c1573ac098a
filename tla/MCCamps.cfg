\* Three shares ask for one group; one is incompatible with the others.
SPECIFICATION Spec
CONSTANTS
    a = a
    b = b
    c = c
    d = d
    g = g
    pv = pv
    sec = sec
    Names = {a, b, c}
    Groups = {a, b, c, g}
    Keys = {a, b, c}
    Claims = {pv}
    Confs = {sec}
    ADConfs = {sec}
    SpecsOf <- TwoCamps
    ClusterSupport = FALSE
    Lagging = {}
    MaxLives <- Once
    MaxEdits = 0
    MaxSize = 2
    None = None
    NoConf = NoConf
    NoKey = NoKey
    NoGroup = NoGroup
    NoBackend = NoBackend
    NoShare = NoShare
    NoSection = NoSection
    NoCustom = NoCustom
INVARIANTS
    GroupCompatible
PROPERTIES
    HandsOver
