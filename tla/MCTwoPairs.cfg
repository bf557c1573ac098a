\* Four shares ask for one group, two of one security config and two of another.
SPECIFICATION Spec
CONSTANTS
    a = a
    b = b
    c = c
    d = d
    g = g
    pv = pv
    sec = sec
    Names = {a, b, c, d}
    Groups = {a, b, c, d, g}
    Keys = {a, b, c, d}
    Claims = {pv}
    Confs = {sec}
    ADConfs = {sec}
    SpecsOf <- TwoPairs
    ClusterSupport = FALSE
    Lagging = {}
    MaxLives <- Once
    MaxEdits = 0
    MaxSize = 2
    None = None
    NoConf = NoConf
    NoKey = NoKey
    NoGroup = NoGroup
    NoBackend = NoBackend
    NoShare = NoShare
    NoSection = NoSection
    NoCustom = NoCustom
INVARIANTS
    GroupCompatible
