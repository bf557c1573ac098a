\* Custom options and the spec disagree.
SPECIFICATION FairSpec
CONSTANTS
    a = a
    b = b
    c = c
    d = d
    g = g
    pv = pv
    sec = sec
    Names = {a}
    Groups = {a, g}
    Keys = {a}
    Claims = {pv}
    Confs = {}
    ADConfs = {}
    SpecsOf <- CustomReadOnly
    ClusterSupport = FALSE
    Lagging = {}
    MaxLives <- Once
    MaxEdits = 0
    MaxSize = 2
    None = None
    NoConf = NoConf
    NoKey = NoKey
    NoGroup = NoGroup
    NoBackend = NoBackend
    NoShare = NoShare
    NoSection = NoSection
    NoCustom = NoCustom
PROPERTIES
    CustomShareConfigApplied
