\* One share, created twice, while a user edits it, or scales or deletes what it owns,
\* over a cache in which every kind but the claim and the Service lags.
SPECIFICATION FairSpec
CONSTANTS
    a = a
    b = b
    c = c
    d = d
    g = g
    pv = pv
    sec = sec
    Names = {a}
    Groups = {a, g}
    Keys = {a}
    Claims = {pv}
    Confs = {}
    ADConfs = {}
    SpecsOf <- Alone
    ClusterSupport = FALSE
    Lagging = {"SmbShare", "ConfigMap", "Deployment"}
    MaxLives <- Twice
    MaxEdits = 1
    MaxSize = 2
    None = None
    NoConf = NoConf
    NoKey = NoKey
    NoGroup = NoGroup
    NoBackend = NoBackend
    NoShare = NoShare
    NoSection = NoSection
    NoCustom = NoCustom
PROPERTIES
    EventuallyServed
    DeletionCompletes
    EventuallyCleaned
