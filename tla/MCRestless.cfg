\* One share whose availability mode and group are edited and whose
\* security config comes and goes; no cluster support.
SPECIFICATION FairSpec
CONSTANTS
    a = a
    b = b
    c = c
    d = d
    g = g
    pv = pv
    sec = sec
    Names = {a}
    Groups = {a, g}
    Keys = {a}
    Claims = {pv}
    Confs = {sec}
    ADConfs = {sec}
    SpecsOf <- Restless
    ClusterSupport = FALSE
    Lagging = {}
    MaxLives <- Twice
    MaxEdits = 2
    MaxSize = 2
    None = None
    NoConf = NoConf
    NoKey = NoKey
    NoGroup = NoGroup
    NoBackend = NoBackend
    NoShare = NoShare
    NoSection = NoSection
    NoCustom = NoCustom
INVARIANTS
    RecordedBackend
PROPERTIES
    GroupAndBackendFixed
    DeletionCompletes
