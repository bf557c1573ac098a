\* Two shares in one namespace of an OpenShift cluster; one Get may fail.
SPECIFICATION FairSpec
CONSTANTS
    a = a
    b = b
    Names = {a, b}
    Actual = "openshift"
    Configured = "unset"
    RoleCount = 2
    MaxLives = 2
    MaxFailures = 1
    None = None
INVARIANTS
    OpenShiftTypeOK
PROPERTIES
    CreatorsAreFinalized
    EventuallyReady
    LeavingTogether
