\* Servers of every kind, clusters of up to three pods, two of which fail.
SPECIFICATION FairSpec
CONSTANTS
    Plans <- AllPlans
    MaxPods = 3
    MaxFaults = 2
CHECK_DEADLOCK FALSE
INVARIANTS
    PodsTypeOK
    PodsWellBuilt
    NoServerOusted
PROPERTIES
    EventuallyUp
