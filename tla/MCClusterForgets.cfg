\* A cluster of domain members whose pods are all lost.
SPECIFICATION FairSpec
CONSTANTS
    Plans <- ClusteredMember
    MaxPods = 2
    MaxFaults = 2
CHECK_DEADLOCK FALSE
INVARIANTS
    NoneServesUnjoined
