\* A plugin of either role, three faults or signals.
CONSTANTS
    Roles = {"node", "controller"}
    MaxFaults = 3
SPECIFICATION FairSpec
\* A plugin that serves and meets no further fault stays as it is.
CHECK_DEADLOCK FALSE
INVARIANTS
    ServingIsReachable
PROPERTIES
    SignalEnds
    ServesAgain
