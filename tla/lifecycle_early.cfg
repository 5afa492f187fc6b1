\* A node plugin and one signal.
CONSTANTS
    Roles = {"node"}
    MaxFaults = 1
SPECIFICATION FairSpec
\* A plugin that serves and meets no further fault stays as it is.
CHECK_DEADLOCK FALSE
PROPERTY SignalTerminates
