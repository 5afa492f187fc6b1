\* Two nodes that share a pool of two addresses.
CONSTANTS
    Node = {n1, n2}
    Address = {a1, a2}
    RetryLimit = 2
    MaxFaults = 1
    None = None
SPECIFICATION Spec
INVARIANT ProbeReachesTarget
