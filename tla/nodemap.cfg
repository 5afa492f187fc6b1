\* Two nodes that share a pool of two addresses, two attempts, two faults.
CONSTANTS
    Node = {n1, n2}
    Address = {a1, a2}
    RetryLimit = 2
    MaxFaults = 2
    None = None
SPECIFICATION FairSpec
INVARIANT ServingIsListed
PROPERTY ImplementsRegistry
PROPERTY EventuallyServing
