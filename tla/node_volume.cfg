\* Two pods, two calls at once; no symmetry (liveness).
CONSTANTS
    Target = {t1, t2}
    Staging = S
    ReadOnly = {}
    Call = {c1, c2}
    Block = FALSE
    MaxLayers = 2
    NoReq = NoReq
SPECIFICATION FairSpec
INVARIANTS
    PublishedIsVolume
    UnmountedIsClean
    DataKept
PROPERTIES
    ImplementsMounts
    DrainEnds
