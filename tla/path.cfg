\* One volume, two nodes of which one is watched, two controller calls at once, one pod, two node calls; symmetry (safety only).
CONSTANTS
    Volume = {v1}
    Node = {n1, n2}
    Replica = {r1}
    ACall = {c1, c2}
    Mutex = {m1}
    HashKey <- MCHashKey
    Sharing = {}
    NoCall = NoCall
    NoNode = NoNode
    NoAReq = NoAReq
    Target = {t1}
    Staging = staging
    ReadOnly = {}
    NCall = {d1, d2}
    Block = FALSE
    MaxLayers = 2
    NoNReq = NoNReq
    Vol = v1
    Here = n1
SPECIFICATION Spec
SYMMETRY MCSymmetry
INVARIANTS
    MountedIsDisk
    DeviceStays
PROPERTY NodeImplements
