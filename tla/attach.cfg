\* One volume that is not shared, two nodes on one mutex, two replicas, two calls at once; no symmetry (liveness).
CONSTANTS
    Volume = {v1}
    Node = {n1, n2}
    Replica = {r1, r2}
    Call = {c1, c2}
    Mutex = {m1}
    HashKey <- MCHashKey
    Sharing = {}
    NoCall = NoCall
    NoNode = NoNode
    NoReq = NoReq
SPECIFICATION FairSpec
\* The system stops when every volume has been deleted.
CHECK_DEADLOCK FALSE
INVARIANTS
    OneUpdatePerVM
    AttachedIsAttached
    DetachedIsDetached
    DeleteSparesAttached
    GoneIsGone
PROPERTIES
    ImplementsAttachments
    EveryCallReturns
