\* A shared volume published on two nodes.
CONSTANTS
    Volume = {v1}
    Node = {n1, n2}
    Replica = {r1}
    Call = {c1, c2}
    Mutex = {m1}
    HashKey <- MCHashKey
    Sharing = {v1}
    NoCall = NoCall
    NoNode = NoNode
    NoReq = NoReq
SPECIFICATION Spec
\* The system stops when every volume has been deleted.
CHECK_DEADLOCK FALSE
INVARIANT SharedIsAttached
