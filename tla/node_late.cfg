\* One pod, two calls at once, a kubelet that may give a call up.
CONSTANTS
    Target = {t1}
    Staging = S
    ReadOnly = {}
    Call = {c1, c2}
    Block = FALSE
    MaxLayers = 2
    NoReq = NoReq
SPECIFICATION LateSpec
INVARIANT DataKept
