\* One pod that mounts the volume read-only.
CONSTANTS
    Target = {t1}
    Staging = S
    ReadOnly = {t1}
    Call = {c1}
    Block = FALSE
    MaxLayers = 2
    NoReq = NoReq
SPECIFICATION Spec
INVARIANT ReadOnlyIsKept
