\* One claim, two calls at once, three volume ids (one per fault and one more), two faults; no symmetry (liveness).
CONSTANTS
    GB = 2
    MaxInt64 = 7
    Claim = {p1}
    ToLower <- MCToLower
    Ask <- MCAsk
    Vol = {i1, i2, i3}
    Label = {l1, l2}
    Call = {c1, c2}
    MaxFaults = 2
    None = None
SPECIFICATION FairSpec
\* The system stops when every claim has been deleted.
CHECK_DEADLOCK FALSE
INVARIANTS
    ProvisionedIsLabelled
    ProvisionedFits
    OneVolume
PROPERTIES
    ClaimsEnd
    RemovesOnlyReleased
    ReleasedIsRemoved
    CallsEnd
