\* Two names for three disks, two calls, two sizes, two faults; no symmetry (liveness).
CONSTANTS
    GB = 2
    MaxInt64 = 7
    vol = vol
    one = one
    many = many
    Disk = {vol, one, many}
    Vol = vol
    Answer <- MCAnswer
    Alike = {vol, many}
    Name = {1, 2}
    Format = "ext4"
    Ask <- MCAsk
    Sizes = {2, 4}
    OtherSize = 3
    Call = {c1, c2}
    RetryLimit = 2
    MaxFaults = 2
    None = None
SPECIFICATION FairSpec
INVARIANTS
    RightDevice
    ReportedIsThere
PROPERTIES
    GrowthArrives
