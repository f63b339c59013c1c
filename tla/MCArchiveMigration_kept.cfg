SPECIFICATION Spec
CONSTANTS
    Apps = {p1}
    Objects = {o1, o2}
    Buckets = {b1, b2}
    VolNames = {openhost, zone}
    Local = Local
    None = None
    Default = openhost
    Zone = zone
    Starts = {"fresh", "legacy", "disabled"}
    MaxOps = 2
    MaxCrash = 1
    MaxFlap = 1
SYMMETRY Interchangeable
INVARIANTS TypeOK ArchiveKept FailOpen
PROPERTY ReclaimedLast
CHECK_DEADLOCK FALSE
