SPECIFICATION Spec
CONSTANTS
    p1 = p1  p2 = p2  q1 = q1  q2 = q2  u1 = u1  u2 = u2  s1 = s1  k1 = k1  k2 = k2
    None = None
    Procs = {p1, p2}
    Posts = {q1, q2}
    Names = {u1, u2}
    Specs = {s1}
    Conns = {k1, k2}
    Disks <- SomeDisks
    MaxVersion = 2
    MaxStarts = 3
    MaxCrash = 1
    MaxFaults = 1
INVARIANTS SchemaAgrees ClaimWorks CredentialKept ArchiveRestored DoneIsInstalled
SYMMETRY Slots
CHECK_DEADLOCK FALSE
