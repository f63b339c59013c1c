SPECIFICATION Spec
CONSTANTS
    a1 = a1  a2 = a2  n1 = n1  n2 = n2  n3 = n3  r1 = r1  r2 = r2
    None = None
    Apps = {a1, a2}
    Names = {n1, n2, n3}
    Builtin = {a2}
    Root = n3
    Perms = {"p"}
    Commits = {0, 1, 2}
    Broken = {2}
    Base = 0
    Declares <- MCDeclares
    Maps <- MCMaps
    Ports = {1, 2}
    Tiers = 3
    Reqs = {r1, r2}
    MaxOps = 3
    MaxFaults = 1
INVARIANTS TreeInSync ReviewedOnly DataFollows
SYMMETRY Interchangeable
CHECK_DEADLOCK FALSE
