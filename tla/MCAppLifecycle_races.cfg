SPECIFICATION Spec
CONSTANTS
    a1 = a1  a2 = a2  n1 = n1
    t1 = t1  t2 = t2
    r1 = r1  r2 = r2
    c1 = c1  c2 = c2  c3 = c3
    None = None
    Untold = Untold
    Apps = {a1, a2}
    Names = {n1}
    NameOf <- SameName
    Threads = {t1, t2}
    Reqs = {r1, r2}
    Cids = {c1, c2, c3}
    Events = {"add", "stop", "reload", "update", "remove", "promote", "lowdisk"}
    MaxReq = 3
    MaxCrash = 1
    StopMayFail = FALSE
SYMMETRY Slots
INVARIANTS TypeOK BusyHasOwner SettledAgrees
CHECK_DEADLOCK FALSE
