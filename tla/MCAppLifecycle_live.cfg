SPECIFICATION FairSpec
CONSTANTS
    a1 = a1  a2 = a2  n1 = n1
    t1 = t1  t2 = t2
    r1 = r1  r2 = r2
    c1 = c1  c2 = c2  c3 = c3
    None = None
    Untold = Untold
    Apps = {a1}
    Names = {n1}
    NameOf <- OneApp
    Threads = {t1, t2}
    Reqs = {r1}
    Cids = {c1, c2}
    Events = {"add", "stop", "reload", "update", "remove", "promote", "lowdisk"}
    MaxReq = 2
    MaxCrash = 1
    StopMayFail = TRUE
PROPERTIES NoAppStranded RemovalEnds
CHECK_DEADLOCK FALSE
