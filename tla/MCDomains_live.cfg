SPECIFICATION FairSpec
CONSTANTS
    p = p  a = a  l = l  r1 = r1  r2 = r2
    Names = {p, a}
    Mdns = {}
    First = p
    Reqs = {r1}
    Renewal = Renewal
    None = None
    MaxReq = 2
    MaxAttempts = 2
    MaxCrash = 1
    MaxAge = 1

PROPERTIES  AcquiringEnds PrimaryTakesEffect
CHECK_DEADLOCK FALSE
