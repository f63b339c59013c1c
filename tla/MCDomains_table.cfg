SPECIFICATION Spec
CONSTANTS
    p = p  a = a  l = l  r1 = r1  r2 = r2
    Names = {p, a, l}
    Mdns = {l}
    First = p
    Reqs = {r1, r2}
    Renewal = Renewal
    None = None
    MaxReq = 3
    MaxAttempts = 1
    MaxCrash = 1
    MaxAge = 0
INVARIANTS FollowersAgree PromotedReady
PROPERTY TableRefines
SYMMETRY Slots
CHECK_DEADLOCK FALSE
