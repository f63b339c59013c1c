SPECIFICATION Spec
CONSTANTS
    c1 = c1  c2 = c2  u1 = u1  u2 = u2  r1 = r1  r2 = r2
    None = None
    Router = Router
    Apps = {c1, c2}
    Accounts = {u1, u2}
    Asks = {{"s"}}
    Reqs = {r1, r2}
    MaxOps = 3
    MaxDevs = 1
    MaxRows = 2
    MaxFaults = 1
INVARIANTS GrantsConsented AnswersConsented
SYMMETRY Interchangeable
CHECK_DEADLOCK FALSE
