SPECIFICATION Spec
CONSTANTS
  AppIds = {1, 2}
  Names = {n1, n2}
  Sessions = {s1, s2}
  mail = mail
  defs = defs
  ServiceUrls <- MCServiceUrls
  Builtins <- MCBuiltins
  Manifests <- MCManifests
  Calls = {c1}
  TTL = 2
  KeyLives = {1}
  MaxClock = 2
  MaxOps = 3
  MaxCrash = 1
  None = None
  Router = Router
  Never = Never
SYMMETRY Symmetry
INVARIANTS SessionsLast TokenWorks RegisteredAsRun DeliveredAsResolved
PROPERTIES DefaultStays OwnPagesOnly
CHECK_DEADLOCK FALSE
