SPECIFICATION Spec
CONSTANTS
    Users = {u1, u2}
    Tokens = {t1, t2, t3, t4}
    Handlers = {h1, h2}
    Lifetime = 1
    MaxTime = 2
    Failures = TRUE
SYMMETRY Symmetric
INVARIANTS
    TypeOK
    SingleSession
    SingleExchange
    LatestSession
    SessionsBounded
    ExchangesBounded
PROPERTIES
    DeliveredLive
    SessionsSpec
