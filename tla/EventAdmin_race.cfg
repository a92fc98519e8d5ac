SPECIFICATION Spec
CONSTANTS
    Events = {e1, e2}
    Rewards = {r1}
    Operators = {o1}
    Handlers = {h1, h2}
    Statuses = {ACTIVE, PAUSED}
    Bodies = {b1, b2}
    MaxEntries = 3
    MaxParticipants = 1
    Failures = TRUE
SYMMETRY Symmetric
INVARIANTS
    TypeOK
    VersionsLogged
    StatusAnnounced
    CountKept
