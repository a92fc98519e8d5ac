SPECIFICATION Spec
CONSTANTS
    Users = {u1, u2}
    Events = {e1}
    Handlers = {h1}
    ParticipationIds = {p1, p2}
    MaxRequests = 2
    MaxTime = 0
    Evidence <- NoEvidence
    EventStates <- OpenEvent
    Failures = FALSE
SYMMETRY Symmetric
INVARIANTS
    SuccessRateIsShare
