SPECIFICATION Spec
CONSTANTS
    Users = {u1, u2}
    Events = {e1}
    Handlers = {h1, h2}
    ParticipationIds = {p1, p2, p3}
    MaxRequests = 1
    MaxTime = 1
    Evidence <- AnyEvidence
    EventStates <- SwitchedEvents
    Failures = TRUE
SYMMETRY Symmetric
INVARIANTS
    TypeOK
    ParticipationsBounded
    ParticipantLedger
    ReportOrdered
