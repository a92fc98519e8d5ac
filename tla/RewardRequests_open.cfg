SPECIFICATION Spec
CONSTANTS
    u1 = u1
    u2 = u2
    e1 = e1
    e2 = e2
    r1 = r1
    r2 = r2
    q1 = q1
    q2 = q2
    q3 = q3
    h1 = h1
    h2 = h2
    h3 = h3
    Users = {u1}
    Events = {e1}
    Rewards = {r1}
    RequestIds = {q1, q2, q3}
    Handlers = {h1, h2}
    MaxApprovals = 1
    MaxTime = 0
    EventOf <- OneEvent
    RewardEdits <- NoEdits
    RewardLists <- OneReward
    Evidence <- NoEvidence
    EventStates <- ActiveEvent
    OperatorStatuses = {"PENDING", "APPROVED", "REJECTED", "NONE"}
    Failures = TRUE
SYMMETRY Symmetric
INVARIANTS
    OpenRequestsBounded
    ApprovedIsIssued
PROPERTIES
    LedgerSpec
