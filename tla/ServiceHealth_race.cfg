SPECIFICATION FairSpec
CONSTANTS
    Handlers = {h1, h2}
    Operations <- AllOperations
INVARIANTS
    TypeOK
    LatestAnswerCounts
PROPERTIES
    OutageNoticed
    Recovers
