CONSTANTS
    good = good
    stray = stray
    base = base
    alice = alice
    Contents <- MCContents
    Base <- base
    NamesOf <- MCNamesOf
    Allowed <- MCAllowed
    Valid <- MCValid
    AttemptLimit = 2
    RepairLimit = 1
    MaxCrashes = 1
    MaxMeddling = 0
    Deciders = {alice}
    Answers = {"APPROVE", "REQUEST_CHANGES"}
    Overlays <- MCPausing
    MaxDecisions = 1
    IndependentQa = {TRUE, FALSE}
    DeleteBranches = TRUE
    MaxObservations = 2
SPECIFICATION FairSpec
INVARIANTS
    ArmedIsReviewed
PROPERTIES
    SessionsEnd
    PullRequestsSettle
CHECK_DEADLOCK FALSE
