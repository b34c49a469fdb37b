CONSTANTS
    good = good
    stray = stray
    base = base
    alice = alice
    Contents <- MCContents
    Base <- base
    NamesOf <- MCNamesOf
    Allowed <- MCAllowed
    Valid <- MCValid
    AttemptLimit = 2
    RepairLimit = 1
    MaxCrashes = 1
    MaxMeddling = 0
    Deciders = {alice}
    Answers = {"APPROVE"}
    Overlays <- MCOverlays
    MaxDecisions = 1
    IndependentQa = {TRUE}
    DeleteBranches = TRUE
    MaxObservations = 2
SPECIFICATION Spec
INVARIANTS
    ConsumedOnce
CHECK_DEADLOCK FALSE
