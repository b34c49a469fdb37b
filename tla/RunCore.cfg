SPECIFICATION Spec
CONSTANTS
    NumMilestones = 2
    Findings = {f1}
    MaxFullReviews = 1
    MaxCorrectionRounds = 1
    MaxClosureReviews = 1
    MaxSpawnAttempts = 1
    PolicyGoverned = FALSE
    MaxCommands = 3
    MaxEdits = 1
INVARIANTS
    GateMeansReviewed
    GateMeansVerified
    ReviewCoversPlan
    DurableBeforeEffect
PROPERTIES
    ImplementsPromise
\* The run stops: at an approval, aborted, or with the operator's commands spent.
CHECK_DEADLOCK FALSE
