SPECIFICATION FairSpec
CONSTANTS
    NumMilestones = 1
    Findings = {f1, f2}
    MaxFullReviews = 2
    MaxCorrectionRounds = 2
    MaxClosureReviews = 2
    MaxSpawnAttempts = 2
    PolicyGoverned = TRUE
    MaxCommands = 1
    MaxEdits = 2
INVARIANTS
    RoundsAreEarned
PROPERTIES
    AbandonedEffectsReconciled
    CommandEnds
\* The run stops: at an approval, aborted, or with the operator's commands spent.
CHECK_DEADLOCK FALSE
