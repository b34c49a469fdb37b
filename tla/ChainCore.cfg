SPECIFICATION Spec
CONSTANTS
    MaxSize = 2
    MaxEnvelopes = 6
    MaxHolds = 2
    MaxIncidents = 2
    MaxTries = 2
INVARIANTS
    Reliable
PROPERTIES
    ReadsCurrent
    MutationsWhole
\* The bounds stop it, and so does a chain that lost its end.
CHECK_DEADLOCK FALSE
