SPECIFICATION Spec
CONSTANTS
    MaxOperationAttempts = 3
    MaxSpawnAttempts = 2
    MaxReopenings = 1
    MaxCommands = 2
INVARIANTS OneProcessPerOperation RunIsEvidenced
PROPERTIES ImplementsPromise
CHECK_DEADLOCK FALSE
