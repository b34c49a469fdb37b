SPECIFICATION Spec
CONSTANTS
    Paths = {a, b}
    Allowlist = {a}
    Ttl = 1
    MaxVersion = 1
    MaxForeign = 1
    MaxClock = 1
    MaxRows = 2
INVARIANTS
    AtMostOnce
    SettledMeansLanded
PROPERTIES
    UnreconciledIsFinal
    ImplementsSingleUse
\* The run stops: done, aborted, or with the approvals the bound allows.
CHECK_DEADLOCK FALSE
