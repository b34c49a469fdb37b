SPECIFICATION Spec
CONSTANTS
    Procs = {p, q, r}
    MaxInodes = 6
    MaxWrites = 3
SYMMETRY ProcSymmetry
INVARIANTS
    OneOwner
    NoBlindSuccess
\* The bounds stop it.
CHECK_DEADLOCK FALSE
