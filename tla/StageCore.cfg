SPECIFICATION FairSpec
CONSTANTS
    Inputs = {l1, l2}
    Times = {t1}
    Runs = {r1, r2}
    Callers = {c1, c2}
    None = None
    MaxIncidents = 3
    MaxPower = 1
PROPERTIES
    ImplementsPromise
    StartCompletes
\* A run that works under the authorization is all there is to do.
CHECK_DEADLOCK FALSE
