SPECIFICATION FeatureSpec
CONSTANTS
    s1 = s1
    s2 = s2
    s3 = s3
    ann = ann
    bob = bob
    code = code
    Nobody = Nobody
    p1 = p1
    p2 = p2
    Stages = {s1, s2, s3}
    Delivery <- MCDelivery
    Prerequisites <- MCPrerequisites
    People = {ann, bob}
    Codes = {code}
    Sessions = {p1, p2}
    Requests <- MCRequests
    MaxHistory = 7
SYMMETRY SymmetricSessions
INVARIANTS
    FeatureInOrder
    ReviewedByAnother
\* Sessions may stop working on the feature at any time.
CHECK_DEADLOCK FALSE
