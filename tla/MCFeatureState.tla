--------------------------- MODULE MCFeatureState ---------------------------
(* FeatureState for TLC: three stages, of which the second builds on the   *)
(* first and the third on none, two people, one code of blockers.          *)
EXTENDS FeatureState, TLC

CONSTANTS s1, s2, s3, ann, bob, code, p1, p2

MCDelivery == <<s1, s2, s3>>
MCPrerequisites == (s1 :> {}) @@ (s2 :> {s1}) @@ (s3 :> {})

Ask(s, to, role, actor) ==
    [stage |-> s, to |-> to, role |-> role, actor |-> actor, implementer |-> Nobody,
     reviewer |-> Nobody, review |-> "keep", verification |-> "keep", commit |-> "keep",
     base |-> FALSE, evidence |-> FALSE, reviewEvidence |-> FALSE, adds |-> {},
     resolves |-> {}, addsGlobal |-> {}, resolvesGlobal |-> {}]

MCRequests ==
    LET work(s) ==
            {[Ask(s, "IN_PROGRESS", "IMPLEMENTER", ann) EXCEPT !.base = TRUE],
             [Ask(s, "IN_PROGRESS", "IMPLEMENTER", ann) EXCEPT
                !.base = TRUE, !.addsGlobal = {code}],
             Ask(s, "IMPLEMENTED", "IMPLEMENTER", ann),
             [Ask(s, "IMPLEMENTED", "IMPLEMENTER", ann) EXCEPT !.resolvesGlobal = {code}],
             [Ask(s, "VERIFIED", "IMPLEMENTER", ann) EXCEPT
                !.verification = "PASSED", !.evidence = TRUE, !.review = "PENDING"],
             [Ask(s, "IN_PROGRESS", "REMEDIATOR", bob) EXCEPT !.commit = "clear"]}
        judge(s) ==
            {[Ask(s, "REVIEW_APPROVED", "REVIEWER", a) EXCEPT
                !.commit = "set", !.reviewEvidence = TRUE, !.implementer = i] :
                    a \in {ann, bob}, i \in {Nobody, bob}}
            \cup {[Ask(s, "REVIEW_REJECTED", "REVIEWER", bob) EXCEPT !.reviewEvidence = TRUE]}
        stop(s) ==
            {[Ask(s, "BLOCKED", "IMPLEMENTER", ann) EXCEPT !.adds = {code}],
             [Ask(s, "IN_PROGRESS", "IMPLEMENTER", bob) EXCEPT !.resolves = {code}],
             Ask(s, "SUPERSEDED", "HUMAN_OWNER", bob)}
    IN  UNION {work(s) \cup judge(s) \cup stop(s) : s \in {s1, s2, s3}}

SymmetricSessions == Permutations(Sessions)
=============================================================================
