---------------------------- MODULE FeatureState ----------------------------
(***************************************************************************)
(* The durable state of a feature and the tool that moves it               *)
(* (scripts/orchestration_feature_state.py).                               *)
(*                                                                         *)
(* One file holds the stages of the feature, the order of their delivery,  *)
(* each stage's prerequisites, people, verdicts and blockers, and the      *)
(* stage that may be worked on next.  Every session, of an implementer, a  *)
(* reviewer, a remediator or the owner, changes it with one "transition":  *)
(* read the file, compare its digest if one was given, apply the           *)
(* transition to what was read, validate the result, replace the file.     *)
(* Nothing is held between the reading and the replacing, so a session     *)
(* may replace a file it never saw.                                        *)
(*                                                                         *)
(* Abstractions.  A commit, a base HEAD and a list of evidence are         *)
(* recorded or not; a digest is the content it is of; the history is its   *)
(* length (its entries are appended and, but for their number, never read  *)
(* back).  Blockers are added unresolved.  Prerequisites and order of      *)
(* delivery are constants: no transition writes them, so the rules about   *)
(* them are assumptions here.  Titles, hand-offs, risks, migrations and    *)
(* the repository's description are left out.                              *)
(***************************************************************************)
EXTENDS Naturals, Sequences, FiniteSets

CONSTANTS
    Stages,
    Delivery,           \* delivery_order: a sequence of stages
    Prerequisites,      \* Prerequisites[s]: the stages s builds on
    People,
    Nobody,             \* null, for an implementer or a reviewer
    Codes,              \* codes of blockers
    Sessions,           \* processes that run the tool
    Requests,           \* the transitions people ask for
    MaxHistory          \* bound on the length of the history

StageStatus ==
    {"NOT_STARTED", "IN_PROGRESS", "IMPLEMENTED", "VERIFIED", "REVIEW_REJECTED",
     "REVIEW_APPROVED", "BLOCKED", "SUPERSEDED"}
ReviewStatus == {"NOT_REQUESTED", "PENDING", "REJECTED", "APPROVED"}
VerificationStatus == {"NOT_RUN", "FAILED", "PASSED"}
RoleNames ==
    {"ARCHITECT", "IMPLEMENTER", "REVIEWER", "REMEDIATOR", "MIGRATOR",
     "RELEASE_MANAGER", "HUMAN_OWNER"}

\* Of all records with one code: none, one without a resolution, all resolved.
Blockers == [Codes -> {"absent", "open", "resolved"}]

StageRecords ==
    [status : StageStatus, implementer : People \cup {Nobody},
     reviewer : People \cup {Nobody}, review : ReviewStatus,
     verification : VerificationStatus, commit : BOOLEAN, base : BOOLEAN,
     evidence : BOOLEAN, reviewEvidence : BOOLEAN, blockers : Blockers]

FeatureFiles ==
    [stages : [Stages -> StageRecords], blockers : Blockers,
     next : Stages \cup {Nobody}, candidate : Stages \cup {Nobody},
     current : Stages \cup {Nobody}, history : 0..MaxHistory]

\* One call: "keep" and Nobody are options that are not given.
RequestRecords ==
    [stage : Stages, to : StageStatus, role : RoleNames, actor : People,
     implementer : People \cup {Nobody}, reviewer : People \cup {Nobody},
     review : ReviewStatus \cup {"keep"}, verification : VerificationStatus \cup {"keep"},
     commit : {"keep", "set", "clear"}, base : BOOLEAN, evidence : BOOLEAN,
     reviewEvidence : BOOLEAN, adds : SUBSET Codes, resolves : SUBSET Codes,
     addsGlobal : SUBSET Codes, resolvesGlobal : SUBSET Codes]

\* No stage depends on itself, however long the way.
AcyclicPrerequisites ==
    \A S \in (SUBSET Stages) \ {{}} : \E s \in S : Prerequisites[s] \cap S = {}

ASSUME StagesAssumption ==
    /\ IsFiniteSet(Stages)
    /\ Nobody \notin People \cup Stages
    /\ Prerequisites \in [Stages -> SUBSET Stages]
    /\ AcyclicPrerequisites
    /\ Requests \subseteq RequestRecords
    /\ MaxHistory \in Nat

\* delivery_order names every stage exactly once.
ASSUME DeliveryAssumption ==
    /\ Delivery \in Seq(Stages)
    /\ \A s \in Stages : \E i \in DOMAIN Delivery : Delivery[i] = s
    /\ \A i, j \in DOMAIN Delivery : Delivery[i] = Delivery[j] => i = j

VARIABLES
    file,               \* implementation-state.yaml
    session             \* session[p]: what the process p knows

featureVars == <<file, session>>

-----------------------------------------------------------------------------
(* The rules *)

\* LEGAL_TRANSITIONS: who may move a stage from where to where.
Legal(from, to, role) ==
    \/ from = "NOT_STARTED" /\ to = "IN_PROGRESS" /\ role = "IMPLEMENTER"
    \/ from = "IN_PROGRESS" /\ to = "IMPLEMENTED" /\ role = "IMPLEMENTER"
    \/ from = "IMPLEMENTED" /\ to = "VERIFIED" /\ role = "IMPLEMENTER"
    \/ from \in {"IN_PROGRESS", "IMPLEMENTED", "VERIFIED"} /\ to = "BLOCKED"
    \/ from = "VERIFIED" /\ to \in {"REVIEW_APPROVED", "REVIEW_REJECTED"} /\ role = "REVIEWER"
    \/ from = "REVIEW_REJECTED" /\ to = "IN_PROGRESS" /\ role = "REMEDIATOR"
    \/ from = "BLOCKED" /\ to = "IN_PROGRESS"
    \/ /\ from \in {"NOT_STARTED", "IN_PROGRESS", "BLOCKED", "REVIEW_REJECTED"}
       /\ to = "SUPERSEDED" /\ role \in {"HUMAN_OWNER", "ARCHITECT"}

ApprovedStage(f, s) == f.stages[s].status = "REVIEW_APPROVED"
PrerequisitesApproved(f, s) == \A p \in Prerequisites[s] : ApprovedStage(f, p)

\* Not approved yet, and everything it builds on is.
Eligible(f, s) == ~ApprovedStage(f, s) /\ PrerequisitesApproved(f, s)

\* A rule that looks for work nobody has begun.
FirstEligible_Untouched(f, s) ==
    \E i \in DOMAIN Delivery :
        /\ Delivery[i] = s
        /\ Eligible(f, s)
        /\ \A j \in 1..(i - 1) :
               Eligible(f, Delivery[j]) => f.stages[Delivery[j]].status # "NOT_STARTED"
        /\ f.stages[s].status = "NOT_STARTED"

\* The first eligible stage of the order of delivery.
FirstEligible(f, s) ==
    \E i \in DOMAIN Delivery :
        /\ Delivery[i] = s
        /\ Eligible(f, s)
        /\ \A j \in 1..(i - 1) : ~Eligible(f, Delivery[j])

OpenGlobalBlocker(f) == \E c \in Codes : f.blockers[c] = "open"

\* recompute_next_eligible: nothing is next under an open global blocker.
NextEligible(f) ==
    IF OpenGlobalBlocker(f) \/ ~\E s \in Stages : FirstEligible(f, s)
    THEN Nobody
    ELSE CHOOSE s \in Stages : FirstEligible(f, s)

EffectiveReviewer(q) == IF q.reviewer = Nobody THEN q.actor ELSE q.reviewer
Disposition(q) == q.to \in {"REVIEW_APPROVED", "REVIEW_REJECTED"}

\* What apply_transition asks of the file it read.
Accepts(f, q) ==
    LET s == f.stages[q.stage] IN
    /\ Legal(s.status, q.to, q.role)
    /\ (s.status = "NOT_STARTED" /\ q.to = "IN_PROGRESS") =>
            NextEligible(f) = q.stage /\ q.base
    /\ (s.status = "BLOCKED" /\ q.to = "IN_PROGRESS") =>
            /\ \A c \in Codes : s.blockers[c] = "open" => c \in q.resolves
            /\ PrerequisitesApproved(f, q.stage)
    /\ Disposition(q) => EffectiveReviewer(q) # s.implementer
    /\ q.to = "REVIEW_APPROVED" => q.commit = "set" \/ s.commit
    /\ q.to = "BLOCKED" => q.adds # {} \/ \E c \in Codes : s.blockers[c] # "absent"
    \* only the code of a blocker on record can be resolved
    /\ \A c \in q.resolves \ q.adds : s.blockers[c] # "absent"
    /\ \A c \in q.resolvesGlobal \ q.addsGlobal : f.blockers[c] # "absent"

\* Blockers are appended first and resolved afterwards, all of one code at once.
BlockersAfter(b, adds, resolves) ==
    [c \in Codes |-> IF c \in resolves THEN "resolved" ELSE IF c \in adds THEN "open" ELSE b[c]]

Given(option, kept) == IF option = "keep" THEN kept ELSE option

\* The stage after the transition q.
StageAfter(s, q) ==
    [status |-> q.to,
     implementer |->
         IF q.implementer # Nobody THEN q.implementer
         ELSE IF s.status \in {"NOT_STARTED", "REVIEW_REJECTED"} /\ q.to = "IN_PROGRESS"
              THEN q.actor ELSE s.implementer,
     reviewer |->
         IF Disposition(q) THEN EffectiveReviewer(q)
         ELSE IF q.reviewer # Nobody THEN q.reviewer ELSE s.reviewer,
     review |->
         Given(q.review, CASE q.to = "REVIEW_APPROVED" -> "APPROVED"
                           [] q.to = "REVIEW_REJECTED" -> "REJECTED"
                           [] OTHER -> s.review),
     verification |-> Given(q.verification, s.verification),
     commit |-> q.commit # "clear" /\ (s.commit \/ q.commit = "set"),
     base |-> s.base \/ q.base,
     evidence |-> s.evidence \/ q.evidence,
     reviewEvidence |-> s.reviewEvidence \/ q.reviewEvidence,
     blockers |-> BlockersAfter(s.blockers, q.adds, q.resolves)]

\* The file with the stage in it, one more entry of history, and nothing
\* recomputed yet.
Moved(f, q) ==
    [f EXCEPT !.stages = [f.stages EXCEPT ![q.stage] = StageAfter(f.stages[q.stage], q)],
              !.blockers = BlockersAfter(f.blockers, q.addsGlobal, q.resolvesGlobal),
              !.history = f.history + 1]

\* apply_transition: current_stage keeps its value while nothing is eligible.
After(f, q) ==
    LET m == Moved(f, q)
        next == NextEligible(m)
    IN  [m EXCEPT !.next = next, !.candidate = next,
                  !.current = IF next = Nobody THEN f.current ELSE next]

\* The people are checked before the stage is changed, not after.
ValidStage_PeopleBefore(s) ==
    /\ s.status \in {"VERIFIED", "REVIEW_APPROVED"} => s.verification = "PASSED" /\ s.evidence
    /\ s.status = "REVIEW_APPROVED" => s.commit /\ s.reviewEvidence /\ s.review = "APPROVED"
    /\ s.status # "NOT_STARTED" => s.base

\* The rules of validate_semantics about one stage.
ValidStage(s) ==
    /\ (s.status = "REVIEW_APPROVED" \/ s.review = "APPROVED") =>
            (s.reviewer = Nobody \/ s.reviewer # s.implementer)
    /\ s.status \in {"VERIFIED", "REVIEW_APPROVED"} => s.verification = "PASSED" /\ s.evidence
    /\ s.status = "REVIEW_APPROVED" => s.commit /\ s.reviewEvidence /\ s.review = "APPROVED"
    /\ s.status # "NOT_STARTED" => s.base

ValidFile(f) ==
    /\ \A s \in Stages : ValidStage(f.stages[s])
    /\ f.next = NextEligible(f)
    /\ f.candidate = f.next

-----------------------------------------------------------------------------
(* Sessions *)

IdleSession == [pc |-> "idle", seen |-> Nobody, new |-> Nobody]

Fresh ==
    [status |-> "NOT_STARTED", implementer |-> Nobody, reviewer |-> Nobody,
     review |-> "NOT_REQUESTED", verification |-> "NOT_RUN", commit |-> FALSE, base |-> FALSE,
     evidence |-> FALSE, reviewEvidence |-> FALSE, blockers |-> [c \in Codes |-> "absent"]]

\* The package as it was published: nothing begun.
Published ==
    LET f == [stages |-> [s \in Stages |-> Fresh], blockers |-> [c \in Codes |-> "absent"],
              next |-> Nobody, candidate |-> Nobody, current |-> Nobody, history |-> 0]
        next == NextEligible(f)
    IN  [f EXCEPT !.next = next, !.candidate = next, !.current = next]

FeatureInit ==
    /\ file = Published
    /\ session = [p \in Sessions |-> IdleSession]

\* status, validate and digest: each prints the digest of what it read.
Looks(p) ==
    /\ session[p].pc = "idle"
    /\ session' = [session EXCEPT ![p].seen = file]
    /\ UNCHANGED file

\* transition: all of it but the replacing.  A digest is optional; one that
\* does not match refuses the command, and a refusal, like a dry run, changes
\* nothing.
Applies(p, q, guarded) ==
    /\ session[p].pc = "idle"
    /\ file.history < MaxHistory
    /\ guarded => session[p].seen = file
    /\ Accepts(file, q)
    /\ ValidFile(After(file, q))
    /\ session' = [session EXCEPT ![p] = [pc |-> "holding", seen |-> file,
                                          new |-> After(file, q)]]
    /\ UNCHANGED file

\* os.replace, after the new content is durable in a file beside it.
Replaces(p) ==
    /\ session[p].pc = "holding"
    /\ file' = session[p].new
    /\ session' = [session EXCEPT ![p] = IdleSession]

\* Killed, or refused by the file system: the file is what it was.
Dies(p) ==
    /\ session[p].pc = "holding"
    /\ session' = [session EXCEPT ![p] = IdleSession]
    /\ UNCHANGED file

FeatureNext ==
    \E p \in Sessions :
        \/ Looks(p)
        \/ \E q \in Requests, guarded \in BOOLEAN : Applies(p, q, guarded)
        \/ Replaces(p)
        \/ Dies(p)

FeatureSpec == FeatureInit /\ [][FeatureNext]_featureVars

-----------------------------------------------------------------------------
(* Properties *)

Open(f, s) ==
    f.stages[s].status \in {"IN_PROGRESS", "IMPLEMENTED", "VERIFIED", "REVIEW_REJECTED", "BLOCKED"}

InOrder(f) ==
    /\ \A s, t \in Stages : Open(f, s) /\ Open(f, t) => s = t
    /\ \A s \in Stages : Open(f, s) \/ ApprovedStage(f, s) => PrerequisitesApproved(f, s)
    /\ \A s \in Stages : Open(f, s) => f.next \in {s, Nobody} /\ f.current = s

\* The feature is delivered one stage at a time: no two stages are open, a
\* stage is open or approved only over approved prerequisites, and while a
\* stage is open no other is offered as next.  Only the start of a stage asks
\* recompute_next_eligible, so this rests on what every other transition,
\* blocker and supersession leaves for it; and a session that replaces a file
\* it did not read may undo others' transitions, but not this.
FeatureInOrder == InOrder(file)

\* An approved stage was approved by somebody who is not its implementer on
\* record, over passed verification, evidence and a commit.  apply_transition
\* compares the reviewer with the implementer before the call's own
\* --implementer is written; only the validation of the result sees both.
ReviewedByAnother ==
    \A s \in Stages : ApprovedStage(file, s) =>
        LET r == file.stages[s] IN
        /\ r.reviewer \in People /\ r.reviewer # r.implementer
        /\ r.verification = "PASSED" /\ r.evidence /\ r.reviewEvidence /\ r.commit
=============================================================================
