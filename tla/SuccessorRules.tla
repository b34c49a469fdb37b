--------------------------- MODULE SuccessorRules ---------------------------
(***************************************************************************)
(* What successor planning concludes from the governance record            *)
(* (successor_planning/sources.py, catalog.py, eligibility.py), as         *)
(* operators on the documents of GovernanceRecord and on one more:         *)
(*                                                                         *)
(*   catalog    the entries of the candidate catalog                       *)
(*                                                                         *)
(* An entry is [id, form, needs, asks, deferred]: its form is "good", or   *)
(* what is wrong with it; it needs other candidates, stages or             *)
(* capabilities ([on, type, done], done when it claims that the stage is   *)
(* complete) and asks open questions.  Candidates are numbered apart from  *)
(* the stages.  Titles, reasons, redactions and digests are left out.      *)
(***************************************************************************)
EXTENDS GovernanceRecord, Relation

\* the two that only mirror the queue; PROJECT_STATE is read for its facts
PureMirrors == {"current", "remaining"}

\* read_completion_reports: the stages that have one which can be read
ReportedStages(docs) == DOMAIN docs["reports"]

\* resolve_predecessor: complete in the registry, the queue and every mirror
\* that knows it, with a report
PredecessorConfirmed(docs, stage) ==
  /\ stage \in InState(docs["registry"], "COMPLETE")
  /\ stage \in InState(docs["queue"], "Done")
  /\ \A m \in PureMirrors : stage \in DOMAIN docs[m] => docs[m][stage] = "Done"
  /\ stage \in ReportedStages(docs)

RequiredChecks == <<"task-state", "governance", "registries", "handover">>

\* the failure code of the first finding of one required check
CheckFailure(check, docs) ==
  CASE check = "task-state" /\ MirrorsAgree(docs) /\ ~TaskStateHolds(docs) -> "CONFLICTING_CURRENT_TASK"
    [] check \in {"task-state", "governance"} /\ ~MirrorsAgree(docs) -> "MIRROR_CONTRADICTION"
    [] check = "registries" /\ ~RegistriesHold(docs) -> "MIRROR_CONTRADICTION"
    [] check = "handover" /\ ~HandoverHolds(docs) -> "MIRROR_CONTRADICTION"
    [] OTHER -> "none"

\* the failure code of the first of these checks that fails
FirstFailure(checks, docs) ==
  LET failing == {n \in DOMAIN checks : CheckFailure(checks[n], docs) # "none"}
  IN  IF failing = {} THEN "none"
      ELSE CheckFailure(checks[CHOOSE n \in failing : \A m \in failing : n <= m], docs)

\* reconcile_mirrors: unlike for the checks, a mirror may know no task that the
\* queue does not
MirrorsReconcile(docs) ==
  /\ CurrentTasks(docs) = InState(docs["current"], "Current")
  /\ \A m \in PureMirrors : \A t \in DOMAIN docs[m] : t \in InState(docs["queue"], docs[m][t])
  /\ RegistriesHold(docs)

-----------------------------------------------------------------------------
(* The catalog                                                             *)

\* parse_catalog_entry makes a candidate of an entry, or a finding
Parsed(catalog) == {entry \in catalog : entry.form = "good"}
EntryFindings(catalog) == {[code |-> e.form, candidate |-> e.id] : e \in catalog \ Parsed(catalog)}

\* detect_duplicate_conflicts: definitions of one id that differ, all dropped
Conflicting(catalog) ==
  {e \in Parsed(catalog) : \E other \in Parsed(catalog) : other.id = e.id /\ other # e}

Candidates(catalog) == Parsed(catalog) \ Conflicting(catalog)

CatalogFindings(catalog) ==
  EntryFindings(catalog)
    \cup {[code |-> "DUPLICATE_CANDIDATE_CONFLICT", candidate |-> e.id] : e \in Conflicting(catalog)}

-----------------------------------------------------------------------------
(* Dependencies                                                            *)

Ids(candidates) == {c.id : c \in candidates}

\* every stage that the queue or a registry knows
KnownStages(docs) == DOMAIN docs["queue"] \cup DOMAIN docs["registry"]

\* no capability and no subsystem is known to anybody
Unmet(candidate, candidates, docs) ==
  {n \in candidate.needs :
     /\ n.on \notin Ids(candidates)
     /\ ~(n.type = "stage" /\ n.on \in KnownStages(docs))}

\* _strongly_connected_components: more than one member, or one that needs itself
InCycle(candidates) ==
  LET ids == Ids(candidates)
      needs == [x, y \in ids |-> \E c \in candidates : c.id = x /\ \E n \in c.needs : n.on = y]
  IN  {id \in ids : TransitiveClosure(needs, ids)[id, id]}

\* claims of completion without a report
StaleClaims(candidate, docs) ==
  {n \in candidate.needs : n.type = "stage" /\ n.done /\ n.on \notin ReportedStages(docs)}

-----------------------------------------------------------------------------
(* Eligibility                                                             *)

\* read_open_questions: the entries of the register that are about one question
Entries(id, questions) == {q \in questions : q.id = id}

\* _live_blocker_status
LiveStatus(id, questions) ==
  IF Entries(id, questions) = {} THEN "unrecorded"
  ELSE LET q == CHOOSE q \in Entries(id, questions) : TRUE
       IN  CASE ~q.open -> "Resolved"
             [] q.open /\ q.blocks # {} -> "blocks authorization"
             [] OTHER -> "affects implementation"

\* evaluate_candidate: the first that applies
Verdict(candidate, candidates, docs) ==
  LET live == {LiveStatus(id, docs["questions"]) : id \in candidate.asks}
  IN  CASE StaleClaims(candidate, docs) # {} \/ "unrecorded" \in live -> "insufficient_evidence"
        [] candidate.id \in InCycle(candidates) -> "dependency cycle"
        [] Unmet(candidate, candidates, docs) # {} -> "unmet dependency"
        [] "blocks authorization" \in live -> "authorization question"
        [] candidate.deferred -> "deferred"
        [] OTHER -> "eligible"

\* result_variant_for
Variant(verdicts, findings) ==
  LET eligible == {id \in DOMAIN verdicts : verdicts[id] = "eligible"}
      definite == \/ \E id \in DOMAIN verdicts : verdicts[id] # "insufficient_evidence"
                  \/ findings # {}
  IN  CASE Cardinality(eligible) = 1 -> "RECOMMENDATION_READY"
        [] Cardinality(eligible) > 1 -> "MULTIPLE_ELIGIBLE_NO_RECOMMENDATION"
        [] eligible = {} /\ definite -> "NO_ELIGIBLE_CANDIDATE"
        [] OTHER -> "INSUFFICIENT_EVIDENCE"

\* evaluate_all
Report(candidates, findings, docs) ==
  LET verdicts == [id \in Ids(candidates) |->
        Verdict(CHOOSE c \in candidates : c.id = id, candidates, docs)]
  IN  [verdicts |-> verdicts, variant |-> Variant(verdicts, findings)]

\* recommended_candidate_id
Recommended(report) ==
  IF report.variant = "RECOMMENDATION_READY"
  THEN {id \in DOMAIN report.verdicts : report.verdicts[id] = "eligible"}
  ELSE {}

-----------------------------------------------------------------------------
(* What comes of it                                                        *)

Refusal(code) == [class |-> "FAILURE", code |-> code]

\* _evaluate, build_proposal
Proposal(catalog, docs) ==
  LET report == Report(Candidates(catalog), CatalogFindings(catalog), docs)
  IN  [class |-> "PROPOSAL_READY", report |-> report, recommended |-> Recommended(report)]

\* the conclusion from documents that nobody is writing
Conclusion(docs) ==
  LET failure == FirstFailure(RequiredChecks, docs)
  IN  CASE failure # "none" -> Refusal(failure)
        [] failure = "none" /\ ~MirrorsReconcile(docs) -> Refusal("MIRROR_CONTRADICTION")
        [] failure = "none" /\ MirrorsReconcile(docs) /\ CurrentTasks(docs) # {} ->
             Refusal("CONFLICTING_CURRENT_TASK")
        [] OTHER -> Proposal(docs["catalog"], docs)
=============================================================================
