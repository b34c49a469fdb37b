--------------------------- MODULE DashboardRules ---------------------------
(***************************************************************************)
(* What the local dashboard (agentos_dashboard) concludes from the same    *)
(* governance documents with parsers and rules of its own: the consistency *)
(* page, the age of the handover, the moves its board shows, and the       *)
(* preconditions of a stage's prompt.  Operators on the documents of       *)
(* GovernanceRecord; the version facts, the commit references and the      *)
(* orchestration state hold nothing that is told apart here.               *)
(***************************************************************************)
EXTENDS GovernanceRecord

\* _check_task_mirrors: PROJECT_STATE is not one of its mirrors
MirrorsFollowQueue(docs) ==
  LET queue == docs["queue"]
  IN  /\ InState(docs["current"], "Current") = InState(queue, "Current")
      /\ \A m \in {"current", "remaining"} :
           \A t \in DOMAIN docs[m] \cap DOMAIN queue : docs[m][t] = queue[t]

\* _check_sole_current
SoleCurrent(docs) == Cardinality(InState(docs["queue"], "Current")) <= MaximumCurrentTasks

\* _check_project_state_vs_task_queue: what it lists as completed is Done
CompletedAreDone(docs) ==
  InState(docs["project"], "Done") \cap DOMAIN docs["queue"] \subseteq InState(docs["queue"], "Done")

\* _check_handover_checksum
ManifestMatches(docs) == docs["checksum"] = docs["handover"]

\* run_consistency_checks finds no error
DashboardAgrees(docs) ==
  MirrorsFollowQueue(docs) /\ SoleCurrent(docs) /\ CompletedAreDone(docs) /\ ManifestMatches(docs)

\* build_handover_view: the narrative is older than a document it summarizes
HandoverIsStale(mtimes) ==
  \E mirror \in {"project", "queue", "current", "remaining"} : mtimes["handover"] < mtimes[mirror]

\* compute_queue_transitions: the status the board offers a task next
BoardOffers(queue, task) ==
  CASE queue[task] = "Planned" /\ InState(queue, "Current") = {} -> {"Current"}
    [] queue[task] = "Current" -> {"Done"}
    [] OTHER -> {}

-----------------------------------------------------------------------------
(* The preconditions of a stage's prompt.                                  *)

CurrentLike == {"AUTHORIZED", "IN_PROGRESS", "SELF_REVIEW", "REVIEW", "APPROVAL", "BLOCKED"}
PromptEligible == CurrentLike \ {"BLOCKED"}

\* the row of the Authorization Log, which it asks for too, is in the registry with
\* the State cell that workflow-authorize.sh wrote
OwnerAuthorized(stage, docs) ==
  /\ stage \in InState(docs["queue"], "Current")
  /\ docs["registry"][stage] \in PromptEligible

\* _cross_check_schema has no finding
RegistryConsistent(docs) == \A stage \in DOMAIN docs["registry"] : docs["registry"][stage] \in RegistryStates

PrerequisiteComplete(stage, docs) == stage = 1 \/ docs["registry"][stage - 1] = "COMPLETE"

SoleActive(stage, docs) ==
  /\ \A d \in {"queue", "current", "remaining"} : InState(docs[d], "Current") = {stage}
  /\ {s \in DOMAIN docs["registry"] : docs["registry"][s] \in CurrentLike} = {stage}

\* _blocking_stage_ids
Unblocked(stage, docs) == \A q \in docs["questions"] : q.open => stage \notin q.blocks

\* evaluate_preconditions, PreconditionReport.all_passed
AllPassed(stage, docs, clean) ==
  /\ OwnerAuthorized(stage, docs)
  /\ RegistryConsistent(docs)
  /\ PrerequisiteComplete(stage, docs)
  /\ clean
  /\ SoleActive(stage, docs)
  /\ Unblocked(stage, docs)
=============================================================================
