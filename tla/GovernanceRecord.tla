-------------------------- MODULE GovernanceRecord --------------------------
(***************************************************************************)
(* The governance record of a repository, as the engine's parsers read it  *)
(* (governance/, handover/): the task queue, which is authoritative, the   *)
(* documents that mirror it, the stage registry with its own vocabulary of *)
(* states, the completion reports, and the handover whose digest the       *)
(* checksum manifest names.  The checks on it are operators on "docs", a   *)
(* function from documents to what the parsers extract from them:          *)
(*                                                                         *)
(*   queue, current, remaining, project   task -> status, for the tasks    *)
(*                                        the document mentions            *)
(*   registry                             stage -> the raw State cell      *)
(*   reports     stage -> the addenda of its completion report             *)
(*   handover    the updates appended to it                                *)
(*   checksum    the handover its digest is of                             *)
(*   questions   the entries of OPEN_QUESTIONS.md                          *)
(*                                                                         *)
(* Tasks and stages are numbered, as their identifiers are.  The decision  *)
(* log, the changelogs and the configured facts hold nothing that is told  *)
(* apart here.                                                             *)
(***************************************************************************)
EXTENDS Integers, Sequences, FiniteSets

\* the automatic limit of workflow.maximum_current_tasks
MaximumCurrentTasks == 1

TaskStatuses == {"Planned", "Current", "Done"}

RegistryStates ==
  {"NOT_STARTED", "PROPOSED", "AUTHORIZED", "IN_PROGRESS", "SELF_REVIEW", "REVIEW",
   "APPROVAL", "COMPLETE", "BLOCKED", "SUPERSEDED"}

\* REGISTRY_STATE_TO_TASK_STATUS
MapsTo(state) ==
  CASE state \in {"NOT_STARTED", "PROPOSED"} -> "Planned"
    [] state \in {"COMPLETE", "SUPERSEDED"} -> "Done"
    [] OTHER -> "Current"

\* the configured documents that repeat the queue
Mirrors == {"current", "remaining", "project"}

InState(record, status) == {t \in DOMAIN record : record[t] = status}

CurrentTasks(docs) == InState(docs["queue"], "Current")

\* _task_mirror_findings finds nothing: a task the queue does not know is let be
MirrorsAgree(docs) ==
  LET queue == docs["queue"]
  IN  /\ CurrentTasks(docs) = InState(docs["current"], "Current")
      /\ \A m \in Mirrors : \A t \in DOMAIN docs[m] \cap DOMAIN queue : docs[m][t] = queue[t]

\* check_task_state
TaskStateHolds(docs) ==
  MirrorsAgree(docs) /\ Cardinality(CurrentTasks(docs)) <= MaximumCurrentTasks

\* a registry row that check_registries has nothing to say of
RowAgrees(docs, stage) ==
  /\ docs["registry"][stage] \in RegistryStates
  /\ stage \in DOMAIN docs["queue"]
  /\ docs["queue"][stage] = MapsTo(docs["registry"][stage])

\* check_registries
RegistriesHold(docs) == \A stage \in DOMAIN docs["registry"] : RowAgrees(docs, stage)

\* check_handover
HandoverHolds(docs) == docs["checksum"] = docs["handover"]

RecordAgrees(docs) == TaskStateHolds(docs) /\ RegistriesHold(docs) /\ HandoverHolds(docs)
=============================================================================
