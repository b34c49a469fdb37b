--------------------------- MODULE WorkflowEvents ---------------------------
(***************************************************************************)
(* The persisted workflow of one task (workflow/event_store.py,            *)
(* transitions.py): a directory of numbered event files, each naming the   *)
(* digest of the one before it.  "state record" reads the whole history,   *)
(* decides which event comes next and publishes it under its number with a *)
(* hard link that replaces nothing; two recorders can meet at one number.  *)
(*                                                                         *)
(* An event may cite an agent run.  The citation is checked before the     *)
(* history is read (_check_agent_run_evidence of cli.py).                  *)
(*                                                                         *)
(* An event carries its predecessor here as the code's event carries the   *)
(* digest of its predecessor's bytes: two events are the same file exactly *)
(* when all they say is the same.                                          *)
(***************************************************************************)
EXTENDS AgentRuns

CONSTANTS
  Stages,      \* the workflow's stages
  Notes,       \* what an operator may write into an event's note
  MaxHistory   \* bound: the events of the task

VARIABLE files   \* the numbered event files of the task's directory

None == "none"

ASSUME StagesAssumption == None \notin Stages

INITIAL_STAGE == "plan-review"

\* the transition table; after push a task is terminal
Transitions ==
  {[stage |-> "plan-review", outcome |-> "APPROVED", next |-> "implementation"],
   [stage |-> "plan-review", outcome |-> "REJECTED", next |-> "plan-review"],
   [stage |-> "implementation", outcome |-> "completed", next |-> "implementation-review"],
   [stage |-> "implementation-review", outcome |-> "APPROVED", next |-> "governance-closeout"],
   [stage |-> "implementation-review", outcome |-> "REJECTED", next |-> "remediation"],
   [stage |-> "remediation", outcome |-> "completed", next |-> "implementation-review"],
   [stage |-> "governance-closeout", outcome |-> "completed", next |-> "governance-review"],
   [stage |-> "governance-review", outcome |-> "APPROVED", next |-> "push"],
   [stage |-> "governance-review", outcome |-> "REJECTED", next |-> "governance-closeout"]}

\* _TRANSITIONS[(stage, outcome)], or None after push
NextStageAfter(event) ==
  IF event.stage = "push" THEN None
  ELSE (CHOOSE t \in Transitions : t.stage = event.stage /\ t.outcome = event.outcome).next

ExpectedStage(history) ==
  IF history = <<>> THEN INITIAL_STAGE ELSE NextStageAfter(history[Len(history)])

\* load_history: contiguous, each event naming the one before it, each stage
\* the one the table expects
HistoryIsWhole(history) ==
  \A n \in DOMAIN history :
    /\ history[n].sequence = n
    /\ history[n].parent = IF n = 1 THEN <<>> ELSE <<history[n - 1]>>
    /\ history[n].stage = ExpectedStage(SubSeq(history, 1, n - 1))

Outcomes == Verdicts \cup {"completed"}

\* check_outcome_kind
OutcomeFits(stage, outcome) == (stage \in VERDICT_STAGES) = (outcome \in Verdicts)

\* _check_agent_run_evidence
BacksEvent(run, stage, outcome) ==
  /\ RunLoads(run)
  /\ run.prompt.stage = stage
  /\ run.passed
  /\ outcome \in Verdicts => run.verdict = outcome

-----------------------------------------------------------------------------
\* state record: the cited run is examined, the history is loaded, and
\* check_outcome_kind and check_new_stage are passed; a refusal changes nothing
StartsRecord(p) ==
  \E stage \in Stages, outcome \in Outcomes, cited \in records \cup {Nothing}, note \in Notes :
    /\ Begin(p, [kind |-> "record", stage |-> stage, outcome |-> outcome,
                 run |-> cited, note |-> note, history |-> files], "recordHead")
    /\ cited # Nothing => BacksEvent(cited, stage, outcome)
    /\ HistoryIsWhole(files)
    /\ OutcomeFits(stage, outcome)
    /\ stage = ExpectedStage(files)
    /\ Len(files) < MaxHistory
    /\ UNCHANGED <<git, stores, files>>

\* the event that comes next after a history, at the HEAD of this moment
WorkflowEvent(ask, history) ==
  [sequence |-> Len(history) + 1,
   parent |-> IF history = <<>> THEN <<>> ELSE <<history[Len(history)]>>,
   stage |-> ask.stage, outcome |-> ask.outcome, run |-> ask.run,
   note |-> ask.note, head |-> head]

RecordReadsHead(p) ==
  /\ At(p, "record", "recordHead")
  /\ proc' = [proc EXCEPT ![p].pc = "append",
                          ![p].made = WorkflowEvent(proc[p].ask, proc[p].ask.history)]
  /\ UNCHANGED <<told, left, git, stores, files>>

\* Mutated form: os.replace instead of os.link.
AppendsEvent_Replacing(p) ==
  LET event == proc[p].made
  IN  /\ At(p, "record", "append")
      /\ files' = SubSeq(files, 1, event.sequence - 1) \o <<event>>
      /\ Goes(p, "derive")
      /\ UNCHANGED <<git, stores>>

\* append: os.link replaces nothing; a file that is already there is accepted
\* when its bytes are the same and is a SequenceConflict when they are not
AppendsEvent(p) ==
  LET event == proc[p].made
  IN  /\ At(p, "record", "append")
      /\ CASE event.sequence > Len(files) ->
                /\ files' = Append(files, event)
                /\ Goes(p, "derive")
           [] event.sequence <= Len(files) /\ files[event.sequence] = event ->
                UNCHANGED files /\ Goes(p, "derive")
           [] OTHER -> UNCHANGED files /\ Refuses(p)
      /\ UNCHANGED <<git, stores>>

\* derive_state, for the next stage the answer prints
RecordAnswers(p) ==
  /\ At(p, "record", "derive")
  /\ IF HistoryIsWhole(files)
     THEN Answers(p, [event |-> proc[p].made, next |-> ExpectedStage(files)])
     ELSE Refuses(p)
  /\ UNCHANGED <<git, stores, files>>
=============================================================================
