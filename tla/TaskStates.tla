----------------------------- MODULE TaskStates -----------------------------
(***************************************************************************)
(* The closed tables of agentos_workflow/orchestrator/engine.py: the       *)
(* states of a task workflow, the edges between them, who may record which *)
(* edge, what makes a persisted history acceptable on resume, and which    *)
(* states count the attempts of an operation.                              *)
(***************************************************************************)
EXTENDS Naturals, Sequences

TERMINAL_STATES == {"DONE", "FAILED", "CANCELLED"}

\* The road of a task that nothing interrupts.
Progress ==
    <<"CREATED", "AUTHORIZED", "PRECONDITIONS_CHECKED", "BRANCH_CREATED",
      "IMPLEMENTING", "VALIDATING", "QA_RUNNING", "READY_TO_COMMIT", "COMMITTED",
      "PUSHED", "PR_OPEN", "AUTO_MERGE_ENABLED", "WAITING_FOR_CHECKS", "MERGED",
      "CLOSING", "DONE">>

WorkflowState == {Progress[i] : i \in 1 .. Len(Progress)}
                     \cup {"REPAIRING"} \cup TERMINAL_STATES

CANCELLABLE == {"CREATED", "AUTHORIZED", "PRECONDITIONS_CHECKED", "BRANCH_CREATED"}

\* The 37 edges: progress, every failure, the repair cycle, the operator abort.
ALLOWED_TRANSITIONS ==
    {<<Progress[i], Progress[i + 1]>> : i \in 1 .. Len(Progress) - 1}
        \cup {<<s, "FAILED">> : s \in WorkflowState \ (TERMINAL_STATES \cup {"CREATED"})}
        \cup {<<"VALIDATING", "REPAIRING">>, <<"QA_RUNNING", "REPAIRING">>,
              <<"REPAIRING", "VALIDATING">>}
        \cup {<<s, "CANCELLED">> : s \in CANCELLABLE}

HUMAN_PERMITTED_EDGES ==
    {<<"CREATED", "AUTHORIZED">>} \cup {<<s, "CANCELLED">> : s \in CANCELLABLE}

Actors == {"human", "orchestrator"}

Transition == [from_state : WorkflowState, to_state : WorkflowState, actor : Actors]

validate_transition(from, to) == <<from, to>> \in ALLOWED_TRANSITIONS

validate_actor_for_transition(from, to, actor) ==
    actor = "human" => <<from, to>> \in HUMAN_PERMITTED_EDGES

\* Where a replayed history leaves the machine.
StateAfter(records) ==
    IF records = <<>> THEN "CREATED" ELSE records[Len(records)].to_state

\* _validate_history_consistency: one unbroken chain from CREATED that reaches
\* a terminal state at most once, and last.
HistoryIsConsistent(records) ==
    /\ records # <<>> => records[1].from_state = "CREATED"
    /\ \A i \in 1 .. Len(records) - 1 :
          /\ records[i + 1].from_state = records[i].to_state
          /\ records[i].to_state \notin TERMINAL_STATES

\* _replay_history: every record is an edge its actor may record.
HistoryReplays(records) ==
    \A i \in 1 .. Len(records) :
        /\ validate_transition(records[i].from_state, records[i].to_state)
        /\ validate_actor_for_transition(records[i].from_state, records[i].to_state,
                                         records[i].actor)

\* Some record takes the edge: what the merge eligibility looks for.
Took(records, from, to) ==
    \E i \in 1 .. Len(records) : records[i].from_state = from /\ records[i].to_state = to

INITIAL_EXECUTION_RETRYABLE_STATES == {"IMPLEMENTING", "READY_TO_COMMIT", "COMMITTED", "PUSHED"}

\* The counters of attempts.jsonl: one for each initial execution, one pooled
\* for the repairs of both gates.
Counters == INITIAL_EXECUTION_RETRYABLE_STATES \cup {"REPAIRING"}

\* The forward edge of each operation that has a counter.
ForwardState ==
    [c \in Counters |->
        CASE c = "IMPLEMENTING"    -> "VALIDATING"
          [] c = "READY_TO_COMMIT" -> "COMMITTED"
          [] c = "COMMITTED"       -> "PUSHED"
          [] c = "PUSHED"          -> "PR_OPEN"
          [] c = "REPAIRING"       -> "VALIDATING"]
=============================================================================
