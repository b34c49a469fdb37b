---------------------------- MODULE TaskSession ----------------------------
(***************************************************************************)
(* One task workflow of agentos_workflow as orchestrator/engine.py keeps   *)
(* it: the authorization record, the transitions and the attempt rows that *)
(* are durable, the repository the task works in, and the one session that *)
(* may hold the repository's lock.  A session that ends, for whatever      *)
(* reason, loses everything but what was appended; WorkflowSession.resume  *)
(* rebuilds the machine from the transitions and compares the record with  *)
(* the live repository.                                                    *)
(*                                                                         *)
(* A step is what happens between two durable effects.  A tree is known by *)
(* its content; what an observer of the tree sees are the names of the     *)
(* paths by which it differs from the checked-out commit.                  *)
(***************************************************************************)
EXTENDS TaskStates, FiniteSets

CONSTANTS
    Contents,       \* contents the working tree may take besides the baseline's
    Base,           \* the baseline's content
    NamesOf,        \* the paths by which a content differs from the baseline
    Allowed,        \* allowed_changed_paths, less the forbidden ones
    AttemptLimit,   \* INITIAL_EXECUTION_ATTEMPT_LIMIT
    RepairLimit,    \* repair_attempt_limit
    MaxCrashes,     \* bound: sessions that end without a word
    MaxMeddling     \* bound: changes others make to the repository

ASSUME ContentAssumption ==
    /\ Base \notin Contents
    /\ DOMAIN NamesOf = Contents \cup {Base}
    /\ NamesOf[Base] = {}
    /\ \A c \in Contents : NamesOf[c] # {}
ASSUME LimitAssumption == AttemptLimit \in Nat \ {0} /\ RepairLimit \in Nat \ {0}
ASSUME BoundAssumption == MaxCrashes \in Nat /\ MaxMeddling \in Nat

VARIABLES
    authorized,     \* authorization.json exists
    transitions,    \* transitions.jsonl
    attempts,       \* attempts.jsonl: the numbers started and completed
    git,            \* the repository: branches and the checked-out one
    tree,           \* the working tree's content
    mode,           \* the driver that holds the session, or "none"
    machine,        \* the session's WorkflowStateMachine
    pc,             \* where its driver is inside a step
    crashes, meddling

durable == <<authorized, transitions, attempts>>
repository == <<git, tree>>
session == <<mode, machine, pc>>
bounds == <<crashes, meddling>>

-----------------------------------------------------------------------------
Trees == Contents \cup {Base}
State == StateAfter(transitions)

HeadContent ==
    IF git.current = "baseline" \/ git.commits = <<>> THEN Base
    ELSE git.commits[Len(git.commits)]

\* inspect_working_tree: the changed paths, by name.
WorkingTreePaths ==
    IF tree = HeadContent THEN {} ELSE NamesOf[tree] \cup NamesOf[HeadContent]
Clean == WorkingTreePaths = {}

\* The rows of attempts.jsonl as every reader scopes them.
StartedNumbers(c) == attempts[c].started
CompletedNumbers(c) == attempts[c].completed
HasUnreconciledAttempt(c) == StartedNumbers(c) \ CompletedNumbers(c) # {}
CompletedCount(c) == Cardinality(CompletedNumbers(c))
Limit(c) == IF c = "REPAIRING" THEN RepairLimit ELSE AttemptLimit

\* _reconstruct_workflow_for_evaluation: the persisted history, replayed, is in
\* the state whose attempt is asked about, which is none that ends it.
InState(c) == State = c

\* Mutated form: the number of an attempt whose outcome is unknown is used again.
MayStart_Reuses(c, number) ==
    /\ InState(c)
    /\ number <= CompletedCount(c) + 1
    /\ number <= Limit(c) + 1

\* record_*_attempt_started: refused for a number already reserved, while an
\* attempt is unreconciled, past the next number, and past the limit.
MayStart(c, number) ==
    /\ InState(c)
    /\ number \notin StartedNumbers(c)
    /\ ~ HasUnreconciledAttempt(c)
    /\ number <= CompletedCount(c) + 1
    /\ number <= Limit(c)

\* One row more, under attempts.lock and synced.
AppendAttempt(c, kind, number) ==
    attempts' = [attempts EXCEPT ![c][kind] = @ \cup {number}]

RecordStarted(c, number) == AppendAttempt(c, "started", number)

\* record_*_attempt: only a number that was reserved, and once.
MayComplete(c, number) ==
    /\ InState(c)
    /\ number \in StartedNumbers(c)
    /\ number \notin CompletedNumbers(c)

RecordCompleted(c, number) == AppendAttempt(c, "completed", number)

\* _evaluate_bounded_attempt
RetryAllowed(c) == CompletedCount(c) < Limit(c)

-----------------------------------------------------------------------------
SessionEnds == mode' = "none" /\ machine' = "CREATED" /\ pc' = "closed"

\* _append_jsonl_line: a whole line, under the file's own lock, and synced with its
\* directory before anybody counts on it; the clock does not go back.
RecordTransition(from, to, actor) ==
    transitions' = Append(transitions, [from_state |-> from, to_state |-> to, actor |-> actor])

\* Mutated form: the record is appended and the machine stays where it was.
TransitionTo_MachineStays(to, actor) ==
    /\ validate_transition(machine, to)
    /\ validate_actor_for_transition(machine, to, actor)
    /\ RecordTransition(machine, to, actor)
    /\ pc' = "step" /\ UNCHANGED <<mode, machine>>

\* ResumedWorkflow.transition_to: validate against the machine in memory,
\* append, then move the machine; a terminal state releases the lock.
TransitionTo(to, actor) ==
    /\ validate_transition(machine, to)
    /\ validate_actor_for_transition(machine, to, actor)
    /\ RecordTransition(machine, to, actor)
    /\ IF to \in TERMINAL_STATES THEN SessionEnds
       ELSE machine' = to /\ pc' = "step" /\ UNCHANGED mode

At(state, where) == mode = "implementer" /\ machine = state /\ pc = where
Goto(where) == pc' = where /\ UNCHANGED <<mode, machine>>

\* authorization.json is linked into place unless an equal one is there.
PersistAuthorization == authorized' = TRUE

\* WorkflowSession.start.  The first half links the authorization record,
\* unless an equal one is there; the second appends the human transition.
StartSession ==
    /\ mode = "none"
    /\ transitions = <<>>              \* else WorkflowIdReuseError
    /\ PersistAuthorization
    /\ mode' = "implementer" /\ machine' = "CREATED" /\ pc' = "authorizing"
    /\ UNCHANGED <<transitions, attempts, repository, bounds>>

RecordAuthorization ==
    /\ At("CREATED", "authorizing")
    /\ transitions = <<>> /\ authorized
    /\ TransitionTo("AUTHORIZED", "human")
    /\ UNCHANGED <<authorized, attempts, repository, bounds>>

\* HUMAN_PERMITTED_EDGES: the operator's abort, through the session's own
\* transition_to.
Cancel ==
    /\ mode = "implementer" /\ pc = "step"
    /\ machine \in CANCELLABLE
    /\ TransitionTo("CANCELLED", "human")
    /\ UNCHANGED <<authorized, attempts, repository, bounds>>

-----------------------------------------------------------------------------
(* _validate_live_resume_observation.  It raises a drift, which fails the  *)
(* workflow for good, or asks for a reconciliation, which changes nothing. *)

BRANCH_BOUNDARY == {"AUTHORIZED", "PRECONDITIONS_CHECKED"}
AFTER_MERGE == {"MERGED", "CLOSING"}
CLEAN_STATES ==
    {"BRANCH_CREATED", "COMMITTED", "PUSHED", "PR_OPEN", "AUTO_MERGE_ENABLED",
     "WAITING_FOR_CHECKS"} \cup AFTER_MERGE
EDITING_STATES == {"IMPLEMENTING", "REPAIRING"}

\* _detect_authorization_binding_drift
BindingDrifted(state) ==
    git.contract # "bound" \/ (state \notin AFTER_MERGE /\ git.baseline # "bound")

\* _classify_worktree: a forbidden or an unexpected path
OutOfScope == ~ WorkingTreePaths \subseteq Allowed

Drifted(state) ==
    \/ BindingDrifted(state)
    \/ OutOfScope
    \/ state \in BRANCH_BOUNDARY /\ ~ Clean
    \/ state \in BRANCH_BOUNDARY /\ ~ git.planned /\ git.current # "baseline"
    \/ state \in BRANCH_BOUNDARY \cup {"BRANCH_CREATED"} /\ git.planned /\ git.commits # <<>>
    \/ state \notin BRANCH_BOUNDARY \cup AFTER_MERGE /\ (~ git.planned \/ git.current # "stage")
    \/ state \in CLEAN_STATES /\ ~ Clean
    \/ state \in EDITING_STATES /\ ~ Clean /\ StartedNumbers(state) = {}

ReconciliationRequired(state) ==
    \/ state \in BRANCH_BOUNDARY /\ git.planned
    \/ state = "BRANCH_CREATED" /\ StartedNumbers("IMPLEMENTING") # {}
    \/ state \in EDITING_STATES /\ ~ Clean
    \/ state = "READY_TO_COMMIT" /\ Clean
    \/ state \in {"COMMITTED", "PUSHED"}

\* _validate_persisted_authorization_evidence: a history that begins with the
\* authorization has its record.
AuthorizationHolds == authorized

Resumable ==
    /\ mode = "none"
    /\ transitions # <<>>
    /\ HistoryIsConsistent(transitions) /\ HistoryReplays(transitions)
    /\ State \notin TERMINAL_STATES      \* WorkflowAlreadyTerminalError
    /\ AuthorizationHolds                \* MissingAuthorizationRecordError

\* _persist_binding_drift_failure
PersistDrift ==
    /\ validate_transition(State, "FAILED")
    /\ RecordTransition(State, "FAILED", "orchestrator")

\* A drift is recorded, and is terminal.
ResumeDrifts ==
    /\ Resumable /\ Drifted(State)
    /\ PersistDrift
    /\ UNCHANGED <<authorized, attempts, repository, session, bounds>>

CanResume == Resumable /\ ~ Drifted(State) /\ ~ ReconciliationRequired(State)

ResumeImplementer ==
    /\ CanResume
    /\ mode' = "implementer" /\ machine' = State /\ pc' = "step"
    /\ UNCHANGED <<durable, repository, bounds>>

\* Mutated form: a task whose run ended while it waited is not taken up again.
ALLOWED_START_STATES_NotWaiting == {"PR_OPEN", "AUTO_MERGE_ENABLED"} \cup AFTER_MERGE

ALLOWED_START_STATES == {"PR_OPEN", "AUTO_MERGE_ENABLED", "WAITING_FOR_CHECKS"} \cup AFTER_MERGE

\* MergeCloseoutModeDriver.resume: a workflow the implementer brought to its
\* pull request, with a completed attempt of each of the three operations.
ResumeCloseout ==
    /\ CanResume
    /\ State \in ALLOWED_START_STATES
    /\ \A c \in {"READY_TO_COMMIT", "COMMITTED", "PUSHED"} : CompletedCount(c) > 0
    /\ mode' = "closeout" /\ machine' = State /\ pc' = "step"
    /\ UNCHANGED <<durable, repository, bounds>>

-----------------------------------------------------------------------------
\* The process dies; the kernel drops its lock.
Crash ==
    /\ mode # "none" /\ crashes < MaxCrashes
    /\ crashes' = crashes + 1
    /\ SessionEnds
    /\ UNCHANGED <<durable, repository, meddling>>

\* What others do to the repository of a task that has ended is no longer its
\* business.
MayMeddle == meddling < MaxMeddling /\ State \notin TERMINAL_STATES

\* Others change the tree: a person, or a provider whose runner has died.
EditTree ==
    /\ MayMeddle
    /\ meddling' = meddling + 1
    /\ tree' \in Trees \ {tree}
    /\ UNCHANGED <<durable, git, session, crashes>>

\* Others move the local baseline, or edit the stage contract, which no session
\* reads again once it runs.
MoveBinding ==
    /\ MayMeddle
    /\ meddling' = meddling + 1
    /\ \/ git.baseline = "bound" /\ git' = [git EXCEPT !.baseline = "moved"]
       \/ git.contract = "bound" /\ mode = "none" /\ git' = [git EXCEPT !.contract = "changed"]
    /\ UNCHANGED <<durable, tree, session, crashes>>

SessionInit ==
    /\ authorized = FALSE
    /\ transitions = <<>>
    /\ attempts = [c \in Counters |-> [started |-> {}, completed |-> {}]]
    /\ git = [planned |-> FALSE, commits |-> <<>>, current |-> "baseline",
              baseline |-> "bound", contract |-> "bound"]
    /\ tree = Base
    /\ mode = "none" /\ machine = "CREATED" /\ pc = "closed"
    /\ crashes = 0 /\ meddling = 0
=============================================================================
