# Verification of ai-workflow-engine

TLA+ models of the engine that drives coding-agent runs, the TLC runs that check
them, and TLAPS proofs about them.  `PROJECT.json` maps every definition to the
source lines it stands for.  Paths below are relative to the repository.

## 1. The system

The repository holds three Python packages and a few operator scripts.

| Part | State it keeps | Operations | What is hard | What makes it correct |
|---|---|---|---|---|
| **Milestone run** `src/ai_workflow_engine/milestone_runner/{application,review,recovery,models}.py` | the run record: workflow state, current and completed milestones, checkpoints, provider rows, five counters, findings, ledgers | `start`, `resume`, `abort`, `reconcile-milestone`, `reopen-milestone`, `recover-failed-review`, `revalidate-correction`, `approve-commit`, `approve-push` | the runner may die between any two publications; the next command sees the record only; recovery commands re-enter the flow in the middle | nothing reaches an approval unfinished, unreviewed, unverified or blocked; evidence is never lost; no side effect is repeated on top of itself |
| **Provider invocation** `milestone_runner/providers/`, `state.py` | transcripts, `provider-intent.json`, the row of the attempt | intent, pending row, spawn, settled row, bounded retry, reconciliation | a process with effects outside the record; it may outlive the runner | the record shows the process before it can have an effect; repetition only on proof |
| **Event chain** `milestone_runner/{events,state}.py` | append-only lifecycle events, the folded projection, the record | declare a mutation, publish its constituents, project, finish or refuse a torn one | a crash between any two files | the record is always the fold of the chain |
| **Operation journal** `operations.py` | request, intent, receipt, result, verdict per operation | one append each | the same, per provider operation | a result is accepted once, and only over durable evidence |
| **Run lock** `lock.py` | a locked file and the metadata of its holder | acquire, verify, release, take over | two processes; a file replaced under its descriptor | one holder |
| **Stage start and policy** `policy.py`, `state.py` | a single-use authorisation, the genesis record | authorise, consume, start | a crash between consuming and starting | at most one run per authorisation |
| **Commit and push approval** `approval_git.py`, `application.py` | approval rows | bind, validate, attempt, apply | a crash between the row and the git effect | an approval authorises one effect on one tree |
| **Task workflow** `agentos_workflow/{orchestrator/engine,orchestrator/state_store,implementer,merge_closeout,approvals}.py` | `authorization.json`, `transitions.jsonl`, `attempts.jsonl`, `approvals.jsonl`, write-once reports; the stage branch, the remote and the pull request | `start`, `resume`, one handler per state, request, decide, evaluate and consume an approval, commit, push, open, arm, observe, close out | two durable appends per step with effects between them; commands that work and report failure; a person who decides from another process; a deadline | a commit under one spent approval of what was shown; no number used twice; effects in order; `DONE` means merged |
| **Ordinary commands** `src/ai_workflow_engine/{prompt,agents,workflow,commit,git}/`, `cli.py` | prompts and agent runs, each a pair of files; the numbered events of a task; the repository itself | `prompt`, `agent run`, `state record`, `commit`, `push`, `apply-patch` | nothing locks them; Git is read by one process after the other while people edit, stage, commit, fetch and push; two publishers meet at a name; an approval is a file nobody consumes | evidence is of a clean HEAD; an event rests on a run that stands; a `PASS` says what was true; one history, extended at its end; what is applied is what was verified |
| **Feature state** `scripts/orchestration_feature_state.py` | one JSON file: the stages of a feature with their people, verdicts and blockers | `transition`, and the reading of `validate`, `status`, `digest` | the file is read, judged and replaced with nothing held in between | one stage at a time, over approved ones; nobody approves their own |
| **Successor planning** `successor_planning/` | a store of proposals, one file per payload | `propose-successor` | the record is read three times, document after document, while gates and people write it; two publishers of one payload | what a proposal says was so at one moment, and is what the rules conclude from that moment |
| **Owner gates** `scripts/workflow-{authorize,approve,next}.sh` | the governance documents, which mirror one another | authorize, approve, next | seven or eight rewrites, one after another, a typed word before and a commit after; copies that are put back | the documents agree in every commit of a gate, and one task has moved |
| **Dashboard** `agentos_dashboard/` | sqlite rows with their audit events, a JSONL mirror of the events, prompts in memory | post a run, an approval, a finding, a note; generate a prompt; pages | a write torn in the mirror, a server that dies in a transaction, repeated requests, preconditions read piece by piece | rows, events and mirror tell one story; a prompt is of a stage that earned it |
| **Documents** `governance/`, `handover/`, `schema/`, `migration/`, `reporting/` | none | parse, validate, print | none | functions of their input; the agreement of the record is what gates, proposals and prompts rest on |

The command line constructs `MilestoneRunnerApplication`; a command takes the run
lock, re-reads the record, checks section 4's entry conditions
(`run_preflight`), and then drives the flow.  `RunSession` couples store, lock,
inspector, providers and lifecycle.  The provider is a child process; it talks
to the runner only through its output and the worktree.

## 2. Modules

| Module | Models | Status |
|---|---|---|
| `MilestoneRun` | the run up to its approvals: its commands and its provider processes | done |
| `RunPromise` | what a run promises whoever approves it; `MilestoneRun` implements it | done |
| `MilestoneRunProofs` | the theorems about `MilestoneRun`: its flow (types, the plan, the gate) and its record (processes, budgets, the verified tree, what is repeated) | done |
| `MCMilestoneRun` | `MilestoneRun` for TLC | done |
| `ApprovalGate` | `approve-commit` and `approve-push`, over a repository others use too | done |
| `SingleUse` | what a single-use approval promises; `ApprovalGate` implements it | done |
| `ApprovalGateProofs` | the theorems about `ApprovalGate` | done |
| `MCApprovalGate` | `ApprovalGate` for TLC | done |
| `RunLock` | the run lock, and one publication under it, step by step | done |
| `RunLockProofs` | the theorems about `RunLock`, and in its second half about `FeatureState` | done |
| `MCRunLock` | `RunLock` for TLC, with the symmetry of processes | done |
| `EventChain` | the event chain of a run: appends, opening, loading, durability | done, but for the operations in it |
| `MutationPromise` | what the chain promises; `EventChain` implements it | done |
| `EventChainProofs` | the theorems about `EventChain` | done |
| `OperationJournal` | the provider operations of an event-backed run: artifacts, events, declared mutations | done |
| `OperationPromise` | what an operation promises; `OperationJournal` implements it | done |
| `OperationJournalProofs` | the theorems about `OperationJournal` | done |
| `StageStart` | the single-use authorization of a Stage and the beginning of its run, file by file | done |
| `StagePromise` | what an authorization promises; `StageStart` implements it | done |
| `StageStartProofs` | the theorems about `StageStart` | done |
| `MCStageStart` | `StageStart` for TLC | done |
| `TaskStates` | the closed tables of the task engine | done |
| `TaskSession` | a task's record, attempts and repository, and the session that may hold it | done |
| `TaskApprovals` | the approval of a task: its events, its policy, its deadline | done |
| `TaskDriver` | the implementer from the authorization to the approval gate | done |
| `TaskDelivery` | commit, push, pull request, merge and close-out; the specification of the task | done |
| `TaskPromise` | what a task promises; `TaskDelivery` implements it | done |
| `TaskDeliveryProofs` | the theorems about `TaskDelivery` | done |
| `MCTask` | `TaskDelivery` for TLC | done |
| `GitWorkspace` | a repository, its upstream, its index and the people who use it | done |
| `EngineCommands` | an invocation of the ordinary command line | done |
| `AgentRuns` | `prompt` and `agent run`, and the stores of both | done |
| `WorkflowEvents` | `state record`, and the events of a task | done |
| `CommitGates` | `commit`, `push`, `apply-patch` | done |
| `GovernanceRecord` | the governance documents and the checks on them | done |
| `OwnerGates` | `workflow-authorize.sh` and `workflow-approve.sh` | done |
| `SuccessorRules` | what successor planning concludes from the documents | done |
| `Proposals` | `propose-successor`, step by step, and its store | done |
| `DashboardRules` | what the dashboard concludes from the same documents | done |
| `Dashboard` | the requests to the dashboard's server: its store, its mirror, its prompts | done |
| `Workspace` | the composition of all of these; the specification | done |
| `HistoryPromise` | what the events of a task promise; `Workspace` implements it | done |
| `WorkspaceProofs` | the theorems about `Workspace` | done |
| `MCWorkspace` | `Workspace` for TLC | done |
| `FeatureState` | the state file of a feature and the sessions that move it | done |
| `MCFeatureState` | `FeatureState` for TLC | done |

The Task modules, `Workspace` and `FeatureState` each model a workflow of its own, which shares
nothing with the others but the repository it works in.  `Workspace` puts every ordinary command, both gates,
the proposals and the dashboard over one repository: `GitWorkspace` is its state, `EngineCommands` an
invocation, and the documents are paths like any other.  The state machines of the milestone run meet at five places.  `StageStart` ends where a
policy-governed run is open and works, which is where `MilestoneRun` begins.  `MilestoneRun` ends at
`READY_FOR_COMMIT_APPROVAL`, where `ApprovalGate` begins: only the approvals and
`abort` leave that state and those after it (`resume` returns at once).  Both take one step for a
publication and one command at a time; `RunLock` shows what the lock gives
towards that, and where it does not (section 5).  `EventChain` is how a policy-governed
run makes one publication of `MilestoneRun` durable: one `Commit` of `EventChain` is one
`_publish`, and what a crash leaves of it is either nothing, the whole, or a chain no
command goes on with.  `OperationJournal` is what `MilestoneRun`'s one step of an invocation
is in such a run: it has the flow of `MilestoneRun` cut down to the steps that invoke a provider, and
a publication of `EventChain` as one event, or as a declaration and one event per constituent.

### MilestoneRun

*State.* `workflow_state`, `work`, `provider_runs`, `review` and `reopenings` are the
fields of `RunRecord` the properties tell apart.  `intent` is
`provider-intent.json`.  `worktree` gives each milestone's path a content
version: `ChangedSince` is `fingerprint_delta`.  `proc` is the process that runs a
command: program point, local variables, nothing durable.  `orphans` are the roles of
providers whose runner died: each has a session of its own (`providers/base.py:545`), only a timeout
or a receipt that cannot be written ends it, and so one of any role may outlive its runner (`Crash`), and an editing one goes on
editing (`OrphanEdits`) until it ends by itself, which nothing observes.  `strays` is a history variable, which no action
reads: the paths such providers changed since the final set last passed, and since the command at work was
resumed.  `commands` only bounds the search.

*Steps.* One step is what happens between two durable publications
(`_publish`), because a crash can only be seen there.  `Crash` resets `proc` and
leaves the record.  Each condition of section 4 that depends on the outside (HEAD,
branch, registry, governance) may hold or fail at each evaluation; the one about
the run itself, that an implementation changed only its own paths, is a guard of
`JudgeImplementation`.  An exception that no handler turns into a stop ends the
command and changes nothing (`Raise`, or `Crash` where it interrupts a step).
Verification commands pass or fail and are taken not to edit the worktree.

*Commands.* `Start`, `Resume`, `Abort` and the recovery commands are the CLI's.
`Resume` first evaluates section 4 and `ReconcileRequired`, then either stops, or
leaves a provider excursion (`LeaveExcursion`, with the guess `ProviderOrigin`) and
continues the step the record is in (`ResumeStep`).  A command runs only when no
other does: that is what the run lock is for.

### ApprovalGate

*State.* `workflow_state`, `approvals` and `passed` (do all recorded verification
results pass?) are the record; `history`, `index`, `worktree` and `pushes` are the repository
and the remote as the runner can know them; `proc` is the command.  A version
stands for the bytes and the digest of a path, a position in `history` for a commit
id.  The expected branch stays checked out and nobody rewrites it: a checkout
or a reset is refused by the same evidence comparison as any other drift.

*Steps.* `Observe` is `_approve` up to the prompt; `Bind` is `bind_approval` after the
answer; `PrintOnly` is the shipped default, which records an unused approval;
`Attempt` is `validate_approval` and the durable row `on_execute` publishes; `Add`,
`Commit` and `Push` are the Git vectors; `Settle` replaces the row and moves the
state.  A command that refuses before it writes changes nothing and is no step.
`GiveUp` is everything that ends a command early: a refusal, a vector that fails
or is killed by its timeout, a lost hold, a crash.  A killed vector may have taken
effect or not, which is `GiveUp` after or before its step.  Others edit, stage and
commit at any time.  The clock moves during the prompt only: `_approve` reads it
once before.

### RunLock

*State.* `canon` tells which inode each path leads to: the target repository, the
storage root `<repository-id>`, its `run.lock`, the run directory.  `document` is the
record in each run directory, as the set of publications it is built from.
`proc[p].own` is `_Ownership`, `proc[p].lost` is `_lost`; the flock is held by the
process that is at a point in `Holding` with that lock inode.  `confirmed` collects the
publications that returned a success.

*Steps.* `OpenLock`, `Flock` or `Contend`, `Capture` are `acquire`; `Load` reads the record
by path; `OpenParent` to `Acknowledge` are `publish_atomically`, cut at its guards;
`Recreate(place)` is somebody who moves a place away and puts a new one there.  A
place that was emptied is a place refilled: the guards treat both alike, and
`acquire` creates what is missing.  Inodes are never used again, because every
inode compared is held open by the one who compares it.  A place moved away is
taken not to come back (section 5).  A guard is one step although the walk is not: nothing
comes back, so whatever agrees at the end of the walk agreed at its beginning.

### EventChain

*State.* `disk` is what there is to be read: the events, the publication witness,
`state.json` and the applied receipts.  `durable` is what the power leaves of each of
them.  `proc` is the command that holds the lock with its `EventStore`: `known` the
verified chain, `witness` the witness it last published, `published` the record
`_Lifecycle` computes against, `queue` what is left of a commit.  An event is reduced to
its content, its sequence and its place in a declared mutation; a content stands
for a digest.  `relied` and `seen` are kept for the properties only.

*Steps.* `publish_envelope` is cut at its four files, witness, event, projection, and
the receipt `_Lifecycle` writes after the transition of an operation.  Each may pass
its barriers, be visible without them (`PublicationUncertain`) or fail; the
exception leaves the `EventStore` as it was (`failed`), from where the same envelope may
come again (`RetryDuplicate`, `RetryNext`) or another commit be tried.  `Open`, `Repair`,
`Rebuild` and `Admit` are `open_run_lifecycle` in its order.  `Exit` is the end of the
command or its death.  `PowerLoss` keeps any mixture of the visible and the durable.
`Look` to `Probe` are `RunStateStore.load` without the lock.

### OperationJournal

*State.* `record` and `operations` are the fold of the chain (`FoldState`): of the record
what the flow needs, of each operation its `OperationRecord`.  `mutation` is what an open
declaration still lacks.  `artifacts` holds what was published under each name; a content is
a number, equal exactly where the bytes are: an intent carries the command that wrote it, because
its invocation id is new, a request what its prompt shows of the verification results.
`processes` is the world: every provider process that was ever created.  `proc` is the command.

*Steps.* `PublishArtifact` and `RecordEvent` are the two halves of every fact, and any
crash may fall between them.  `Drive` to `Retry` are `_invoke_provider` with its observer, `Judge` to
`LeaveUndecided` the verdict and its persistence.  `Admits` and `CanPersist` are the refusals of
`_apply_operation` and `_apply_persistence`.  `AppendConstituent` is one event of a declared
mutation; a command that opens a chain with an open declaration is refused (`OpenTorn`), after it
has completed the applied receipts (`Reopened`).  A boundary of section 4 is passed or
refused; the fingerprint that `_reconcile` compares may have moved when an editing process
was created (`MayHaveMoved`); milestone and final verification are one.

### StageStart

*State.* `files` are `stage-starts/` of the repository and the run directories, each file with
what it pins; `solid` are those of them that are durable.  `caller` is the command of each
process, `lock` the repository run lock (`RunLock` has its steps).  `worked` tells which runs
opened under which input; no code reads it.

*Steps.* A command reads without the lock (`AskStage`, `AskStart`, `AskResume`), then takes it and reads
once more (`LockStage`, `LockStart`, `LockResume`, or `Refused`), and then publishes one file after
the other (`Publish`).  A publication links the file and then passes a barrier, which also makes durable what
the same directories hold already (`Covers`).  `Uncertain` is a failed barrier or a death after the link,
`GiveUp` every other early end, `Conflict` a name that is taken, `Confirm` the confirmation of
what a run stands on, before the run is bound and when it is opened.  `PowerLoss` leaves any part of what is not durable.
Refusals before the lock change nothing and are no step.  The pointer to the latest run is left out: a command
may name any run, which includes the one it names.  `state.json` is taken to be there with the
genesis, and the policy event with the announcement of the bound start.

### The task workflow

*State.* `transitions`, `attempts` and `approvals` are the three append-only files of
`StateStore`; `authorized` tells that `authorization.json` exists, `reports` which write-once
reports do.  `git`, `tree` and `remote` are the repository, its working tree and
GitHub.  A tree is known by its content, and an observer sees the names of the paths
by which it differs (`WorkingTreePaths`), because that is all `inspect_working_tree` and the
checksum of the diff look at.  `mode`, `machine` and `pc` are the session: which driver holds
the lock, its `WorkflowStateMachine`, and where it is between two effects; `local` is
what it remembers.  `deciding` is what a person has evaluated and not yet appended.

*Steps.* One step is what happens between two durable effects: an append, a report, a Git
or GitHub command.  A command works, fails, or works and is reported as failed.
`TransitionTo` is the one gate of the engine: it validates, appends, and then moves the
machine.  An exception a handler does not catch ends the session (`Raised`), as `Die` does at
any point.  `ResumeDrifts`, `CanResume` and `ReconciliationRequired` are the three outcomes of
`_validate_live_resume_observation`: the task fails for good, goes on, or is refused with
nothing changed.  `Implement` and `CloseOut` are the two drivers' `resume`.

*Approvals.* A status is never stored: `Replayed` is `_replay`.  `evaluate_approval` appends the
events of a deadline that has passed; whoever evaluates first does so.  `BeginDecision` and
`AppendDecision` are the two halves of `decide_approval`, between which nothing is held.
`resolve_approval_policy` takes each field from the highest layer that sets it.

### The ordinary commands

*State.* `commits`, `head`, `tracking` and `remote` are the branch, its upstream as last fetched
and as it is; `tree` and `index` give each path a content, `cleanAt` records the commits at which
the tree was once clean.  `metadata`, `markdown`, `records` and `patches` are the members of the
two artifact stores, `files` the numbered events of the task, `engine` the engine's own worktree.
`proc` is one invocation: the request, the step it is at, what it has read (`seen`, `status`,
`again`) and what it is about to publish (`made`).  `told` collects the `PASS` answers.

*Steps.* One step is one Git process or one link: `GitClient.status` is two, HEAD with its
distance from the upstream and then the porcelain records, and whatever anybody does falls between
them.  `agent run` reads the engine and the target before the agent runs in its clone and after
(`RunReadsEngine` to `RunJudges`); `state record` checks its citation, reads the whole history and links
the next number, which fails where there is one; each gate reads, acts and reads again.  An
invocation that refuses answers `FAIL` and changes nothing more; `Dies` is a kill between any two
steps.  Nobody rewinds the branch or leaves it.  `left` bounds how often each command and each kind of
person acts.

### The owner's gates, the record, proposals and the dashboard

*State.* The governance documents are paths of the working tree, and the content of each is what the
parsers extract from it: a status per task, a State cell per stage, the addenda of a report, the updates of the
handover, the digest the checksum manifest names.  `stamps` is the order in which they were last written, which is
what modification times are compared for.  `artifacts` is the store of proposals, `moments` (history) every state of HEAD,
documents and cleanness since the command began, and `rewound` (history) the proposers during whose run a document got
an earlier time back; only `approve` does that (`cp -p`).  `rows`, `audit` and `mirror` are the dashboard's
store and its JSONL mirror, `server` the process with the prompts it has in memory.

*Gates.* `GovernanceRecord` is `check_task_state`, `check_registries` and `check_handover` as operators.
`AuthorizeReads` and `ApproveReads` are the preconditions, `GateWrites` rewrites one document: it
looks for the value it replaces and fails where that is gone (`StillThere`).  `GateValidates`,
`GateReadsChanged`, `GateStages`, `GateCommits` and `GateVerifies` follow in the order of the scripts, and
`GateRestores` is the EXIT trap.  A declined prompt is a gate that ends, like a kill.  One gate runs at a
time, because one owner types in one terminal.

*Proposals.* `SuccessorRules` is the parsing of the catalog, duplicates, dependency cycles, unmet
dependencies, questions, verdicts and the variant of a result.  `Proposals` reads status, documents (`ProposeCaptures`), the
evidence from the documents once more, the checks from them a third time (`FirstFailure`: the first finding is
the one that is published), the catalog, and then the
second snapshot, which `Drifted` compares with the first by content and by stamp.  `ArtifactStore.publish`
is cut at its two looks for an existing file, the rename and the verification.

*Dashboard.* `PostCreates` to `PostAnswers` are one post: `create_run`, `create_approval`,
`create_finding` and `create_note` do the same to four tables.  The events go to the mirror before the
commit, one write each, and each write may be cut short (`PostTears`).  `GenerateReads` is one read
of `evaluate_preconditions`, of which there are two passes.  The handlers never await, so a server works
on one request at a time; `ServerStops` is a kill anywhere.

### The feature state file

*State.* `file` is the document: per stage its status, verdicts, people, blockers and what is
recorded; the current and the next stage; the length of the history.  `session` is a tool that has
read a file and holds its replacement.

*Steps.* `Applies` is a `transition` up to `os.replace`: the digest if one was given, the guards
of the transition, its assignments and the validation of the result; `Replaces` is the
replacement, whatever the file has become; `Looks` is a reading whose digest the session may later give,
`Dies` a death or a refusal of the file system.  What a transition refuses changes nothing and is no step.

## 3. Runs

| Run | Checks | Shows |
|---|---|---|
| `core` | `GateMeansReviewed`, `GateMeansVerified`, `ReviewCoversPlan`, `DurableBeforeEffect`, `ImplementsPromise` | two milestones, one finding, the default budgets 1/1/1, three operator commands, providers of every role that outlive a crash |
| `two_rounds` | `RoundsAreEarned`, `AbandonedEffectsReconciled`, `CommandEnds` | a policy-governed run, two findings, budgets 2/2/2, two spawn attempts, two contents of a path after its first, providers of every role that outlive a crash, one operator command, under fairness |
| `gate` | `AtMostOnce`, `SettledMeansLanded`, `UnreconciledIsFinal`, `ImplementsSingleUse` | both gates, two paths (one outside the allowlist), edits, staging and a commit by others at every point, a crash after every step |
| `lock` | `OneOwner`, `NoBlindSuccess` | three processes, two recreations, three publications |
| `chain` | `Reliable`, `ReadsCurrent`, `MutationsWhole` | the bootstrap and three more events, singles or a declared mutation of two effects, two commands that may each die anywhere, two incidents |
| `journal` | `OneProcessPerOperation`, `RunIsEvidenced`, `ImplementsPromise` | a milestone, a review, a correction and a closure, each an operation with up to three attempts and two spawns per command, one reopening, two commands after `start`, a crash between any two durable steps |
| `stage_start` | `ImplementsPromise`, `StartCompletes` | two inputs for one Stage, two runs, two processes that give `stage-start`, `start` and `resume` at will, three failures and one power failure, under fairness |
| `task` | `HistoryIsSound`, `AttemptsAreBounded`, `CommitsAreEarned`, `KeepsPromise` | one task, two contents of the tree (one outside its paths), one crash, one change by somebody else, one decision, a gate that takes silence for consent and a project that would like to |
| `task_ends` | `ArmedIsReviewed`, `SessionsEnd`, `PullRequestsSettle` | the same under fairness, one crash, sessions with and without independent QA, a deadline that escalates and is extended once |
| `workspace` | `EvidenceIsOfACleanHead`, `EventsRestOnRuns`, `PassesAreTrue`, `KeepsHistory`, `AppliesWhatWasVerified`, `ProposalsAreTrue`, `RecordsAgree`, `PromptsAreEarned`, `MutationsAreMirrored` | the commands that write, both gates, proposals and the dashboard's requests, two invocations at a time, from seventeen beginnings; two paths of code, one of them protected, and ten documents; people edit, amend the record, stage, commit, fetch and push at every point; a kill anywhere |
| `feature` | `FeatureInOrder`, `ReviewedByAnother` | three stages, one with a prerequisite, two sessions, two people, one blocker of each kind, seven transitions |

*Bounds.* Two milestones are the least with an order and a first that is finished
while a second is not.  Three commands allow a stop, a recovery and the resume of
what it re-entered; a recovery of a recovery adds no new entry point, since each
enters at one of four states from `HUMAN_INTERVENTION_REQUIRED`.  One edit of a
path after its first content lets a path be unchanged or changed; two are
needed for an effect on a path that was already changed (`two_rounds`).
`MaxCommands` and `MaxEdits` bound the search only.

*Providers left behind.* A provider whose runner died may change a path at any moment, also while the run waits
for its approval, and the record says nothing of it.  So `GateMeansVerified` and `AbandonedEffectsReconciled` would both be
false of the code as bare equalities of trees.  They say what the code does ensure: the tree
differs from the verified or fingerprinted one only in paths that providers left behind changed in the
meantime (`strays`); whatever an awaited provider did is accounted for, over all crashes, resumes and recoveries.  The gate
then binds an approval to the tree as it finds it (`ApprovalGate`), so a stray written before is part of what is
approved.  What the code says of the repetition itself is stronger, and not so.  A provider runs in a session of
its own and nothing ends it when its runner dies; `_reconcile` finds the fingerprint matching and answers that
"repeating it repeats no effect" (`state.py:2773-2776`); the provider left behind then edits, and the invocation is repeated
over that effect and beside its author.  With `strays` taken out of `AbandonedEffectsReconciled` TLC finds this with one
milestone, one crash and one resume, in 16 states, and with `strays` taken out of `GateMeansVerified` an approval of a
tree no set ran on.

*What is repeated.* `AbandonedEffectsReconciled` says what a command may rely on when it invokes again an
implementation or a correction that a crash left in flight: the fingerprint beside the row is that row's own, and describes the
tree but for strays.  A review or a closure edits nothing and is left out: `revalidate-correction`
enters `CLOSURE_VERIFYING`, which is not among the states `_reconcile` asks about, so an interrupted closure can
be repeated over a tree nobody compared.  And `reopen-milestone` of another milestone leaves the interrupted row
where it is: once that other one is
reconciled the loop comes to the interrupted milestone with nobody having compared anything, so the property
leaves out what was reopened since.

`gate`: two approval rows allow an abandoned attempt beside a printed or a settled one, and a commit settled
before a push; one foreign commit lands before, between or after the vectors; one
clock tick is the whole lifetime of an approval; two versions tell a path that changed
from one that did not.  `lock`: two processes for a takeover and a third that takes over from it;
one recreation per takeover; three publications for a stale writer, the
success it may overwrite and the next one.  `chain`: six envelopes are the bootstrap
and a whole declared mutation, or three singles; a mutation of two is torn in each
possible place; a second command opens what the first left.  An incident is a failed
barrier or publication, a power failure or a load without the lock: an event is
lost by two, and a reader meets one failure.  The code's loads make three attempts and
the model's two, which shows a first, a repeated and a last one.

`task` and `task_ends`: two attempts of an operation and one repair are the least at which a
limit is reached after it was not; one crash falls into each gap between two effects and
is followed by every resume; two contents tell an accepted tree from one with a path outside the
scope; one decision is one that races with the driver.  A decision of a person and a
deadline are both possible in `task`, an extension in `task_ends`.  Two observations of
the merge are a first and a last one.

`journal`: three attempts are the code's bound, reached by two spawns of one command
and one of the next; two commands are a recovery and the resume of what it left; the reopening gives a
milestone its second operation.  `stage_start`: two inputs and two runs are the least that can
be confused; two processes race; three failures are a barrier lost on the way in, a death between
two files and the failure of the command that comes to complete them, and only with three can a
name be taken (`Conflict`); one power failure may fall after any of them.  One stamp is
enough where an authorization is not granted twice; `StartPromiseKept` covers any number.

`workspace`: a day begins with the work in hand that a command needs, and `left` gives it the two or
three commands and the one or two acts of others that can meet in it, so the runs of a prompt, a recorder and a
gate do not multiply; two invocations are the least that meet at a name, and every command
reads the repository at most twice, so two acts of others fall before, between and after.
Only proposals and prompts read piece by piece.  `ReadsAtOnce` lets a proposal read several documents in one step of the
model, so that a write falls between groups of them and not between any two; a prompt reads one document a
step.  An amendment is a document somebody writes by hand: a gate and one amendment, or two
amendments, let a document change and change back between two readings.  `PromptsAreEarned` says what
two evaluations are worth: with three amendments during one request both can be deceived, and the
property is stated up to two.  Three posts are a first, its repetition and a conflict, or a run, an
approval of it and a finding; two servers are one that dies and the next.  `feature`: three
stages are one that builds on another and one that does not; two people are the least
with somebody else; seven transitions take one stage from its start through a rejection and a
remediation to its approval and begin the next.

*Symmetry.* Processes are permuted in `lock`, invocations in `workspace` and sessions in `feature`, which check no liveness; no definition orders them.

*Fairness.* `FairSpec` assumes `WF_vars(RunnerStep)`: a command that runs goes on to
its next publication, since it waits for nothing but a provider and a
verification command, and both are awaited under a timeout that ends the process
group.  Nothing is assumed of operators, crashes or providers.
In `task_ends` it assumes `WF(DriverStep)`, because a driver waits for nothing but commands
under a timeout; `SF(Implement)`, `SF(CloseOut)` and `WF(DriftOnResume)`, that somebody calls
`resume` again for a task that is not at its end, which `PullRequestsSettle` needs after a run
that only waited; `SF(ObserveMerge)`, that the reading of a decided pull request does not
fail every time (`merge_closeout.py:636-672` treats its failure as transient); and
`WF(GitHub)`, that checks finish and what is armed and passed is merged.  Nothing is assumed of
people, crashes, or of what providers and commands answer.

In `stage_start` it assumes that a command which has the lock goes on or is refused
(`WF(Proceed)`, `WF(Refused)`), since it waits for nothing; that whoever wants the run gives `start`
and `resume` again while they are admissible, and gets the lock in the end (`SF`): the failures are
bounded, so contention ends.  A start is not assumed to be given for the same run twice.

*Deadlock.* On in `workspace`, where a day that is over may stutter and anything else must go on; off in
the others: a run really stops, at an approval, aborted, with a chain
that lost its end, with a task at its end or refused by every resume, or when the operator
has issued the commands the bound allows.

### What the documents say and the code does not do

| Run | Refuted | Why |
|---|---|---|
| `task_twice` | `ConsumedOnce` | `decide_approval` evaluates and appends with nothing held in between, and `_replay` takes the last status whatever came before: a decision appended after the consumption makes the approval `APPROVED` again, and a crash and a resume consume it a second time |

More divergences have no run of their own.  Of the milestone run: a policy-governed run whose
boundary is refused in `PREFLIGHT` stays there, while `_drive` leaves its loop in stopped states only
(`application.py:2824-2841`), so the milestone is skipped, which `AUTO-016.md:150-155` excludes;
an approval is validated against the evidence and the moment it was bound to, read before the
operator was asked (`application.py:4130`, `4148-4149`), where `approval_git.py:40` speaks of a
validation at the moment of execution; a provider failure in a review consumes no round, while
`recover-failed-review` asks for one (`application.py:2740`), so such a run cannot be recovered; a
crash between an
implementation's completed row and its judgement leaves nothing in flight, and resume
invokes again (`application.py:2344`); after a crash between `PROVIDER_WAIT` and the pending row
the interrupted role is guessed from an older row, so a returned review can be followed by a
failed one, whose recovery gives back the round the first one spent; `reconcile-milestone`
enters behind the boundary that compares changed paths with the milestone's own;
`verification_results` only grows and `validate_approval` refuses while any of them failed, so a
run recovered from a failed verification reaches the commit gate and cannot pass it;
spawn attempts are counted in a
local of `_invoke_provider`, so a crash starts the count again; `reopen-milestone` accepts any
incomplete milestone, so the plan's order is not kept; `BudgetExhausted` is caught
nowhere in `_review`, `_correct` and `_verify_closure`, so a spent budget leaves the
run in the middle of a step; a provider of a crashed runner can still
edit while its invocation is repeated, a review is made or an approval is waited for, so that repeating does
repeat an effect (`state.py:2773-2776` and `AUTO-016.md:471` exclude it) and what is approved need not be what was verified; a new intent overwrites the fingerprint of an
older abandoned invocation, whose row then cannot be
reconciled; `git commit` commits the whole index, so what somebody staged during
the prompt goes in, although only the bound paths are added (`approval_git.py:561`);
an unlocked `load` can report `EVENT_CHAIN_BROKEN` for an intact chain, which
`AUTO-018.md:238-241` excludes, when the writer it raced with publishes the event whose
witness it saw and ends before `_writer_active` is asked (`ReadWitness`, `PublishEvent`,
`Exit`, `Recheck`, `Probe` in `EventChain`; the witness has not moved and nobody holds
the lock); and no command reconciles an approval attempt that was never settled: `abort` is the
only one left (`UnreconciledIsFinal`).

Of the operation journal: a runner that dies between an intent and the decision of its
operation leaves an attempt no later command may follow, although the decision table says
`REINVOKE_PROVIDER` (`state.py:1333-1336`): `MayIntend` refuses a second attempt, and so `resume` is refused until the
milestone is reopened, which only an implementation can be; a closure asked again has another
prompt and so another request, which `operations.py:24-26` excludes; a rejection recorded as
`DISPATCH_REFUSED`, for which `events.py:818` says that no process was created, may be one
whose process was, by a command that died before the receipt, when the next command is refused by
its adapter; the fourth attempt ends the
command with a `ValueError`; a result whose second boundary is refused stays undecided; and
a declared mutation that was torn refuses every later command, `abort` included.

Of the stage start: a death between the publication witness and the genesis event strands the run and
its authorization, where `AUTO-017.md` 14.3 promises that `start` may be given again and
`AUTO-018.md:379-381` that nothing is loaded; a genesis is durable before the files it refers to are confirmed,
so a failed barrier and a power failure may leave the geneses of two runs for one authorization, of which
one can work; a repeated `stage-start` gives a receipt for a pointer whose barrier never
passed, and a power failure may then grant another input; whether the run is there is
asked before the lock only, so a `start` may consume its authorization for a run that
was begun for another Stage in between; and a death between the genesis and the pointer
to the latest run leaves a run that is only reachable by its id.

Of the task workflow: a crash during an implementation leaves a dirty tree in `IMPLEMENTING`, which
`_validate_live_resume_observation` refuses before the driver's reconciliation can carry it
forward, as `implementer.py:60` says it does; the approval's checksum of the diff is taken over the sorted names of
the changed paths (`implementer.py:910-912`), so another content of the same paths is committed under
an approval that `HUMAN_AUTHORIZATION_MODEL.md:128-131` binds to the diff, and an
approval found `CONSUMED` lets the commit by without any comparison; a resume of `COMMITTED` or
`PUSHED`, or of a stage branch created and not yet recorded, is always refused; a crash between
the reserved and the completed row of the commit leaves a number that every later
attempt collides with; a commit that works and is reported as failed, followed by another edit, leads
to a second commit; the report of a repaired failure and the report of an earlier QA are used
again on resume; an attempt limit that is met in a handler ends the session with an
`AttemptLimitExceededError`; a failure after automatic merging was enabled does not disable it; a
second implementation that reports finds the first report in its place and raises; and
an escalation is two appends, between which a crash loses the extension.

Of the ordinary commands: an engine that changed during a run is reported as `repository_mutated`
where the target changed too (`runner.py:311-314`, `artifacts.py:126-134`), so the drift
that `docs/architecture.md:89` says is recorded is not; a `git commit` that fails leaves the
approved paths staged, where `docs/milestone-4-plan.md` says that no command writes anything on a `FAIL` or
`ERROR` path; `push` publishes the branch, so a commit made after the approval was compared goes out with it; and
the tree `apply-patch` compares before `git apply` may be edited in between.

Of the owner's gates: what is edited between the validation and `git add` is committed by `approve` although nobody
was shown it (`workflow-approve.sh` adds the paths it displayed, whatever they hold by then); a kill while the documents are
rewritten leaves a record half closed, and the next gate refuses it; the restored copies overwrite what others
wrote to the same documents meanwhile; and neither gate runs `check-registries`, so a registry that
disagrees elsewhere goes into the commit.

Of the proposals: `ArtifactStore.publish` looks for an existing file and then renames over it, so of two
publishers of one payload the second replaces the first, whose `_verify_published` may then report a failure for a
proposal that is there, since `generated_at` is part of the file; and `check_no_unauthorized_successor` reads
the record before the snapshot is taken, so what it passed may not be what the proposal is of.  The snapshots compare
contents and times, and `workflow-approve.sh` restores its copies with `cp -p` (line 749), times included: when it writes, is
refused and restores between the two snapshots, they agree although the checks read something else, and TLC finds a proposal
that was true at no moment.  That is the residual risk the code states of itself (`successor_planning/snapshot.py:70`: "it does not
guarantee no third, intermediate state existed that neither snapshot observed"), so `ProposalsAreTrue` excepts it: the commands in `rewound`.

Of the dashboard: a prompt token that comes again for another stage gets the prompt of the first; the HEAD and the
tree state a prompt shows are read after its preconditions and may contradict them; three amendments during one request
can make two evaluations pass that no moment would; and prompts are lost with the server that made them.

Of the feature state: the implementer of a stage may approve it after somebody else remediated it, since the
remediator becomes the implementer on record (`session-protocol.md:51-53` excludes it), and the
reviewer named need not be the one who acts; the digest is compared and the file replaced with nothing held in
between, so an update is lost where the docstring (`orchestration_feature_state.py:19-21`)
promises a refusal; a stage that was superseded stays the first eligible one, and no later one can start;
verification, evidence and commit of the work that was rejected stay on record through the remediation.

## 4. Proofs

Eight modules hold theorems.  `MilestoneRunProofs` proves, for every plan, every set of findings, every budget and
every bound:

| Theorem | Statement | Assumes |
|---|---|---|
| `TypeCorrect` | `Spec => []TypeOK` | the constants' assumptions |
| `ReviewCovers` | `Spec => []ReviewCoversPlan` | `~PolicyGoverned` |
| `GateReviewed` | `Spec => []GateMeansReviewed` | `~PolicyGoverned` |
| `PromiseKept` | `Spec => ImplementsPromise` | `~PolicyGoverned` |

`TypeOK` is inductive once the last row of `provider_runs` is known to exist where
it is settled and `rounds >= 1` where it is given back (`TypeInv`).  The gate
properties need more: a command may start in any live state, so `Running` says
which state the record is in at each program point, `EarlyInv` that before the plan
is finished no row of review, correction or closure exists and the review's
fields are untouched, which is what makes the guess of `ProviderOrigin` harmless
before the plan is finished, and the shape of the record at a gate.  `GateInv` is
their conjunction; it was model-checked at the bounds of `core` before it was
proved.  `PromiseKept` follows from it step by step: a step of the run is a step
of `RunPromise` or leaves its variables alone.  The assumption `~PolicyGoverned` is
needed: without it a milestone whose boundary is refused is skipped (section 3).

Its second half is about the record, for the same constants:

| Theorem | Statement | Assumes |
|---|---|---|
| `ProcessesAreOnRecord` | `Spec => []DurableBeforeEffect` | the constants' assumptions |
| `RoundsArePaid` | `Spec => []RoundsAreEarned` | the constants' assumptions |
| `GateVerified` | `Spec => []GateMeansVerified` | `~PolicyGoverned` |
| `AbandonedReconciled` | `Spec => AbandonedEffectsReconciled` | the constants' assumptions |

Providers of every role may outlive their runners in all four; what they change is stray, by `StraysCover` for every
base a tree is compared with, and stops being so only where the tree is looked at anew (`StraysStand`).  `ProcessesAreOnRecord` needs that the run is in `PROVIDER_WAIT` from
the fingerprint on (`WaitIsPublic`), that from its row on this is the last one and bound to the fingerprint
(`RowAwaited`), and that between the fingerprint and the first effect only providers left behind edit (`TreeIsKnown`).  `RoundsArePaid`
needs the result that is about to be charged (`UnchargedResult`): a row that returned and is not consumed yet.

`GateVerified` is about where the evidence of the final set is fresh (`FreshWhere`).  An edit of the awaited provider takes it away, a passing set
before the review or the closure gives it back, and a resume or a recovery may lead back to a review without one: by what the last row
says (`ProviderOrigin`), or because the last review failed.  So the invariant says that nothing was corrected where
a review can still come (`HasCorrection`), that a failed review is followed by no correction, and, for
the time before the plan is finished, what `EarlyInv` says.  `AbandonedReconciled` follows an interrupted row to
each of the invocations that could repeat it (`FlightInv`): a resume goes on only from what matches (`ResumeMatched`),
on the way nothing touches row or fingerprint, and the tree only what is left behind (`QuietPoints`), the loop goes on with the milestone of the row
(`ImplementationMatched`), and on the ways that do not come from a resume nothing is in flight (`RetryIsSettled`) or
the last row is a review (`CorrectsReview`).

`EventChainProofs` proves, for every list of commits and any number of commands, failures, power failures and loads:

| Theorem | Statement |
|---|---|
| `ChainTyped` | `Spec => []TypeOK` |
| `EstablishedStands` | `Spec => []Reliable` |
| `ReadersSeeTheChain` | `Spec => ReadsCurrent` |
| `MutationsStayWhole` | `Spec => MutationsWhole` |

`Inv` says of the files that the events are a chain in order, on the disk and of what is durable; that the witness names the last event
or the next one; that at most the last event can be lost, and then the witness that tells of
it is durable already, so that what is left is refused; and that the projection and the receipts are of events that cannot be
lost.  Of the command it says what its `EventStore` knows of the disk at each of the cuts, which after
a failure may be one event less; of a reader, that what it has read so far is a beginning of the chain as it is.  For
`MutationsStayWhole` a `PublishEvent` is `BeginMutation` or `ContinueMutation`, the end of a
command `EndCommand`, a power failure that takes the last event `Stop`, and everything else a stutter.

`OperationJournalProofs` proves, for every bound on attempts, spawns, reopenings and commands:

| Theorem | Statement |
|---|---|
| `JournalFits` | `Spec => []Inv` |
| `JournalTyped` | `Spec => []TypeOK` |
| `OneProcess` | `Spec => []OneProcessPerOperation` |
| `RunEvidenced` | `Spec => []RunIsEvidenced` |
| `JournalPromise` | `Spec => ImplementsPromise` |

`Inv` has a part for each thing that has to fit.  `MutationFits`: which changes an open declaration still lacks, and
that only the command that declared them works on them.  `PlaceFits` and `ResultFits`: what the command remembers of its attempt
and its result at each program point, and that the artifact is there before its event.  `Ladder`: the facts of an attempt
come in order, so that a receipt excludes a refusal.  `DispatchFits`: a command is at the creation
only with the last attempt intended and no process of the operation, which is what makes one process per
operation inductive: a crash after the intent leaves an attempt that is neither received nor refused, and the
fold takes no further intent after that.  `AnswersFit`: a verdict is `VALID` only of what a process answered.  `ArtifactsFit` and
`ReceiptsFit`: what the chain binds is there, but for the one applied receipt of a transition just made.  `CorrectionFits` and `GateFits`: a correction
rests on an accepted review, so that a review that leads to the approval finds no accepted correction, and the
transition to the approval is only ever declared together with the acceptance of a ruling.
Every part was model-checked at the bounds of `journal` before it was proved.  A step of an invocation is first
shown to be one of fifteen ways on (`CommandStep`), which the other lemmas split over.  For the promise the phase of an operation
is read off its record (`AttemptPhases`, `KnownPhases`); an event is then a move up the ladder, a persistence
settles, and everything but a creation is a stutter.

`ApprovalGateProofs` proves, for every set of paths, every lifetime and every bound:

| Theorem | Statement |
|---|---|
| `GateTyped` | `Spec => []TypeOK` |
| `EffectsOnce` | `Spec => []AtMostOnce` |
| `GatesMeanLanded` | `Spec => []SettledMeansLanded` |
| `OpenIsFinal` | `Spec => UnreconciledIsFinal` |
| `SingleUseKept` | `Spec => ImplementsSingleUse` |

`AtMostOnce` is not inductive: that a second attempt cannot begin follows from
`StateFits` (the workflow state tells which approvals are consumed) and `CommandFits`
(before the attempt no row is open); that an effect has its row, and the settlement its effect,
follows from `RowIsMine` (from the attempt on the last row is the command's own) and
`EffectsFit` (which effects exist at each program point).  `GateInv` is their
conjunction.  Every step of the gates is then a `Begin`, a `CarryOut` or a `Settle` of
`SingleUse`, or a stutter.

`RunLockProofs` proves, for any number of processes, inodes and publications:

| Theorem | Statement |
|---|---|
| `LockTyped` | `Spec => []TypeOK` |
| `OneOwnerAlways` | `Spec => []OneOwner` |
| `SuccessIsNeverBlind` | `Spec => []NoBlindSuccess` |
| `LostStaysSilent` | `Spec => LostIsSilent` |

`OneOwner` is the flock's exclusion by inode (`FlockExclusive`) and the comparison of
the inode held with the one at the path.  `NoBlindSuccess` needs to know that a
process which owns the lock has read the document it is about to replace if that was
acknowledged, or can still be by a process it took over from (`OwnerHasRead`),
which holds because what was recreated is new to everyone (`NothingReturns`).

`StageStartProofs` proves, for any number of inputs, runs, commands, stamps and failures:

| Theorem | Statement |
|---|---|
| `StartTyped` | `Spec => []TypeOK` |
| `StartPromiseKept` | `Spec => ImplementsPromise` |

What a command read without the lock is of no use to the proof; what it read with the lock still stands at
every later file, because only the holder publishes and nothing but a power failure takes a
file away (`ReadStands`).  A name has one content (`OneContent`).  A run is bound only after
the pointer, the witness and the binding are durable (`AttestedLasts`), and once a run has worked, that is so for
everything an authorization says (`WorkedLasts`, `WorkedOn`): so a power failure after that
changes nothing the promise sees, and before it is the `TakeBack` of `StagePromise`.

The second half of `RunLockProofs` proves about `FeatureState`, for any stages, prerequisites, order of delivery, people and requests:

| Theorem | Statement |
|---|---|
| `FeatureIsInOrder` | `FeatureSpec => []FeatureInOrder` |
| `ApprovalsAreByAnother` | `FeatureSpec => []ReviewedByAnother` |

That the transitions keep one stage open is not inductive, since a stage is resumed without being
asked whether it comes first.  It holds because an open stage is the first eligible one: only an approval
changes who is eligible, and what is approved is the open stage (`SoundFile`).  The
invariant holds of the file and of every replacement a session still holds, so it survives a
replacement of a file its session never saw.

`TaskDeliveryProofs` proves, for any contents, deciders, answers and configurations, any limit of attempts and repairs,
and any number of crashes and of edits by others:

| Theorem | Statement |
|---|---|
| `TypesHold` | `Spec => []TypeOK` |
| `HistoryAlwaysSound` | `Spec => []HistoryIsSound` |
| `AttemptsAlwaysBounded` | `Spec => []AttemptsAreBounded` |
| `ArmedAlwaysReviewed` | `Spec => []ArmedIsReviewed` |
| `CommitsAlwaysEarned` | `Spec => []CommitsAreEarned` |
| `DriversKeepPromise` | `Spec => KeepsPromise` |

`HistoryIsSound` is inductive once a machine is known to stand outside the terminal states (`HistoryInv`): a step
records one edge from where its machine stands, or a drift's failure, or nothing (`HistoryStep`).  `AttemptsAreBounded`
needs the numbers one by one, since an attempt is reserved and completed in two appends (`AttemptInv`).
The others rest on what a session knows at each point.  `ApprovalInv` says of `approvals.jsonl` that it is a request and events after it,
and that what a silence answered was declared by the gate or the run; this comes from the overlays the
request resolved (`PolicyFacts`), and for an escalated silence from the fallback (`TimeoutFacts`).  `GateInv` says that the
gate spends only what was approved before, and that its command starts only after something was spent, which a resume that
finds the approval `CONSUMED` relies on too.  `StageInv` says where the stage branch is checked out and that nothing is asked
before `READY_TO_COMMIT`.

`CommitInv` counts: there are no more commits than attempts of the commit, and one less while the command runs,
because a command that works and reports failure leaves an attempt and a commit, and only the next attempt may
make another.  While nobody else edits it adds that past QA the tree is one the checks accepted (`Accepted`), that
the approval's request shows the tree that is there (`Shown`), that a commit already made holds all there is (`Kept`), and
that there is one commit at most, of the tree that was shown (`Single`): a second attempt after a reported failure then finds nothing to commit.
`ArmedInv` adds to `ArmedIsReviewed` that automatic merging is on in no status before the pull request's, so that no QA
report can come after it.

For the promise, `EffectsInv` says which effects each status rests on and that the baseline has taken the merge in only while closing or
after it, and `HandlerInv` what a handler has seen in the world when it is about to report: its machine records the status a step later than
the effect, with a crash possible in between.  A step then changes the status and nothing of the world (`MoveStep`), or makes one effect of
the status it is in (`EffectStep`), or spends the approval (`SpendingStep`), or is a stutter of `TaskPromise`; the branches the close-out deletes
count as made because the baseline holds them.  All these invariants were model-checked at the bounds of `task` before they were proved.

`WorkspaceProofs` proves, for any paths, processes, stages, prompts, amendments and posts, and any limits:

| Theorem | Statement |
|---|---|
| `WorkspaceSound` | `Spec => []WorkspaceInv` |
| `EvidenceAlwaysClean` | `Spec => []EvidenceIsOfACleanHead` |
| `EventsAlwaysRest` | `Spec => []EventsRestOnRuns` |
| `AppliesOnlyVerified` | `Spec => AppliesWhatWasVerified` |
| `PassesSound` | `Spec => []PassInv` |
| `PassesAlwaysTrue` | `Spec => []PassesAreTrue` |
| `ProposalsSound` | `Spec => [](DiskInv /\ SightInv)` |
| `ProposalsAlwaysTrue` | `Spec => []ProposalsAreTrue` |
| `HistorySound` | `Spec => []HistoryInv` |
| `HistoryAlwaysKept` | `Spec => KeepsHistory`: the persisted workflow implements `HistoryPromise` |
| `StoreSound` | `Spec => []StoreInv` |
| `MutationsAlwaysMirrored` | `Spec => []MutationsAreMirrored` |
| `RecordSound` | `Spec => []RecordInv` |
| `RecordsAlwaysAgree` | `Spec => RecordsAgree` |

They assume of the constants `BeginningsAssumption`: a day begins in a repository whose commits follow their
parents, with prompts of commits that exist and about code (as `StartsPrompt` lets them be), with runs that say of themselves what the code checks before it says it, and
with a history of known stages that the table allows and whose citations hold; what may happen a limited number of times has a number.  Earlier days left it so, or an operator by hand to the same rules; TLC
evaluates the assumption for the beginnings of `workspace`.  The proposals' and the record's theorems also assume that the documents are the ten that a
snapshot captures (`DocumentsAssumption`) and that at least one is read at a time (`ReadsAssumption`); one at a time is the code.
The store's theorems assume that what is posted is of one of the four tables and that a token is not the mark of a finding that has none (`PostsAssumption`).

The invariant has three parts.  `RepositorySound` says that a tree without uncommitted changes is one whose HEAD is
remembered as clean, which every step that moves a tree, an index or HEAD keeps (`RepositoryMoves`); and commits stay while HEAD
only goes on (`Advances`).  `StoresSound` and `EventsSound` are what is to be proved, said of everything that is stored.  `Knows`
says what `prompt`, `agent run`, `state record` and `apply-patch` have found out at each of their program points, in a
form that stays true whatever the others do (`KnowledgeStays`).  The status of a HEAD comes in pieces,
and at no point does a command know that the tree is clean now.  It knows that a clean HEAD was met between the HEAD it read first and
the present one (`CleanBetween`), later between the HEAD it read first and the one it read again; only when both turn out
equal is nothing left between them, and that HEAD was the clean one (`Squeezed`).  A killed saver leaves a record without its patch or a prompt
without its Markdown; that is why an event rests on `records \cap patches`.

Every command that is not one of the four leaves what they know alone (`Elsewhere`), so the twenty ways of `propose-successor`,
the gates and the server to move are one case of the proof.  Each step of the four is a `Moved` of its process.
`AppliesWhatWasVerified` is about one step: `git apply` writes only where the content is the run's base, and the gate knows that its run passed.

`PassesAreTrue` is about lines of commits.  `Ancestors` is a recursion over parents; every commit comes after its parent
(`Rooted`), and so the ancestors can be characterised without induction over data: what the recursion
defines exists, is the same for any two stores of commits that agree up to the commit (`TraceExists`, `TraceAgrees`, by the least
number at which they would differ), and two commits of one branch never have the same parent (`LineIsOne`, `OneChild`).  Whatever happens,
a commit keeps its ancestors and HEAD and the remote move only to descendants (`Continues`).  From then on `PassInv` is short.
The commit gate needs to know only what it was asked, because it reads everything else from the commit itself before it says
PASS; the push gate knows that the HEAD it compared is still an ancestor of HEAD, though others may have committed by the time
it pushes; `propose-successor` knows that the document it renames is of the payload it computed, and what is
stored is replaced only by another document of the same payload.

`ProposalsAreTrue` relates three readings of ten documents, each of which people and gates may write at any time.  Its invariant
has two parts.  `DiskInv` is about times: a document that has the time it had before has the content it had before
(`Stamped`), which every write keeps because it takes a new time, and `approve` because its copies were taken with their times
and nobody else copies meanwhile (`BackupHolds`, `OneGate`).  `SightInv` says what the command holds at each of its points,
unless a document was `Touched` since it was first captured, as far as the second snapshot can still tell: the finding it keeps is the
first that the checks so far have in the documents it cites (`AtChecks`, over any split of the checks), what it concluded is what the rules
conclude from them, and once HEAD was read again and found the same, that moment was one of HEAD and all documents together
(`Met`).  While no time goes back, what was touched stays touched (`TouchedStays`); and a draft that was touched does not pass
`Drifted`.  That a conclusion depends on the cited documents alone, whose catalog is read apart from the rest, is `SameEvidence`; that the first
failure of two series of checks is the first of one or else of the other is `FirstOfBoth`.

`HistoryAlwaysKept` is a refinement.  A recorder holds a first part of the history that is on the disk and an event that continues that
part (`RecordHolds`): its number is one more than the length of what it read, its stage is what the table expects there.  If the
number is still free, the part is the whole, and the event is the next one; if it is taken, nothing is written.  That the table's next stage
is one the history has earned in the words of `HistoryPromise`, which knows no table, is shown event by event from the first
(`EarnsOneMore`, `NextIsEarned`): plans approved once and for all, the newest review newer than the newest work, the newest
close-out review newer than the newest close-out.  A step of `AppendsEvent` is then `Add`, one of `RecordAnswers` is `Acknowledge`, and
all others are stutters of the promise.

`MutationsAlwaysMirrored` is about a log and a table that are written apart.  A server, of which there is one, works on one request at a
time (`OneRequest`), whose number is new, so the events of two requests are ordered by their requests and those of one by their kind
(`Before`).  In this order the readable lines of the mirror are strictly increasing (`MirrorSound`), which rules
out that one is there twice, and so are the committed events (`AuditSound`), each of which was in the mirror before it was committed.  What the
mirror holds beyond the store is of requests that failed or died; what the one under way holds is a row that is not there, with the events it has
still to write, which come after all others (`Appending`).  A new line keeps all this even where the last line was torn,
because the torn line is ended first: it stays a fragment, or the event it lacked only the end of (`DelimitedLines`, `MirrorGrows`).
`StoreInv` was model-checked at the bounds of `workspace` before it was proved.

`RecordsAlwaysAgree` is about the only step of a gate that others see, its commit.  A gate notes what the record was and how many amendments were
left when it read it; `RecordInv` says what it knows while that number is what it was (`Undisturbed`).  The documents it has still to write
are each there once, and after the handover comes only the checksum (`Unwritten`); the queue and the registry are as they were found until
their turn, and then differ in its task alone; and once the handover is written it is newer than all it summarizes, because every write takes a
new time (`Rewritten`).  The checks after the writing see mirrors and the handover in agreement, and what they saw is what is
committed: staging takes every document that differs (`StagingKeeps`), and neither apply-patch nor the commit gate nor people, unless they amend,
move a document or what is staged of it, since what those deal with is code (`ScopesSound`, `DocumentsRest`).  Of the registry the
second checks say nothing, so that it agrees follows from how it was found and from how task and stage were moved, together (`MovedRecordAgrees`).  A commit by anyone
else between the staging and the gate's own changes no document either, nor does a killed gate: the next one starts only
when no other runs (`OneGate`).  `RecordInv` was model-checked at the bounds of `workspace` before it was proved.

Model-checked only: `ConsumedOnce`, which the code violates (section 3); of `Workspace` `PromptsAreEarned`, which is not meant
for all constants: how many changes two evaluations can stand depends on what is amended and on what the gates write (section 5); and `CommandEnds`, `StartCompletes`,
`SessionsEnd` and `PullRequestsSettle`, liveness properties and so out of the prover's reach.
`LostStaysSilent` is proved and in no run: it follows from
`OneOwnerAlways`' invariant.

## 5. Not modelled, and the plan

Wording, rendering, redaction and transcripts' contents are data no property
reads.  `RunLock` leaves out that a directory moved away is moved back while two
processes run: then the owner of the moment is still one, but a stale success and a
new one may overwrite each other.  It also shows where the lock does not make
a command atomic: between a guard and `os.replace` another process may take over,
and the success of that process is then lost, although the one who overwrote it is
told that it owns nothing (`docs/workflow-automation/stage-prompts/AUTO-018.md`,
7.4, claims no more).  `MilestoneRun` and `ApprovalGate` do not model that interleaving.
A provider left behind is modelled in `MilestoneRun` only; to `ApprovalGate` it is one of the others who edit.
`CommitGates` leaves out a `git commit` or `git push` that fails by a hook or the network.
`EventChain` leaves out what an event says of an operation, which is the journal's, the
bytes (a damaged file is refused like a missing one, but not modelled), and that the
probe of a reader holds the lock for a moment.

Of the task workflow: `evaluate_approval` is one step, which reads the events and appends the expiry or the consent
it finds, so a decision between the two is not modelled; a `gh pr merge --auto` that worked and was reported as failed is
left out; and deleting the branch here and at the remote is one step.

Of `Workspace`: the restoring of the documents by `workflow-approve.sh` is one step, although the script copies file by
file; `GenerateReads` takes the registry once where the code reads it twice; and a prompt's preconditions
leave out `correct_branch` and `prompt_sources_available`, which only ever refuse more.  Also left out: branches and the preparation of the registered branch after `authorize` (`scripts/lib/branch_prepare.sh`),
`workflow-next.sh`, which only reads and prints; the context document, the decision log, the changelogs and the
configured facts, which no modelled decision tells apart; the text of prompts and proposals, their
redaction and their templates.  The pages of the dashboard (`core/`, `parsing/`, `web/`, most of `services/` and `api/`) read and
present: what is shown may be older than the file by the age of the snapshot cache, and no decision
of the system rests on it.  A server started with another `TMPDIR` takes another lock; the store is
taken not to be deleted.  A request without a token always evaluates, which is the case of a new token.
`schema/`, `migration/` and `reporting/` are functions of their input with tests of their own; the legacy
readers and `migrate` copy a finished history once, under nobody else's eyes.

What is left to prove is, beyond liveness, `PromptsAreEarned`.  It counts amendments against readings, and gates write the same documents
uncounted; a statement for all constants would have to say which writes, of whom, two evaluations outlast.

The map covers about 30 % of the implementation's lines.  The rest is the wording, parsing and presentation above, and the
adapters of providers and GitHub, whose outcomes are choices of the models.
