---------------------------- MODULE MilestoneRun ----------------------------
(***************************************************************************)
(* One run of the milestone runner: the durable run record of              *)
(* milestone_runner/application.py, the commands that drive it (start,     *)
(* resume, abort and the four recovery commands), and the provider         *)
(* processes it spawns.  A step is what happens between two durable        *)
(* publications, so the runner may crash between any two steps and the     *)
(* next command finds only what was published.                             *)
(*                                                                         *)
(* Milestones are numbered in the plan's dependency order, and path p of   *)
(* the worktree is the path only milestone p may change.  Every section 4  *)
(* condition that depends on the world outside the run (HEAD, branch,      *)
(* registry, governance checks) may hold or fail at each evaluation.       *)
(***************************************************************************)
EXTENDS Integers, Sequences, FiniteSets

CONSTANTS
    NumMilestones,        \* milestones in the plan
    Findings,             \* ids a review may give a blocker
    MaxFullReviews,       \* max_full_reviews
    MaxCorrectionRounds,  \* max_correction_rounds
    MaxClosureReviews,    \* max_closure_reviews
    MaxSpawnAttempts,     \* MAX_SPAWN_RETRY_ATTEMPTS
    PolicyGoverned,       \* is the record bound to a stage execution policy
    MaxCommands,          \* bound: commands an operator issues after start
    MaxEdits              \* bound: contents one path takes after its first

ASSUME PlanAssumption == NumMilestones \in Nat \ {0}
ASSUME BudgetAssumption ==
    /\ MaxFullReviews \in Nat /\ MaxCorrectionRounds \in Nat
    /\ MaxClosureReviews \in Nat /\ MaxSpawnAttempts \in Nat \ {0}
ASSUME ModeAssumption == PolicyGoverned \in BOOLEAN
ASSUME BoundAssumption == MaxCommands \in Nat /\ MaxEdits \in Nat

VARIABLES
    workflow_state,   \* RunRecord.workflow_state
    work,             \* current, completed, checkpoint, changed_paths, verification
    provider_runs,    \* RunRecord.provider_runs
    review,           \* the five counters and the blocking findings
    reopenings,       \* the reopenings ledger: what was reopened, after how many runs
    intent,           \* provider-intent.json: the fingerprint before an invocation
    worktree,         \* content version of each path
    orphans,          \* roles of providers whose runner is gone
    strays,           \* history: paths orphans changed since the final set last
                      \* passed, and since the command at work was resumed
    proc,             \* the running command, or Idle: everything volatile
    commands          \* operator commands issued since start

durable == <<work, provider_runs, review, reopenings>>
world == <<intent, worktree, orphans, strays>>
vars == <<workflow_state, durable, world, proc, commands>>

-----------------------------------------------------------------------------
Milestones == 1 .. NumMilestones
NoMilestone == 0
Unplanned == NumMilestones + 1      \* an id the plan does not carry

Roles == {"IMPLEMENTATION", "REVIEW", "CORRECTION", "CLOSURE"}
Editors == {"IMPLEMENTATION", "CORRECTION"}    \* the other two run read-only

\* The state that invokes each role, and that a provider excursion returns to.
PROVIDER_ORIGIN ==
    [r \in Roles |->
        CASE r = "IMPLEMENTATION" -> "IMPLEMENTING"
          [] r = "REVIEW"         -> "REVIEWING"
          [] r = "CORRECTION"     -> "CORRECTING"
          [] r = "CLOSURE"        -> "CLOSURE_VERIFYING"]

TERMINAL_STATES == {"DONE", "ABORTED"}
RunStatus ==
    {"IDLE", "PREFLIGHT", "IMPLEMENTING", "FOCUSED_VERIFYING", "MILESTONE_FAILED",
     "MILESTONE_COMPLETE", "FINAL_VERIFYING", "REVIEWING", "NEEDS_CORRECTION",
     "CORRECTING", "CLOSURE_VERIFYING", "PROVIDER_WAIT", "PROVIDER_RETRY_PENDING",
     "READY_FOR_COMMIT_APPROVAL", "READY_FOR_PUSH_APPROVAL",
     "HUMAN_INTERVENTION_REQUIRED", "DONE", "ABORTED"}
Live == RunStatus \ ({"IDLE", "HUMAN_INTERVENTION_REQUIRED"} \union TERMINAL_STATES)
Approvable == {"READY_FOR_COMMIT_APPROVAL", "READY_FOR_PUSH_APPROVAL", "DONE"}
Stopped == {"HUMAN_INTERVENTION_REQUIRED", "MILESTONE_FAILED"}
             \union Approvable \union TERMINAL_STATES
Invoking == {PROVIDER_ORIGIN[r] : r \in Roles}

\* The closed table of transitions.
ALLOWED_RUN_TRANSITIONS ==
    {<<"IDLE", "PREFLIGHT">>, <<"PREFLIGHT", "IMPLEMENTING">>,
     <<"IMPLEMENTING", "FOCUSED_VERIFYING">>, <<"IMPLEMENTING", "MILESTONE_FAILED">>,
     <<"FOCUSED_VERIFYING", "MILESTONE_COMPLETE">>,
     <<"FOCUSED_VERIFYING", "MILESTONE_FAILED">>,
     <<"MILESTONE_COMPLETE", "IMPLEMENTING">>,
     <<"MILESTONE_COMPLETE", "FINAL_VERIFYING">>, <<"FINAL_VERIFYING", "REVIEWING">>,
     <<"REVIEWING", "NEEDS_CORRECTION">>, <<"REVIEWING", "READY_FOR_COMMIT_APPROVAL">>,
     <<"NEEDS_CORRECTION", "CORRECTING">>, <<"CORRECTING", "CLOSURE_VERIFYING">>,
     <<"CLOSURE_VERIFYING", "READY_FOR_COMMIT_APPROVAL">>,
     <<"READY_FOR_COMMIT_APPROVAL", "READY_FOR_PUSH_APPROVAL">>,
     <<"READY_FOR_PUSH_APPROVAL", "DONE">>,
     <<"PROVIDER_WAIT", "PROVIDER_RETRY_PENDING">>,
     <<"PROVIDER_RETRY_PENDING", "PROVIDER_WAIT">>,
     <<"HUMAN_INTERVENTION_REQUIRED", "FOCUSED_VERIFYING">>,
     <<"HUMAN_INTERVENTION_REQUIRED", "IMPLEMENTING">>,
     <<"HUMAN_INTERVENTION_REQUIRED", "REVIEWING">>,
     <<"HUMAN_INTERVENTION_REQUIRED", "CLOSURE_VERIFYING">>,
     <<"MILESTONE_FAILED", "IMPLEMENTING">>}
    \union {<<s, "PROVIDER_WAIT">> : s \in Invoking}
    \union {<<"PROVIDER_WAIT", s>> : s \in Invoking}
    \union {<<s, "HUMAN_INTERVENTION_REQUIRED">> : s \in Live}
    \union {<<s, "ABORTED">> : s \in Live \union {"HUMAN_INTERVENTION_REQUIRED"}}

NoFailure == "NONE"
FailureClasses == {"SPAWN_FAILED", "OTHER"}     \* only the first is retryable

Trees == [Milestones -> 0 .. MaxEdits]
Baseline == [p \in Milestones |-> 0]
ChangedSince(tree, base) == {p \in Milestones : tree[p] # base[p]}

Idle == [pc |-> "idle", role |-> "IMPLEMENTATION", milestone |-> NoMilestone,
         todo |-> {}, resumed |-> FALSE, tries |-> 0, outcome |-> "none"]

-----------------------------------------------------------------------------
(* What the record says. *)

\* Mutated form: only the blockers of the result at hand count.
OpenForgotten == {}

Open == {f \in Findings : review.blocking[f] = "open"}
Known == {f \in Findings : review.blocking[f] # "none"}
Remaining == Milestones \ work.completed
First(ms) == CHOOSE m \in ms : \A n \in ms : m <= n
LastRun == provider_runs[Len(provider_runs)]
InFlight == Len(provider_runs) > 0 /\ ~LastRun.completed
CurrentMilestone ==
    CASE work.current \in Remaining -> work.current
      [] work.current \notin Remaining /\ Remaining # {} -> First(Remaining)
      [] OTHER -> NoMilestone

\* Mutated form: with no invocation recorded, the excursion was the review's.
ProviderOrigin_Review ==
    IF Len(provider_runs) > 0 THEN PROVIDER_ORIGIN[LastRun.role] ELSE "REVIEWING"

\* The state a PROVIDER_WAIT record is taken to have been entered from.
ProviderOrigin ==
    IF Len(provider_runs) > 0 THEN PROVIDER_ORIGIN[LastRun.role]
    ELSE IF Remaining # {} THEN "IMPLEMENTING" ELSE "REVIEWING"

\* Mutated form: changed paths are compared by name, never by content.
ReconcileRequired_ByName ==
    /\ workflow_state \in {"PROVIDER_WAIT", "IMPLEMENTING", "CORRECTING", "REVIEWING"}
    /\ InFlight
    /\ \/ ~(ChangedSince(worktree, Baseline) \subseteq work.changed_paths)
       \/ intent.sequence # LastRun.sequence

\* RunStateStore._reconcile: may the command go on from what was in flight?
ReconcileRequired ==
    /\ workflow_state \in {"PROVIDER_WAIT", "IMPLEMENTING", "CORRECTING", "REVIEWING"}
    /\ InFlight
    /\ \/ ~(ChangedSince(worktree, Baseline) \subseteq work.changed_paths)
       \/ intent.sequence # LastRun.sequence
       \/ intent.tree # worktree

\* A passing run of the final set is evidence about the tree it ran on.
VerifiedNow_Unrecorded == work
VerifiedNow == [work EXCEPT !.verified = worktree]

\* verification_results only grows: a result that did not pass stays in it.
FailedNow == [work EXCEPT !.failed = TRUE]

\* The final set, run once: it fails, or it passes on the tree as it is.
FinalSetFails == work' = FailedNow /\ UNCHANGED strays
FinalSetPasses == work' = VerifiedNow /\ strays' = [strays EXCEPT !.verified = {}]

\* Mutated form: a failure is charged to the review budget.
CountFailure_Charged == [review EXCEPT !.failures = @ + 1, !.rounds = @ + 1]
CountFailure == [review EXCEPT !.failures = @ + 1]

CountAttempt == [review EXCEPT !.attempts = @ + 1]

ReviewBudgetSpent == review.rounds >= 1

\* Mutated form: a closure result that parses clears the run.
Cleared_Always(closing) == closing \subseteq Open
Cleared(closing) == closing = Open

Publish(state) == workflow_state' = state
StopAt(state) == Publish(state) /\ proc' = Idle
Raise == proc' = [Idle EXCEPT !.outcome = "raised"] /\ UNCHANGED workflow_state

\* Where a refused boundary leaves the record: a policy-governed run that has
\* not begun stays in PREFLIGHT, every other one stops for a human.
BoundaryStop ==
    IF PolicyGoverned /\ workflow_state = "PREFLIGHT"
    THEN "PREFLIGHT" ELSE "HUMAN_INTERVENTION_REQUIRED"

-----------------------------------------------------------------------------
(* start_run and the milestone loop. *)

Init ==
    /\ workflow_state = "IDLE"
    /\ work = [current |-> NoMilestone, completed |-> {}, checkpoint |-> Baseline,
               changed_paths |-> {}, verified |-> Baseline, failed |-> FALSE]
    /\ provider_runs = <<>>
    /\ review = [attempts |-> 0, rounds |-> 0, failures |-> 0, corrections |-> 0,
                 closures |-> 0, blocking |-> [f \in Findings |-> "none"]]
    /\ reopenings = {}
    /\ intent = [sequence |-> 0, tree |-> Baseline]
    /\ worktree = Baseline /\ orphans = {}
    /\ strays = [verified |-> {}, command |-> {}]
    /\ proc = Idle /\ commands = 0

Start ==
    /\ proc.pc = "idle" /\ workflow_state = "IDLE"
    /\ Publish("PREFLIGHT")
    /\ proc' = [Idle EXCEPT !.pc = "preflight"]
    /\ UNCHANGED <<durable, world, commands>>

Preflight ==
    /\ proc.pc = "preflight"
    /\ \/ /\ proc' = [proc EXCEPT !.pc = "drive", !.todo = Remaining]
          /\ UNCHANGED workflow_state
       \/ StopAt(BoundaryStop)
    /\ UNCHANGED <<durable, world, commands>>

\* _implement_milestone up to the provider: the boundary holds.
EnterImplementing ==
    /\ proc.pc = "drive" /\ proc.todo # {}
    /\ LET m == First(proc.todo) IN
       /\ Publish("IMPLEMENTING")
       /\ work' = [work EXCEPT !.current = m]
       /\ proc' = [proc EXCEPT !.pc = "invoke", !.role = "IMPLEMENTATION",
                               !.milestone = m, !.todo = @ \ {m}, !.tries = 0]
    /\ UNCHANGED <<provider_runs, review, reopenings, world, commands>>

\* _implement_milestone, the boundary refused.  _drive returns only from a
\* stopped state, and PREFLIGHT is not one: the loop goes on.
RefuseImplementing ==
    /\ proc.pc = "drive" /\ proc.todo # {}
    /\ IF BoundaryStop \in Stopped
       THEN StopAt(BoundaryStop)
       ELSE /\ proc' = [proc EXCEPT !.todo = @ \ {First(proc.todo)}]
            /\ UNCHANGED workflow_state
    /\ UNCHANGED <<durable, world, commands>>

\* Mutated form: the hand-back never becomes the ordinary loop.
HandBack_Again == [proc EXCEPT !.todo = Remaining]
HandBack == [proc EXCEPT !.todo = Remaining, !.resumed = FALSE]

\* The end of _drive's loop; a resumed step first hands back to _drive.
LeaveLoop ==
    /\ proc.pc = "drive" /\ proc.todo = {}
    /\ \/ /\ proc.resumed
          /\ proc' = HandBack
          /\ UNCHANGED workflow_state
       \/ /\ ~proc.resumed /\ workflow_state = "MILESTONE_COMPLETE"
          /\ Publish("FINAL_VERIFYING")
          /\ proc' = [proc EXCEPT !.pc = "final"]
       \/ /\ ~proc.resumed /\ workflow_state = "PREFLIGHT"
          /\ StopAt("HUMAN_INTERVENTION_REQUIRED")
    /\ UNCHANGED <<durable, world, commands>>

\* _focus_verify_milestone.
FocusVerify ==
    /\ proc.pc = "focus"
    /\ \/ /\ StopAt("MILESTONE_FAILED")
          /\ work' = FailedNow
       \/ /\ Publish("MILESTONE_COMPLETE")
          /\ work' = [work EXCEPT !.current = NoMilestone, !.checkpoint = worktree,
                                  !.completed = @ \union {proc.milestone}]
          /\ proc' = [proc EXCEPT !.pc = "drive"]
    /\ UNCHANGED <<provider_runs, review, reopenings, world, commands>>

-----------------------------------------------------------------------------
(* Final verification, review, correction and closure, up to the provider. *)

FinalVerify ==
    /\ proc.pc = "final"
    /\ \/ /\ StopAt("HUMAN_INTERVENTION_REQUIRED")
          /\ FinalSetFails
       \/ /\ Publish("REVIEWING")
          /\ FinalSetPasses
          /\ proc' = [proc EXCEPT !.pc = "review"]
    /\ UNCHANGED <<provider_runs, review, reopenings, intent, worktree, orphans, commands>>

\* _review: the attempt is counted in the publication that enters the wait, or in
\* that of the stop where a policy-governed run finds its frozen authority changed.
BeginReview ==
    /\ proc.pc = "review"
    /\ \/ /\ StopAt("HUMAN_INTERVENTION_REQUIRED")
          /\ \/ UNCHANGED review
             \/ PolicyGoverned /\ review' = CountAttempt
       \/ /\ Publish("PROVIDER_WAIT")
          /\ review' = CountAttempt
          /\ proc' = [proc EXCEPT !.pc = "waiting", !.role = "REVIEW",
                                  !.milestone = NoMilestone, !.tries = 0]
    /\ UNCHANGED <<work, provider_runs, reopenings, world, commands>>

BeginCorrection ==
    /\ proc.pc = "correct"
    /\ \/ StopAt("HUMAN_INTERVENTION_REQUIRED")
       \/ /\ Publish("CORRECTING")
          /\ proc' = [proc EXCEPT !.pc = "invoke", !.role = "CORRECTION",
                                  !.milestone = NoMilestone, !.tries = 0]
    /\ UNCHANGED <<durable, world, commands>>

\* _verify_closure: the final set runs again before the closure provider.
BeginClosure ==
    /\ proc.pc = "closure"
    /\ \/ /\ StopAt("HUMAN_INTERVENTION_REQUIRED")
          /\ FinalSetFails \/ FinalSetPasses
       \/ /\ Publish("PROVIDER_WAIT")
          /\ FinalSetPasses
          /\ proc' = [proc EXCEPT !.pc = "waiting", !.role = "CLOSURE",
                                  !.milestone = NoMilestone, !.tries = 0]
    /\ UNCHANGED <<provider_runs, review, reopenings, intent, worktree, orphans, commands>>

-----------------------------------------------------------------------------
(* One provider invocation: _invoke_provider around ProviderInvoker.invoke. *)

\* A policy-governed run re-reads its frozen authority here and may stop.
EnterWait ==
    /\ proc.pc = "invoke"
    /\ \/ /\ Publish("PROVIDER_WAIT")
          /\ proc' = [proc EXCEPT !.pc = "waiting"]
       \/ PolicyGoverned /\ StopAt("HUMAN_INTERVENTION_REQUIRED")
    /\ UNCHANGED <<durable, world, commands>>

\* on_started, first write: the fingerprint, under the next transcript sequence.
RecordIntent ==
    /\ proc.pc = "waiting"
    /\ intent' = [sequence |-> intent.sequence + 1, tree |-> worktree]
    /\ proc' = [proc EXCEPT !.pc = "intended"]
    /\ UNCHANGED <<workflow_state, durable, worktree, orphans, strays, commands>>

\* Mutated form: the row claims its completion before there is a process.
PendingRow_Completed ==
    [role |-> proc.role, milestone |-> proc.milestone,
     sequence |-> intent.sequence, completed |-> TRUE, failure |-> NoFailure]
PendingRow ==
    [role |-> proc.role, milestone |-> proc.milestone,
     sequence |-> intent.sequence, completed |-> FALSE, failure |-> NoFailure]

\* on_started, second write: the incomplete row.
PublishPending ==
    /\ proc.pc = "intended"
    /\ provider_runs' = Append(provider_runs, PendingRow)
    /\ proc' = [proc EXCEPT !.pc = "started"]
    /\ UNCHANGED <<workflow_state, work, review, reopenings, world, commands>>

\* A ProviderError before or after on_started: no row is settled.
ProviderRefused ==
    /\ proc.pc \in {"waiting", "started"}
    /\ Publish(PROVIDER_ORIGIN[proc.role])
    /\ proc' = [proc EXCEPT !.pc = "judge", !.outcome = "refused"]
    /\ UNCHANGED <<durable, world, commands>>

Spawn ==
    /\ proc.pc = "started"
    /\ proc' = [proc EXCEPT !.pc = "spawned"]
    /\ UNCHANGED <<workflow_state, durable, world, commands>>

\* A provider writes new content to a path.
Writes(p) ==
    /\ worktree[p] < MaxEdits
    /\ worktree' = [worktree EXCEPT ![p] = @ + 1]

\* The provider being awaited changes a path.
ProviderEdits ==
    /\ proc.pc = "spawned" /\ proc.role \in Editors
    /\ \E p \in Milestones : Writes(p)
    /\ UNCHANGED <<workflow_state, durable, intent, orphans, strays, proc, commands>>

\* One left behind does: it has a session of its own, and nothing ends it.  When it
\* ends by itself nothing observes that: it only edits no more.
OrphanEdits ==
    /\ orphans \intersect Editors # {}
    /\ \E p \in Milestones :
          /\ Writes(p)
          /\ strays' = [verified |-> strays.verified \union {p},
                        command |-> strays.command \union {p}]
    /\ UNCHANGED <<workflow_state, durable, intent, orphans, proc, commands>>

Settled(failure) ==
    [provider_runs EXCEPT ![Len(provider_runs)] =
        [@ EXCEPT !.completed = TRUE, !.failure = failure]]

\* The attempt is over; its completed row replaces the pending one.
ProviderReturns ==
    /\ proc.pc = "spawned"
    /\ \E failure \in {NoFailure, "OTHER"} :
          /\ provider_runs' = Settled(failure)
          /\ proc' = [proc EXCEPT !.pc = "judge",
                         !.outcome = IF failure = NoFailure THEN "returned" ELSE "failed"]
    /\ Publish(PROVIDER_ORIGIN[proc.role])
    /\ UNCHANGED <<work, review, reopenings, world, commands>>

\* The process could not be created: retry_permitted, or the last attempt.
SpawnFails ==
    /\ proc.pc = "started"
    /\ provider_runs' = Settled("SPAWN_FAILED")
    /\ IF proc.tries + 1 < MaxSpawnAttempts
       THEN /\ Publish("PROVIDER_RETRY_PENDING")
            /\ proc' = [proc EXCEPT !.pc = "retry", !.tries = @ + 1]
       ELSE /\ Publish(PROVIDER_ORIGIN[proc.role])
            /\ proc' = [proc EXCEPT !.pc = "judge", !.outcome = "failed"]
    /\ UNCHANGED <<work, review, reopenings, world, commands>>

RetryThroughWait ==
    /\ proc.pc = "retry"
    /\ \/ /\ workflow_state = "PROVIDER_RETRY_PENDING"
          /\ Publish("PROVIDER_WAIT")
          /\ UNCHANGED proc
       \/ /\ workflow_state = "PROVIDER_WAIT"
          /\ Publish(PROVIDER_ORIGIN[proc.role])
          /\ proc' = [proc EXCEPT !.pc = "invoke"]
    /\ UNCHANGED <<durable, world, commands>>

-----------------------------------------------------------------------------
(* What each role's result means. *)

Judging(role) == proc.pc = "judge" /\ proc.role = role

\* The rest of _implement_milestone: failure, an unusable result, or the second
\* boundary, which also checks the paths changed since the last checkpoint.
JudgeImplementation ==
    /\ Judging("IMPLEMENTATION")
    /\ \/ /\ StopAt("MILESTONE_FAILED")
          /\ UNCHANGED work
       \/ /\ proc.outcome = "returned"
          /\ StopAt("HUMAN_INTERVENTION_REQUIRED")
          /\ UNCHANGED work
       \/ /\ proc.outcome = "returned"
          /\ ChangedSince(worktree, work.checkpoint) \subseteq {proc.milestone}
          /\ Publish("FOCUSED_VERIFYING")
          /\ work' = [work EXCEPT !.changed_paths = ChangedSince(worktree, Baseline)]
          /\ proc' = [proc EXCEPT !.pc = "focus"]
    /\ UNCHANGED <<provider_runs, review, reopenings, world, commands>>

\* _provider_failure: counted, charged to no budget.  A result that does not
\* parse is one too.
ProviderFailure ==
    /\ proc.pc = "judge" /\ proc.role # "IMPLEMENTATION"
    /\ StopAt("HUMAN_INTERVENTION_REQUIRED")
    /\ review' = CountFailure
    /\ UNCHANGED <<work, provider_runs, reopenings, world, commands>>

\* parse_review_result: blockers under ids of their own, and the verdict that goes
\* with them; any other answer does not parse.
ReviewResults == SUBSET Findings

\* accept_review: consume_round, then record_review, then the outcome.
JudgeReview ==
    /\ Judging("REVIEW") /\ proc.outcome = "returned"
    /\ \E blockers \in ReviewResults :
          IF review.rounds >= MaxFullReviews \/ blockers \intersect Known # {}
          THEN Raise /\ UNCHANGED review
          ELSE
            LET open == Open \union blockers IN
            /\ review' = [review EXCEPT !.rounds = @ + 1,
                            !.blocking = [f \in Findings |->
                               IF f \in blockers THEN "open" ELSE @[f]]]
            /\ IF open = {} THEN StopAt("READY_FOR_COMMIT_APPROVAL")
               ELSE IF review.corrections < MaxCorrectionRounds
               THEN /\ Publish("NEEDS_CORRECTION")
                    /\ proc' = [proc EXCEPT !.pc = "correct"]
               ELSE StopAt("HUMAN_INTERVENTION_REQUIRED")
    /\ UNCHANGED <<work, provider_runs, reopenings, world, commands>>

\* accept_correction: it closes nothing.
JudgeCorrection ==
    /\ Judging("CORRECTION") /\ proc.outcome = "returned"
    /\ IF Open = {} \/ review.corrections >= MaxCorrectionRounds
       THEN Raise /\ UNCHANGED review
       ELSE
         /\ review' = [review EXCEPT !.corrections = @ + 1]
         /\ \/ StopAt("HUMAN_INTERVENTION_REQUIRED")
            \/ /\ review.closures < MaxClosureReviews
               /\ Publish("CLOSURE_VERIFYING")
               /\ proc' = [proc EXCEPT !.pc = "closure"]
    /\ UNCHANGED <<work, provider_runs, reopenings, world, commands>>

\* parse_closure_result: rulings on open blockers; one it is silent about stays open.
ClosureResults == SUBSET Open

\* accept_closure: which of the open blockers are closed.
JudgeClosure ==
    /\ Judging("CLOSURE") /\ proc.outcome = "returned"
    /\ IF review.closures >= MaxClosureReviews
       THEN Raise /\ UNCHANGED review
       ELSE \E closing \in ClosureResults :
         /\ review' = [review EXCEPT !.closures = @ + 1,
                         !.blocking = [f \in Findings |->
                            IF f \in closing THEN "closed" ELSE @[f]]]
         /\ StopAt(IF Cleared(closing) THEN "READY_FOR_COMMIT_APPROVAL"
                   ELSE "HUMAN_INTERVENTION_REQUIRED")
    /\ UNCHANGED <<work, provider_runs, reopenings, world, commands>>

-----------------------------------------------------------------------------
(* resume. *)

Issued == proc.pc = "idle" /\ commands < MaxCommands /\ commands' = commands + 1

\* resume_run: refused outright in a stopped state, stopped where section 4 no
\* longer holds or an invocation must be reconciled, otherwise continued.
Resume ==
    /\ Issued
    /\ workflow_state \in Live \ Stopped
    /\ \/ StopAt(BoundaryStop)
       \/ /\ ReconcileRequired
          /\ StopAt("HUMAN_INTERVENTION_REQUIRED")
       \/ /\ ~ReconcileRequired
          /\ proc' = [Idle EXCEPT !.pc = "resume", !.resumed = TRUE]
          /\ UNCHANGED workflow_state
    /\ strays' = [strays EXCEPT !.command = {}]
    /\ UNCHANGED <<durable, intent, worktree, orphans>>

\* _leave_provider_excursion: back to the state taken to have invoked.
LeaveExcursion ==
    /\ proc.pc = "resume"
    /\ \/ /\ workflow_state = "PROVIDER_RETRY_PENDING"
          /\ Publish("PROVIDER_WAIT")
       \/ /\ workflow_state = "PROVIDER_WAIT"
          /\ Publish(ProviderOrigin)
    /\ UNCHANGED <<durable, world, proc, commands>>

\* _resume_from: every other state continues its own step.
ResumeStep ==
    /\ proc.pc = "resume"
    /\ LET m == CurrentMilestone
           At(pc) == proc' = [proc EXCEPT !.pc = pc] /\ UNCHANGED workflow_state
       IN
       \/ /\ workflow_state \in {"IMPLEMENTING", "FOCUSED_VERIFYING"}
          /\ m = NoMilestone
          /\ StopAt("HUMAN_INTERVENTION_REQUIRED")
       \/ /\ workflow_state = "IMPLEMENTING" /\ m # NoMilestone
          /\ proc' = [proc EXCEPT !.pc = "drive", !.todo = {m}]
          /\ UNCHANGED workflow_state
       \/ /\ workflow_state = "FOCUSED_VERIFYING" /\ m # NoMilestone
          /\ proc' = [proc EXCEPT !.pc = "focus", !.milestone = m]
          /\ UNCHANGED workflow_state
       \/ workflow_state \in {"PREFLIGHT", "MILESTONE_COMPLETE"} /\ At("drive")
       \/ workflow_state = "FINAL_VERIFYING" /\ At("final")
       \/ workflow_state = "REVIEWING" /\ At("review")
       \/ workflow_state \in {"NEEDS_CORRECTION", "CORRECTING"} /\ At("correct")
       \/ workflow_state = "CLOSURE_VERIFYING" /\ At("closure")
    /\ UNCHANGED <<durable, world, commands>>

-----------------------------------------------------------------------------
(* abort and the four recovery commands: one publication each. *)

\* What every recovery command requires and derives: it clears a stop at one of
\* the states `from`, and only what it names besides the state is changed.
Recovers(from, to) ==
    /\ Issued
    /\ workflow_state \in from
    /\ StopAt(to)

Abort ==
    /\ proc.pc = "idle"
    /\ workflow_state \in Live \union {"HUMAN_INTERVENTION_REQUIRED"}
    /\ StopAt("ABORTED")
    /\ UNCHANGED <<durable, world, commands>>

\* The result offered is the transcript itself, so the digests always match.
ReconcileMilestone ==
    /\ Recovers({"HUMAN_INTERVENTION_REQUIRED"}, "FOCUSED_VERIFYING")
    /\ work.current # NoMilestone /\ work.current \notin work.completed
    /\ \E i \in DOMAIN provider_runs :
          provider_runs[i].role = "IMPLEMENTATION"
          /\ provider_runs[i].milestone = work.current
    /\ UNCHANGED <<durable, world>>

\* The entry of the reopenings ledger.
LedgerEntry(m) == [milestone |-> m, after |-> Len(provider_runs)]

ReopenMilestone ==
    /\ Recovers({"HUMAN_INTERVENTION_REQUIRED", "MILESTONE_FAILED"}, "IMPLEMENTING")
    /\ \E m \in (Milestones \union {Unplanned}) \ work.completed :
          /\ work' = [work EXCEPT !.current = m]
          /\ reopenings' = reopenings \union {LedgerEntry(m)}
    /\ UNCHANGED <<provider_runs, review, world>>

ReviewRuns == {i \in DOMAIN provider_runs : provider_runs[i].role = "REVIEW"}

RecoverFailedReview ==
    /\ Recovers({"HUMAN_INTERVENTION_REQUIRED"}, "REVIEWING")
    /\ ReviewBudgetSpent
    /\ \E i \in ReviewRuns :
          /\ \A j \in ReviewRuns : j <= i
          /\ provider_runs[i].failure # NoFailure
    /\ review' = [review EXCEPT !.rounds = @ - 1]
    /\ UNCHANGED <<work, provider_runs, reopenings, world>>

RevalidateCorrection ==
    /\ Recovers({"HUMAN_INTERVENTION_REQUIRED"}, "CLOSURE_VERIFYING")
    /\ review.corrections >= 1
    /\ UNCHANGED <<durable, world>>

-----------------------------------------------------------------------------
\* The runner dies between two publications; its provider, of whatever role, may not.
Crash ==
    /\ proc.pc # "idle"
    /\ proc' = Idle
    /\ \/ UNCHANGED orphans
       \/ /\ proc.pc = "spawned"
          /\ orphans' = orphans \union {proc.role}
    /\ UNCHANGED <<workflow_state, durable, intent, worktree, strays, commands>>

RunnerStep ==
    \/ Preflight \/ EnterImplementing \/ RefuseImplementing \/ LeaveLoop \/ FocusVerify
    \/ FinalVerify \/ BeginReview \/ BeginCorrection \/ BeginClosure
    \/ EnterWait \/ RecordIntent \/ PublishPending \/ ProviderRefused \/ Spawn
    \/ ProviderReturns \/ SpawnFails \/ RetryThroughWait
    \/ JudgeImplementation \/ ProviderFailure \/ JudgeReview \/ JudgeCorrection
    \/ JudgeClosure \/ LeaveExcursion \/ ResumeStep

Command ==
    \/ Start \/ Resume \/ Abort \/ ReconcileMilestone \/ ReopenMilestone
    \/ RecoverFailedReview \/ RevalidateCorrection

Next == RunnerStep \/ Command \/ Crash \/ ProviderEdits \/ OrphanEdits

Spec == Init /\ [][Next]_vars

\* A command that holds the CPU goes on to its next publication, and a provider
\* is awaited under a timeout: the runner's own steps are not put off for ever.
FairSpec == Spec /\ WF_vars(RunnerStep)

-----------------------------------------------------------------------------
(* What holds of a run. *)

Pcs == {"idle", "preflight", "drive", "focus", "final", "review", "correct", "closure",
        "invoke", "waiting", "intended", "started", "spawned", "retry", "judge", "resume"}

ProcRecords ==
    [pc : Pcs, role : Roles, milestone : Milestones \union {NoMilestone},
     todo : SUBSET Milestones, resumed : BOOLEAN, tries : Nat,
     outcome : {"none", "refused", "failed", "returned", "raised"}]

WorkRecords ==
    [current : Milestones \union {NoMilestone, Unplanned}, completed : SUBSET Milestones,
     checkpoint : Trees, changed_paths : SUBSET Milestones, verified : Trees, failed : BOOLEAN]

ReviewRecords ==
    [attempts : Nat, rounds : Nat, failures : Nat, corrections : Nat, closures : Nat,
     blocking : [Findings -> {"none", "open", "closed"}]]

RunRows ==
    [role : Roles, milestone : Milestones \union {NoMilestone}, sequence : Nat,
     completed : BOOLEAN, failure : FailureClasses \union {NoFailure}]

\* Every variable has the type the durable record's model gives it; among them,
\* no counter of the record is ever negative.
TypeOK ==
    /\ workflow_state \in RunStatus
    /\ work \in WorkRecords
    /\ provider_runs \in Seq(RunRows)
    /\ review \in ReviewRecords
    /\ reopenings \subseteq [milestone : Milestones \union {Unplanned}, after : Nat]
    /\ intent \in [sequence : Nat, tree : Trees]
    /\ worktree \in Trees
    /\ orphans \subseteq Roles
    /\ strays \in [verified : SUBSET Milestones, command : SUBSET Milestones]
    /\ proc \in ProcRecords
    /\ commands \in Nat

\* A run that waits for an approval, or had one, completed every milestone of
\* its plan, has no open blocker and was ruled on by a provider: whatever
\* crashes, resumes and recovery commands came before the gate.
GateMeansReviewed ==
    workflow_state \in Approvable =>
        /\ work.completed = Milestones
        /\ \A f \in Findings : review.blocking[f] # "open"
        /\ review.rounds + review.closures > 0

\* What is approved is the tree the final verification set last passed on, but for
\* the paths a provider that outlived its runner changed since: no edit of a
\* provider the run awaited slips in between the last passing set and the gate.
GateMeansVerified ==
    workflow_state \in Approvable =>
        ChangedSince(worktree, work.verified) \subseteq strays.verified

\* Review, correction and closure are invoked only once every milestone is
\* complete, though a crash makes the next command guess the interrupted role.
ReviewCoversPlan ==
    \A i \in DOMAIN provider_runs :
        provider_runs[i].role # "IMPLEMENTATION" => work.completed = Milestones

Returned(role) ==
    Cardinality({i \in DOMAIN provider_runs :
        /\ provider_runs[i].role = role
        /\ provider_runs[i].completed /\ provider_runs[i].failure = NoFailure})

\* Every consumed round is paid by a recorded invocation of its own role that
\* returned: a provider failure spends no budget.
RoundsAreEarned ==
    /\ review.rounds <= Returned("REVIEW")
    /\ review.corrections <= Returned("CORRECTION")
    /\ review.closures <= Returned("CLOSURE")

\* While a provider process exists the record already shows it: the run is in
\* PROVIDER_WAIT, its last row is that invocation and incomplete, and the
\* fingerprint is that row's and older than every effect of the process.
DurableBeforeEffect ==
    proc.pc = "spawned" =>
        /\ workflow_state = "PROVIDER_WAIT"
        /\ InFlight /\ LastRun.role = proc.role /\ LastRun.milestone = proc.milestone
        /\ intent.sequence = LastRun.sequence
        /\ proc.role \notin Editors =>
              ChangedSince(worktree, intent.tree) \subseteq strays.command

\* The command is about to invoke again what a crash left in flight, and no operator
\* reopened a milestone since.
Repeats ==
    /\ intent' # intent /\ InFlight
    /\ LastRun.role = proc.role /\ LastRun.milestone = proc.milestone
    /\ \A r \in reopenings : r.after # Len(provider_runs)

\* An invocation of a role that edits, abandoned by a crash, is repeated only if the
\* fingerprint is its own and still describes the worktree, but for the paths that
\* providers left behind changed since the command was issued.  That exception is
\* real: such a provider may edit once resume has found the fingerprint matching, and
\* then "repeating it repeats no effect" (state.py:2775) no longer holds.
AbandonedEffectsReconciled ==
    [][Repeats /\ proc.role \in Editors
       => /\ intent.sequence = LastRun.sequence
          /\ ChangedSince(worktree, intent.tree) \subseteq strays.command]_vars

\* A command never runs for ever: bounded retries, and each step of the flow
\* leads to a stop.
CommandEnds == proc.pc # "idle" ~> proc.pc = "idle"

\* The run keeps the promise it makes to whoever approves it.
Gate ==
    CASE workflow_state \in Approvable -> "open"
      [] workflow_state = "ABORTED" -> "aborted"
      [] OTHER -> "shut"

Promise == INSTANCE RunPromise WITH
    accepted <- work.completed, blockers <- review.blocking, gate <- Gate
ImplementsPromise == Promise!Spec
=============================================================================
