----------------------------- MODULE TaskDriver -----------------------------
(***************************************************************************)
(* The two drivers of a task workflow over one session: implementer.py     *)
(* takes it from AUTHORIZED to its pull request, merge_closeout.py from    *)
(* there to DONE, with the approval of TaskApprovals between review and    *)
(* commit, and GitHub beyond the remote.                                   *)
(*                                                                         *)
(* An error a handler does not catch ends the session (Raised); a caller   *)
(* may resume.  A command may fail before its effect or after it: a driver *)
(* then sees the same failure.                                             *)
(***************************************************************************)
EXTENDS TaskSession, TaskApprovals

CONSTANTS
    Valid,                  \* contents the deterministic checks accept
    IndependentQa,          \* resolved QA policies a session may run under
    DeleteBranches,         \* delete_branch_after_merge
    MaxObservations         \* merge_check_poll_max_observations

ASSUME ValidAssumption == Valid \subseteq Trees
ASSUME DriverAssumption ==
    /\ IndependentQa \subseteq BOOLEAN /\ DeleteBranches \in BOOLEAN
    /\ MaxObservations \in Nat \ {0}

VARIABLES
    reports,    \* the write-once reports: stage, failure, QA, close-out
    remote,     \* the pushed branch and its pull request
    local       \* the running driver's locals

taskVars == <<durable, repository, session, bounds, approvalVars, reports, remote, local>>

world == <<repository, remote>>
records == <<authorized, attempts, reports>>

-----------------------------------------------------------------------------
NoChecksums == [head |-> 0, paths |-> {}, result |-> 0, gate |-> "none"]
NoLocals == [qa |-> TRUE, ok |-> FALSE, polls |-> 0, checksums |-> NoChecksums]

\* What a driver remembers is gone with its session.
Locals(new) == local' = IF mode' = "none" THEN NoLocals ELSE new
Keep == Locals(local)

\* _fail, after a report nothing reads again.
Fail == TransitionTo("FAILED", "orchestrator") /\ Keep
Advance(to) == TransitionTo(to, "orchestrator") /\ Keep
Raised == SessionEnds /\ Keep /\ UNCHANGED transitions
Continue(where) == Goto(where) /\ Keep /\ UNCHANGED transitions

\* The end of a handler whose last effect is behind it.
Forward ==
    /\ mode = "implementer" /\ pc = "forward"
    /\ Advance(ForwardState[machine])
    /\ UNCHANGED <<records, world, bounds, approvalVars>>

Surrender ==
    /\ mode # "none" /\ pc = "surrender"
    /\ Fail
    /\ UNCHANGED <<records, world, bounds, approvalVars>>

-----------------------------------------------------------------------------
(* Preconditions and the stage branch. *)

Start ==
    /\ StartSession
    /\ \E qa \in IndependentQa : local' = [NoLocals EXCEPT !.qa = qa]
    /\ UNCHANGED <<approvalVars, reports, remote>>

Authorize == RecordAuthorization /\ Keep /\ UNCHANGED <<approvalVars, reports, remote>>

Abort == Cancel /\ Keep /\ UNCHANGED <<approvalVars, reports, remote>>

\* Identity, a clean tree, ancestry.
CheckPreconditions ==
    /\ At("AUTHORIZED", "step")
    /\ \/ Clean /\ Advance("PRECONDITIONS_CHECKED")
       \/ Fail
    /\ UNCHANGED <<records, world, bounds, approvalVars>>

CreateStageBranch ==
    /\ At("PRECONDITIONS_CHECKED", "step")
    /\ \/ /\ git.planned => git.commits = <<>>
          /\ git' = [git EXCEPT !.planned = TRUE]
          /\ Continue("branch_made")
       \/ Fail /\ UNCHANGED git
    /\ UNCHANGED <<records, tree, remote, bounds, approvalVars>>

\* checkout_stage_branch refuses a dirty tree.
CheckoutStageBranch ==
    /\ At("PRECONDITIONS_CHECKED", "branch_made")
    /\ \/ /\ git.current = "stage" \/ Clean
          /\ git' = [git EXCEPT !.current = "stage"]
          /\ Continue("checked_out")
       \/ Fail /\ UNCHANGED git
    /\ UNCHANGED <<records, tree, remote, bounds, approvalVars>>

BranchReady ==
    /\ At("PRECONDITIONS_CHECKED", "checked_out")
    /\ Advance("BRANCH_CREATED")
    /\ UNCHANGED <<records, world, bounds, approvalVars>>

HandOff ==
    /\ At("BRANCH_CREATED", "step")
    /\ Advance("IMPLEMENTING")
    /\ UNCHANGED <<records, world, bounds, approvalVars>>

-----------------------------------------------------------------------------
(* Implementation and repair: reserve a number, invoke, complete, report. *)

NextNumber(c) == CompletedCount(c) + 1

\* An attempt a crash left open is completed, and its tree is judged by what
\* it changed: something goes on to validation, nothing is tried again.
ReconcileImplementation ==
    /\ At("IMPLEMENTING", "step")
    /\ HasUnreconciledAttempt("IMPLEMENTING")
    /\ IF MayComplete("IMPLEMENTING", NextNumber("IMPLEMENTING"))
       THEN /\ RecordCompleted("IMPLEMENTING", NextNumber("IMPLEMENTING"))
            /\ Continue("judge")
       ELSE Raised /\ UNCHANGED attempts
    /\ UNCHANGED <<authorized, reports, world, bounds, approvalVars>>

JudgeReconciled ==
    /\ At("IMPLEMENTING", "judge")
    /\ IF ~ Clean THEN Advance("VALIDATING")
       ELSE IF RetryAllowed("IMPLEMENTING") THEN Continue("attempt") ELSE Fail
    /\ UNCHANGED <<records, world, bounds, approvalVars>>

\* A repair whose outcome is unknown is not repeated.
AbandonRepair ==
    /\ At("REPAIRING", "step")
    /\ HasUnreconciledAttempt("REPAIRING")
    /\ Fail
    /\ UNCHANGED <<records, world, bounds, approvalVars>>

StartAttempt ==
    /\ mode = "implementer" /\ machine \in EDITING_STATES
    /\ \/ pc = "attempt"
       \/ pc = "step" /\ ~ HasUnreconciledAttempt(machine)
    /\ LET number == NextNumber(machine)
           ready == machine = "REPAIRING" => number \in reports.failure
       IN  IF ready /\ MayStart(machine, number)
           THEN RecordStarted(machine, number) /\ Continue("provider")
           ELSE Raised /\ UNCHANGED attempts
    /\ UNCHANGED <<authorized, reports, world, bounds, approvalVars>>

RunProvider ==
    /\ mode = "implementer" /\ machine \in EDITING_STATES /\ pc = "provider"
    /\ tree' \in Trees
    /\ Goto("provided") /\ UNCHANGED transitions
    /\ \E ok \in BOOLEAN : local' = [local EXCEPT !.ok = ok]
    /\ UNCHANGED <<records, git, remote, bounds, approvalVars>>

CompleteAttempt ==
    /\ mode = "implementer" /\ machine \in EDITING_STATES /\ pc = "provided"
    /\ IF MayComplete(machine, NextNumber(machine))
       THEN RecordCompleted(machine, NextNumber(machine)) /\ Continue("completed")
       ELSE Raised /\ UNCHANGED attempts
    /\ UNCHANGED <<authorized, reports, world, bounds, approvalVars>>

\* A success is reported, and so is an implementation that failed but changed
\* something.  The reports are write-once: an implementation always writes the
\* unnumbered one, a repair the one of its number.
ReportNumber == IF machine = "REPAIRING" THEN CompletedCount("REPAIRING") ELSE 0

WriteStageReport ==
    /\ mode = "implementer" /\ machine \in EDITING_STATES /\ pc = "completed"
    /\ local.ok \/ (machine = "IMPLEMENTING" /\ ~ Clean)
    /\ IF ReportNumber \in reports.stage THEN Raised /\ UNCHANGED reports
       ELSE /\ reports' = [reports EXCEPT !.stage = @ \cup {ReportNumber}]
            /\ Continue("forward")
    /\ UNCHANGED <<authorized, attempts, world, bounds, approvalVars>>

\* A failed repair ends the workflow; a failed implementation that changed
\* nothing is bounded by its attempts.
AttemptFailed ==
    /\ mode = "implementer" /\ machine \in EDITING_STATES /\ pc = "completed"
    /\ ~ local.ok
    /\ machine = "IMPLEMENTING" => Clean
    /\ IF machine = "IMPLEMENTING" /\ RetryAllowed(machine) THEN Continue("attempt") ELSE Fail
    /\ UNCHANGED <<records, world, bounds, approvalVars>>

-----------------------------------------------------------------------------
(* The two gates. *)

\* _enter_repair_or_fail: the failure report of the repair comes first.
EnterRepairOrFail ==
    IF HasUnreconciledAttempt("REPAIRING") THEN Raised /\ UNCHANGED reports
    ELSE IF RetryAllowed("REPAIRING")
    THEN /\ reports' = [reports EXCEPT !.failure = @ \cup {NextNumber("REPAIRING")}]
         /\ Continue("to_repair")
    ELSE Fail /\ UNCHANGED reports

BeginRepair ==
    /\ mode = "implementer" /\ pc = "to_repair"
    /\ Advance("REPAIRING")
    /\ UNCHANGED <<records, world, bounds, approvalVars>>

InScope == WorkingTreePaths \subseteq Allowed

\* A check may fail for a reason of its own; it passes only a valid tree.
Validate ==
    /\ At("VALIDATING", "step")
    /\ IF reports.stage = {} THEN Raised /\ UNCHANGED reports
       ELSE \/ tree \in Valid /\ InScope /\ Advance("QA_RUNNING") /\ UNCHANGED reports
            \/ Fail /\ UNCHANGED reports          \* scope, secret or security check
            \/ InScope /\ EnterRepairOrFail
    /\ UNCHANGED <<authorized, attempts, world, bounds, approvalVars>>

QaRound == NextNumber("REPAIRING")
Verdict(round) == IF round \in DOMAIN reports.qa THEN reports.qa[round] ELSE "missing"

\* Mutated form: a report of the round is not looked for.
RunQa_Again ==
    /\ At("QA_RUNNING", "step") /\ local.qa
    /\ \E verdict \in {"approved", "rejected"} :
          reports' = [reports EXCEPT !.qa =
              [r \in DOMAIN @ \cup {QaRound} |-> IF r = QaRound THEN verdict ELSE @[r]]]
    /\ Continue("step")
    /\ UNCHANGED <<authorized, attempts, world, bounds, approvalVars>>

\* Independent QA, once for each round: the report is the verdict.
RunQa ==
    /\ At("QA_RUNNING", "step")
    /\ local.qa /\ Verdict(QaRound) = "missing"
    /\ \E verdict \in {"approved", "rejected"} :
          reports' = [reports EXCEPT !.qa =
              [r \in DOMAIN @ \cup {QaRound} |-> IF r = QaRound THEN verdict ELSE @[r]]]
    /\ Continue("step")
    /\ UNCHANGED <<authorized, attempts, world, bounds, approvalVars>>

JudgeQa ==
    /\ At("QA_RUNNING", "step")
    /\ local.qa => Verdict(QaRound) # "missing"
    /\ IF local.qa /\ Verdict(QaRound) = "rejected" THEN EnterRepairOrFail
       ELSE Advance("READY_TO_COMMIT") /\ UNCHANGED reports
    /\ UNCHANGED <<authorized, attempts, world, bounds, approvalVars>>

-----------------------------------------------------------------------------
(* The approval gate before the commit. *)

LatestStageReport == CHOOSE n \in reports.stage : \A m \in reports.stage : m <= n

\* _current_approval_checksums: the diff is the sorted list of changed paths.
CurrentChecksums ==
    [head |-> Len(git.commits), paths |-> WorkingTreePaths, result |-> LatestStageReport,
     gate |-> IF local.qa THEN Verdict(QaRound) ELSE "not performed"]

GateChecksums ==
    /\ At("READY_TO_COMMIT", "step")
    /\ IF reports.stage = {} THEN Raised
       ELSE /\ Goto("gate") /\ UNCHANGED transitions
            /\ local' = [local EXCEPT !.checksums = CurrentChecksums]
    /\ UNCHANGED <<records, world, bounds, approvalVars>>

GateRequests ==
    /\ At("READY_TO_COMMIT", "gate")
    /\ approvals = <<>>
    /\ \E overlays \in Overlays :
          IF PolicyResolves(overlays)
          THEN /\ request_approval(resolve_approval_policy(overlays), local.checksums, tree)
               /\ Continue("gate")
          ELSE Raised /\ UNCHANGED approvalVars
    /\ UNCHANGED <<records, world, bounds>>

\* Mutated form: an approval still waiting for an answer passes the gate.
GateDecides_WaitsForNothing(status) ==
    CASE status \in {"APPROVED"} -> Continue("consume")
      [] status \in {"CONSUMED", "PENDING", "HUMAN_INTERVENTION_REQUIRED", "ESCALATED"} ->
            Continue("effect_start")
      [] OTHER -> Fail

\* What the handler makes of the evaluated status.  One that waits ends the
\* run; one already consumed, which a crash left behind, lets the commit by.
GateDecides(status) ==
    CASE status = "APPROVED" -> Continue("consume")
      [] status = "CONSUMED" -> Continue("effect_start")
      [] status \in {"PENDING", "HUMAN_INTERVENTION_REQUIRED", "ESCALATED"} -> Raised
      [] OTHER -> Fail

GateEvaluates ==
    /\ At("READY_TO_COMMIT", "gate")
    /\ evaluate_approval
    /\ GateDecides(Replayed(approvals'))
    /\ UNCHANGED <<records, world, bounds, deciding>>

\* consume_approval evaluates once more, compares, and then appends.
GateCompares ==
    /\ At("READY_TO_COMMIT", "consume")
    /\ IF Status # "APPROVED" THEN Raised           \* ApprovalStateError
       ELSE Continue(IF BoundChecksums = local.checksums THEN "spend" ELSE "invalidate")
    /\ UNCHANGED <<records, world, bounds, approvalVars>>

GateSpends ==
    /\ At("READY_TO_COMMIT", "spend")
    /\ append_approval_event(Event("CONSUMED", "CONSUMED"))
    /\ Continue("effect_start")
    /\ UNCHANGED <<records, world, bounds>>

GateInvalidates ==
    /\ At("READY_TO_COMMIT", "invalidate")
    /\ append_approval_event(Event("INVALIDATED", "INVALIDATED"))
    /\ Continue("surrender")
    /\ UNCHANGED <<records, world, bounds>>
=============================================================================
