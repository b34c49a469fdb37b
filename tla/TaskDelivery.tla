---------------------------- MODULE TaskDelivery ----------------------------
(***************************************************************************)
(* The rest of a task's road: the commit, the push and the pull request of *)
(* implementer.py, the merge and the close-out of merge_closeout.py, the   *)
(* commands of skills/git_github.py and skills/repository.py they run, and *)
(* the specification of the whole.                                         *)
(***************************************************************************)
EXTENDS TaskDriver

\* A command fails before its effect, works, or works and still reports failure.
Outcomes == {"failed", "worked", "worked unseen"}

-----------------------------------------------------------------------------
(* _run_idempotent_side_effect, one for each of the three operations. *)

EFFECT_STATES == {"READY_TO_COMMIT", "COMMITTED", "PUSHED"}
InEffect(where) == mode = "implementer" /\ machine \in EFFECT_STATES /\ pc = where

StartEffect ==
    /\ \/ InEffect("effect_start")
       \/ InEffect("step") /\ machine # "READY_TO_COMMIT"
    /\ LET number == NextNumber(machine)
       IN  IF number > AttemptLimit THEN Fail /\ UNCHANGED attempts
           ELSE IF MayStart(machine, number)
           THEN RecordStarted(machine, number) /\ Continue("effect")
           ELSE Raised /\ UNCHANGED attempts
    /\ UNCHANGED <<authorized, reports, world, bounds, approvalVars>>

\* What a handler sees of its command.
Sees(outcome) ==
    /\ Goto("effect_done") /\ UNCHANGED transitions
    /\ local' = [local EXCEPT !.ok = (outcome = "worked")]
    /\ UNCHANGED <<records, bounds, approvalVars>>

\* create_commit is given the head it has just read, so it stages and commits
\* whatever the tree differs by, and fails when that is nothing.
create_commit ==
    /\ InEffect("effect") /\ machine = "READY_TO_COMMIT"
    /\ \E outcome \in IF Clean THEN {"failed"} ELSE Outcomes :
          /\ git' = IF outcome = "failed" THEN git
                    ELSE [git EXCEPT !.commits = Append(@, tree)]
          /\ Sees(outcome)
    /\ UNCHANGED <<tree, remote>>

\* push_stage_branch: a remote branch already at the head is a success.
push_stage_branch ==
    /\ InEffect("effect") /\ machine = "COMMITTED"
    /\ \E outcome \in Outcomes :
          /\ remote' = IF outcome = "failed" THEN remote
                       ELSE [remote EXCEPT !.commits = git.commits]
          /\ Sees(outcome)
    /\ UNCHANGED repository

\* create_pull_request: an open pull request of the branch is reused.
create_pull_request ==
    /\ InEffect("effect") /\ machine = "PUSHED"
    /\ \E outcome \in Outcomes :
          /\ remote' = IF outcome = "failed" \/ remote.pr = "open" THEN remote
                       ELSE [remote EXCEPT !.pr = "open", !.auto = FALSE, !.checks = "pending"]
          /\ Sees(outcome)
    /\ UNCHANGED repository

CompleteEffect ==
    /\ InEffect("effect_done")
    /\ LET number == NextNumber(machine)
       IN  IF MayComplete(machine, number)
           THEN /\ RecordCompleted(machine, number)
                /\ Continue(IF local.ok THEN "forward"
                            ELSE IF number >= AttemptLimit THEN "surrender" ELSE "effect_start")
           ELSE Raised /\ UNCHANGED attempts
    /\ UNCHANGED <<authorized, reports, world, bounds, approvalVars>>

\* run_to_pr_open stops at PR_OPEN, and step has no handler beyond it.
RunEnds ==
    /\ mode = "implementer" /\ pc = "step" /\ machine \in ALLOWED_START_STATES
    /\ Raised
    /\ UNCHANGED <<records, world, bounds, approvalVars>>

-----------------------------------------------------------------------------
(* merge_closeout.py *)

Closing(state, where) == mode = "closeout" /\ machine = state /\ pc = where

\* What each reading of GitHub says, when it says anything: read_pull_request_state,
\* read_required_checks (a cancelled check has failed), verify_merge_completion.
PullRequestState == remote.pr
RequiredChecks == remote.checks
MergeCompleted == remote.pr = "merged"

\* _reconcile_pull_request found the pull request, and still the task's own.
PullRequestSeen == PullRequestState \in {"open", "merged"}

\* enable_automatic_squash_merge, which may have been enabled already.
EnableAutomaticSquashMerge == remote' = [remote EXCEPT !.auto = TRUE]

\* Mutated form: any QA report of the task makes it eligible.
MergeEligible_AnyReport ==
    /\ Took(transitions, "VALIDATING", "QA_RUNNING")
    /\ DOMAIN reports.qa = {} => ~ local.qa

\* _evaluate_merge_eligibility: validation passed, and the last QA report, if
\* there is one or one is required, approved.
MergeEligible ==
    /\ Took(transitions, "VALIDATING", "QA_RUNNING")
    /\ IF DOMAIN reports.qa = {} THEN ~ local.qa
       ELSE \E last \in DOMAIN reports.qa :
              /\ \A r \in DOMAIN reports.qa : r <= last
              /\ reports.qa[last] = "approved"

\* Any refusal, or a pull request that cannot be read, fails the task here.
EnableAutoMerge ==
    /\ Closing("PR_OPEN", "step")
    /\ \/ /\ PullRequestSeen /\ MergeEligible
          /\ IF PullRequestState = "merged" THEN Advance("AUTO_MERGE_ENABLED") /\ UNCHANGED remote
             ELSE EnableAutomaticSquashMerge /\ Continue("auto_enabled")
       \/ Fail /\ UNCHANGED remote
    /\ UNCHANGED <<records, repository, bounds, approvalVars>>

AutoMergeEnabled ==
    /\ Closing("PR_OPEN", "auto_enabled")
    /\ Advance("AUTO_MERGE_ENABLED")
    /\ UNCHANGED <<records, world, bounds, approvalVars>>

ObserveAutoMerge ==
    /\ Closing("AUTO_MERGE_ENABLED", "step")
    /\ \/ PullRequestSeen /\ Advance("WAITING_FOR_CHECKS")
       \/ Fail
    /\ UNCHANGED <<records, world, bounds, approvalVars>>

\* One observation of the polling loop that decides nothing, because nothing is
\* decided or because the reading failed for the moment, and the last one.
WaitMore ==
    /\ Closing("WAITING_FOR_CHECKS", "step")
    /\ IF local.polls + 1 < MaxObservations
       THEN /\ local' = [local EXCEPT !.polls = @ + 1]
            /\ UNCHANGED <<transitions, session>>
       ELSE Raised
    /\ UNCHANGED <<records, world, bounds, approvalVars>>

\* Mutated form: passed checks are taken for the merge.
ObserveMerge_TrustsChecks ==
    /\ Closing("WAITING_FOR_CHECKS", "step")
    /\ \/ PullRequestSeen /\ RequiredChecks = "passed" /\ Advance("MERGED")
       \/ (~ PullRequestSeen \/ RequiredChecks = "failed") /\ Fail
    /\ UNCHANGED <<records, world, bounds, approvalVars>>

\* The observation that decides.  Checks and merge are read apart from each
\* other and both must have happened; a closed pull request or a failed check
\* fails the task.
ObserveMerge ==
    /\ Closing("WAITING_FOR_CHECKS", "step")
    /\ \/ PullRequestSeen /\ RequiredChecks = "passed" /\ MergeCompleted /\ Advance("MERGED")
       \/ (~ PullRequestSeen \/ RequiredChecks = "failed") /\ Fail
    /\ UNCHANGED <<records, world, bounds, approvalVars>>

\* An error that is not worth another observation.
ObservationRefused ==
    /\ Closing("WAITING_FOR_CHECKS", "step")
    /\ Fail
    /\ UNCHANGED <<records, world, bounds, approvalVars>>

HandOffToCloseout ==
    /\ Closing("MERGED", "step")
    /\ Advance("CLOSING")
    /\ UNCHANGED <<records, world, bounds, approvalVars>>

\* A close-out report means the crash came after everything else.
AlreadyClosed ==
    /\ Closing("CLOSING", "step") /\ reports.closeout
    /\ Advance("DONE")
    /\ UNCHANGED <<records, world, bounds, approvalVars>>

\* Refused on a dirty tree unless the baseline is checked out already.
checkout_baseline ==
    \/ git.current = "baseline" /\ UNCHANGED repository
    \/ git.current = "stage" /\ Clean
          /\ git' = [git EXCEPT !.current = "baseline"] /\ tree' = Base

\* On a clean tree; a baseline that moved elsewhere diverges.
fast_forward_pull ==
    /\ Clean /\ git.baseline # "moved"
    /\ git' = [git EXCEPT !.baseline = "merged"]

\* The merge is confirmed anew, and the baseline is checked out.
CheckoutBaseline ==
    /\ Closing("CLOSING", "step") /\ ~ reports.closeout
    /\ \/ MergeCompleted /\ checkout_baseline /\ Continue("on_baseline")
       \/ Fail /\ UNCHANGED repository
    /\ UNCHANGED <<records, remote, bounds, approvalVars>>

FastForwardPull ==
    /\ Closing("CLOSING", "on_baseline")
    /\ \/ fast_forward_pull /\ Continue("pulled")
       \/ Fail /\ UNCHANGED git
    /\ UNCHANGED <<records, tree, remote, bounds, approvalVars>>

\* CloseoutAgent.close_out: the branches, if they are to be deleted (git may
\* refuse a branch it does not see merged), then the report.
DeleteBothBranches ==
    /\ Closing("CLOSING", "pulled") /\ DeleteBranches
    /\ \/ /\ git' = [git EXCEPT !.planned = FALSE, !.commits = <<>>]
          /\ remote' = [remote EXCEPT !.commits = <<>>]
          /\ Continue("cleaned")
       \/ Fail /\ UNCHANGED <<git, remote>>
    /\ UNCHANGED <<records, tree, bounds, approvalVars>>

WriteCloseoutReport ==
    /\ Closing("CLOSING", IF DeleteBranches THEN "cleaned" ELSE "pulled")
    /\ \/ /\ Clean
          /\ reports' = [reports EXCEPT !.closeout = TRUE]
          /\ Continue("closed_out")
       \/ Fail /\ UNCHANGED reports
    /\ UNCHANGED <<authorized, attempts, world, bounds, approvalVars>>

ClosedOut ==
    /\ Closing("CLOSING", "closed_out")
    /\ Advance("DONE")
    /\ UNCHANGED <<records, world, bounds, approvalVars>>

-----------------------------------------------------------------------------
(* Callers, people and GitHub. *)

Unaffected == UNCHANGED <<approvalVars, reports, remote>>

DriftOnResume == ResumeDrifts /\ Unaffected /\ UNCHANGED local

Implement ==
    /\ ResumeImplementer
    /\ \E qa \in IndependentQa : local' = [NoLocals EXCEPT !.qa = qa]
    /\ Unaffected

CloseOut ==
    /\ ResumeCloseout
    /\ \E qa \in IndependentQa : local' = [NoLocals EXCEPT !.qa = qa]
    /\ Unaffected

Die == Crash /\ Keep /\ Unaffected
Meddle == (EditTree \/ MoveBinding) /\ Unaffected /\ UNCHANGED local

\* GitHub finishes the required checks, and merges what it was asked to.
ChecksFinish ==
    /\ remote.pr \in {"open", "merged"} /\ remote.checks = "pending"
    /\ \E result \in {"passed", "failed"} : remote' = [remote EXCEPT !.checks = result]
    /\ UNCHANGED <<durable, repository, session, bounds, approvalVars, reports, local>>

AutoMerges ==
    /\ remote.pr = "open" /\ remote.auto /\ remote.checks = "passed"
    /\ remote' = [remote EXCEPT !.pr = "merged"]
    /\ UNCHANGED <<durable, repository, session, bounds, approvalVars, reports, local>>

\* A person merges or closes the pull request.
PersonSettles ==
    /\ remote.pr = "open" /\ MayMeddle
    /\ meddling' = meddling + 1
    /\ \E pr \in {"merged", "closed"} : remote' = [remote EXCEPT !.pr = pr]
    /\ UNCHANGED <<durable, repository, session, crashes, approvalVars, reports, local>>

\* Nobody reads the approval of a task that is past its gate, so what becomes of
\* it then is left out.
Others == State = "READY_TO_COMMIT" /\ (People \/ EvaluateInPassing \/ DeadlinePasses)
              /\ UNCHANGED <<durable, repository, session, bounds, reports, remote, local>>

-----------------------------------------------------------------------------
ImplementerStep ==
    \/ Authorize \/ CheckPreconditions \/ CreateStageBranch \/ CheckoutStageBranch
    \/ BranchReady \/ HandOff \/ ReconcileImplementation \/ JudgeReconciled
    \/ AbandonRepair \/ StartAttempt \/ RunProvider \/ CompleteAttempt
    \/ WriteStageReport \/ AttemptFailed \/ Validate \/ RunQa \/ JudgeQa \/ BeginRepair
    \/ GateChecksums \/ GateRequests \/ GateEvaluates \/ GateCompares \/ GateSpends
    \/ GateInvalidates \/ StartEffect \/ create_commit \/ push_stage_branch
    \/ create_pull_request \/ CompleteEffect \/ Forward \/ Surrender \/ RunEnds

CloseoutStep ==
    \/ EnableAutoMerge \/ AutoMergeEnabled \/ ObserveAutoMerge \/ WaitMore \/ ObserveMerge
    \/ ObservationRefused
    \/ HandOffToCloseout \/ AlreadyClosed \/ CheckoutBaseline \/ FastForwardPull
    \/ DeleteBothBranches \/ WriteCloseoutReport \/ ClosedOut

DriverStep == ImplementerStep \/ CloseoutStep
GitHub == ChecksFinish \/ AutoMerges

Init ==
    /\ SessionInit /\ ApprovalInit
    /\ reports = [stage |-> {}, failure |-> {}, qa |-> [r \in {} |-> "missing"],
                  closeout |-> FALSE]
    /\ remote = [commits |-> <<>>, pr |-> "none", auto |-> FALSE, checks |-> "pending"]
    /\ local = NoLocals

Next ==
    \/ Start \/ Implement \/ CloseOut \/ DriftOnResume
    \/ DriverStep
    \/ Abort \/ Die \/ Meddle \/ Others
    \/ GitHub \/ PersonSettles

\* A driver that holds the session steps; a caller comes back for a task that
\* is not at its end; what can be observed for good is one day observed, since
\* an observation only fails for a while; GitHub finishes what it was given.
Fairness ==
    /\ WF_taskVars(DriverStep)
    /\ SF_taskVars(Implement) /\ SF_taskVars(CloseOut) /\ WF_taskVars(DriftOnResume)
    /\ SF_taskVars(ObserveMerge)
    /\ WF_taskVars(GitHub)

Spec == Init /\ [][Next]_taskVars
FairSpec == Spec /\ Fairness

-----------------------------------------------------------------------------
(* Properties. *)

Checksums ==
    [head : Nat, paths : SUBSET UNION {NamesOf[c] : c \in Trees}, result : Nat,
     gate : {"approved", "rejected", "missing", "not performed", "none"}]

\* Type invariant: the record's files, the repository and the session keep to
\* the values the engine writes.
TypeOK ==
    /\ authorized \in BOOLEAN
    /\ transitions \in Seq(Transition)
    /\ attempts \in [Counters -> [started : SUBSET Nat, completed : SUBSET Nat]]
    /\ git \in [planned : BOOLEAN, commits : Seq(Contents \cup {Base}),
                current : {"baseline", "stage"}, baseline : {"bound", "moved", "merged"},
                contract : {"bound", "changed"}]
    /\ tree \in Trees
    /\ mode \in {"none", "implementer", "closeout"}
    /\ machine \in WorkflowState \ TERMINAL_STATES
    /\ \A i \in 1 .. Len(approvals) :
          i > 1 => approvals[i].kind = "EXTENDED" \/ approvals[i].status \in ApprovalStatus
    /\ overdue \in BOOLEAN
    /\ deciding \in [Deciders -> Decisions \cup {NotDeciding}]
    /\ reports.stage \subseteq 0 .. RepairLimit
    /\ reports.failure \subseteq 1 .. RepairLimit
    /\ DOMAIN reports.qa \subseteq 1 .. RepairLimit + 1
    /\ remote.pr \in {"none", "open", "closed", "merged"}
    /\ local.checksums \in Checksums
    /\ local.polls \in 0 .. MaxObservations - 1
    /\ crashes \in 0 .. MaxCrashes /\ meddling \in 0 .. MaxMeddling

\* Whatever crashes and resumes have done, the persisted transitions are a
\* history resume accepts: one chain of allowed edges from CREATED by actors
\* who may record them, ended by its only terminal state; and the machine a
\* driver decides by is the one that history replays to.
HistoryIsSound ==
    /\ HistoryIsConsistent(transitions) /\ HistoryReplays(transitions)
    /\ mode # "none" => machine = State

\* The attempt rows survive every crash within their limits: numbers without a
\* gap, never more than the limit, and at most one of them open.
AttemptsAreBounded ==
    \A c \in Counters :
        /\ StartedNumbers(c) = 1 .. Cardinality(StartedNumbers(c))
        /\ Cardinality(StartedNumbers(c)) <= Limit(c)
        /\ CompletedNumbers(c) \subseteq StartedNumbers(c)
        /\ Cardinality(StartedNumbers(c) \ CompletedNumbers(c)) <= 1

Approved(i) == i > 1 /\ approvals[i].kind = "DECIDED" /\ approvals[i].status = "APPROVED"

\* What granted it when nobody answered: the timeout's action or its fallback.
Silence(i) ==
    IF \E j \in 2 .. i : approvals[j].kind = "ESCALATED" THEN Policy.fallback ELSE Policy.timeout_action

\* A commit is made under an attempt of its own, after an approval was given
\* and then spent; given by somebody, or by a silence that the gate or the run
\* itself, and no inherited policy, declared to be consent.  While nobody else touches the repository, a task commits
\* once, however its commit command fails, and what it commits is the tree the
\* approval was requested for, which the checks accepted.
CommitsAreEarned ==
    /\ Len(git.commits) <= Cardinality(StartedNumbers("READY_TO_COMMIT"))
    /\ git.commits # <<>> => \E i, j \in 1 .. Len(approvals) :
           /\ i < j /\ Approved(i) /\ approvals[j].kind = "CONSUMED"
           /\ approvals[i].origin = "AUTO" => Silence(i).source \in {"gate", "run"}
    /\ meddling = 0 => Len(git.commits) <= 1
    /\ (git.commits # <<>> /\ meddling = 0) =>
           git.commits[1] = approvals[1].shown /\ git.commits[1] \in Valid

\* Automatic merging is asked for only a change whose last QA report approves
\* it, or which no QA ever judged.
ArmedIsReviewed ==
    remote.auto => \A r \in DOMAIN reports.qa :
        (\A q \in DOMAIN reports.qa : q <= r) => reports.qa[r] = "approved"

Absorbed == git.baseline = "merged"

Promise == INSTANCE TaskPromise WITH
    status <- State,
    spent <- Happened("CONSUMED"),
    made <- {e \in {"commit", "push", "offer", "arm", "merge", "absorb"} :
                CASE e = "commit" -> Absorbed \/ git.commits # <<>>
                  [] e = "push"   -> Absorbed \/ remote.commits # <<>>
                  [] e = "offer"  -> remote.pr # "none"
                  [] e = "arm"    -> remote.auto \/ remote.pr = "merged"
                  [] e = "merge"  -> remote.pr = "merged"
                  [] e = "absorb" -> Absorbed}

\* The drivers, with their crashes and resumes, implement the promise of
\* TaskPromise: effects in order, each in its own status, none unapproved.
KeepsPromise == Promise!PromiseSpec

\* Every session ends: no driver goes round for ever, whatever its providers,
\* gates and commands answer.
SessionsEnd == mode # "none" ~> mode = "none"

\* Once a pull request is open and its callers come back, the task reaches an
\* end, across every crash of the close-out.
PullRequestsSettle == State = "PR_OPEN" ~> State \in TERMINAL_STATES

\* An approval is consumed at most once.
ConsumedOnce == Cardinality(Consumptions) <= 1
=============================================================================
