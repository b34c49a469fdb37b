----------------------------- MODULE ApprovalGate -----------------------------
(***************************************************************************)
(* The two approval gates of a milestone run: approve-commit and           *)
(* approve-push, from the state checks to the settled approval, over a     *)
(* repository that people go on using.  Each step ends at a durable write, *)
(* a Git command or a wait; the process may die at every one of them.      *)
(* A command that refuses before it writes changes nothing and is no step. *)
(* Versions stand for the bytes and digest of a path, 0 for those of the   *)
(* baseline; positions in history stand for commit ids.  The expected      *)
(* branch stays checked out and its history is not rewritten.              *)
(***************************************************************************)
EXTENDS Naturals, Sequences, FiniteSets

CONSTANTS
    Paths,        \* repository paths
    Allowlist,    \* those the stage's contract lets a run change
    Ttl,          \* lifetime of an approval
    MaxVersion,   \* bounds the contents of a path
    MaxForeign,   \* bounds the commits made by others
    MaxClock,     \* bounds the time that passes
    MaxRows       \* bounds the approvals of one run

ASSUME PathsAssumption == Allowlist \subseteq Paths
ASSUME TtlAssumption == Ttl \in Nat \ {0}
ASSUME BoundsAssumption == {MaxVersion, MaxForeign, MaxClock, MaxRows} \subseteq Nat

VARIABLES
    workflow_state, \* RunRecord.workflow_state
    approvals,      \* RunRecord.approvals
    passed,         \* did every recorded verification result pass?
    history,        \* the commits of the branch, oldest first
    index,          \* staged content of each path
    worktree,       \* content of each path on disk
    pushes,         \* the heads the runner's push left on the remote, in order
    clock,
    proc            \* the process that runs a command

record == <<workflow_state, approvals, passed>>
repository == <<history, index, worktree, pushes>>
vars == <<record, repository, clock, proc>>

Operations == {"COMMIT", "PUSH"}
Versions == 0 .. MaxVersion
Trees == [Paths -> Versions]
Commits == [tree : Trees, by : {"runner", "others"}]

\* ApprovalRecord, with expires_at of CommitApproval; landed = 0: no
\* resulting_head_sha.
ApprovalRecords ==
    [operation : Operations, granted_at : Nat, head_sha : Nat, changed_paths : SUBSET Paths,
     digests : Trees, confirmed : BOOLEAN, started : BOOLEAN, consumed : BOOLEAN, landed : Nat]

HeadSha == Len(history)
Tree == history[HeadSha].tree

Evidence == [head_sha : Nat, changed_paths : SUBSET Paths]

\* RepositoryEvidence, as git status and rev-parse see it.
Observed ==
    [head_sha |-> HeadSha,
     changed_paths |-> {p \in Paths : worktree[p] # Tree[p] \/ index[p] # Tree[p]}]

NoEvidence == [head_sha |-> 0, changed_paths |-> {}]
NoApproval ==
    [operation |-> "COMMIT", granted_at |-> 0, head_sha |-> 0, changed_paths |-> {},
     digests |-> [p \in Paths |-> 0], confirmed |-> FALSE, started |-> FALSE,
     consumed |-> FALSE, landed |-> 0]

Idle == [pc |-> "idle", operation |-> "COMMIT", enabled |-> FALSE, moment |-> 0,
         evidence |-> NoEvidence, approval |-> NoApproval]

RequiredState(op) ==
    IF op = "COMMIT" THEN "READY_FOR_COMMIT_APPROVAL" ELSE "READY_FOR_PUSH_APPROVAL"
NextState(op) == IF op = "COMMIT" THEN "READY_FOR_PUSH_APPROVAL" ELSE "DONE"

\* unreconciled_attempt.
\* Mutated form: an interrupted act is not looked for.
Unreconciled_Never == FALSE
Unreconciled ==
    \E i \in DOMAIN approvals : approvals[i].started /\ ~approvals[i].consumed

Landings == {i \in DOMAIN approvals : /\ approvals[i].operation = "COMMIT"
                                      /\ approvals[i].consumed /\ approvals[i].landed # 0}

\* _expected_head_sha: where the last approved commit landed, or the baseline.
ExpectedHead ==
    IF Landings = {} THEN 1
    ELSE LET last == CHOOSE i \in Landings : \A j \in Landings : j <= i
         IN approvals[last].landed

-----------------------------------------------------------------------------
(* A command, step by step. *)

Init ==
    /\ workflow_state = "READY_FOR_COMMIT_APPROVAL" /\ approvals = <<>>
    /\ passed \in BOOLEAN
    /\ index = [p \in Paths |-> 0] /\ history = <<[tree |-> index, by |-> "others"]>>
    /\ worktree \in Trees
    /\ pushes = <<>> /\ clock = 0 /\ proc = Idle

\* _approve up to the prompt: state, unreconciled attempt, section 4.
Observe(op) ==
    /\ proc.pc = "idle" /\ Len(approvals) < MaxRows
    /\ workflow_state = RequiredState(op)
    /\ ~Unreconciled
    /\ Observed.head_sha = ExpectedHead
    /\ Observed.changed_paths \subseteq Allowlist
    /\ \E enabled \in BOOLEAN :
          proc' = [Idle EXCEPT !.pc = "prompt", !.operation = op, !.enabled = enabled,
                               !.moment = clock, !.evidence = Observed]
    /\ UNCHANGED <<record, repository, clock>>

\* bind_approval, once the operator answered or without a prompt.
Bind ==
    /\ proc.pc = "prompt"
    /\ \E confirmed \in BOOLEAN :
          proc' = [proc EXCEPT !.pc = "bound",
             !.approval = [NoApproval EXCEPT
                !.operation = proc.operation, !.granted_at = proc.moment,
                !.head_sha = proc.evidence.head_sha,
                !.changed_paths = proc.evidence.changed_paths,
                !.digests = [p \in Paths |-> IF p \in proc.evidence.changed_paths
                                             THEN worktree[p] ELSE 0],
                !.confirmed = confirmed]]
    /\ UNCHANGED <<record, repository, clock>>

\* _commit_vectors: nothing to commit, nothing to print.
HasVectors == proc.operation = "COMMIT" => proc.approval.changed_paths # {}

\* The shipped default: the commands are printed and the approval recorded.
PrintOnly ==
    /\ proc.pc = "bound" /\ HasVectors /\ ~proc.enabled
    /\ approvals' = Append(approvals, proc.approval)
    /\ proc' = Idle
    /\ UNCHANGED <<workflow_state, passed, repository, clock>>

\* validate_approval, on the evidence and the moment the approval was bound to.
Valid ==
    /\ proc.moment < proc.approval.granted_at + Ttl
    /\ proc.approval.head_sha = proc.evidence.head_sha
    /\ proc.approval.changed_paths = proc.evidence.changed_paths
    /\ \A p \in proc.approval.changed_paths : worktree[p] = proc.approval.digests[p]
    /\ passed

\* on_execute: the attempt is durable before the first vector.
\* Mutated form: the attempt is only noted in memory.
Attempted_InMemory(row) == approvals
Attempted(row) == Append(approvals, row)

\* execution_attempted_at.
Stamped(row) == [row EXCEPT !.started = TRUE]

Attempt ==
    /\ proc.pc = "bound" /\ HasVectors /\ proc.enabled
    /\ proc.approval.confirmed /\ Valid
    /\ LET row == Stamped(proc.approval) IN
       /\ approvals' = Attempted(row)
       /\ proc' = [proc EXCEPT !.approval = row,
                               !.pc = IF proc.operation = "COMMIT" THEN "add" ELSE "push"]
    /\ UNCHANGED <<workflow_state, passed, repository, clock>>

\* git add of the bound paths, from what is on disk by now.
Add ==
    /\ proc.pc = "add"
    /\ index' = [p \in Paths |-> IF p \in proc.approval.changed_paths
                                 THEN worktree[p] ELSE index[p]]
    /\ proc' = [proc EXCEPT !.pc = "commit"]
    /\ UNCHANGED <<record, history, worktree, pushes, clock>>

\* git commit of the whole index.
Commit ==
    /\ proc.pc = "commit" /\ index # Tree
    /\ history' = Append(history, [tree |-> index, by |-> "runner"])
    /\ proc' = [proc EXCEPT !.pc = "settle"]
    /\ UNCHANGED <<record, index, worktree, pushes, clock>>

\* git push of the branch.
Push ==
    /\ proc.pc = "push"
    /\ pushes' = Append(pushes, HeadSha)
    /\ proc' = [proc EXCEPT !.pc = "settle"]
    /\ UNCHANGED <<record, history, index, worktree, clock>>

\* landed_at: where HEAD is observed after the vectors.
\* Mutated form: where the approval was granted.
Landed_Granted == IF proc.operation = "COMMIT" THEN proc.approval.head_sha ELSE 0
Landed == IF proc.operation = "COMMIT" THEN HeadSha ELSE 0

\* The consumption replaces the row of the attempt.
Settled(row) == [approvals EXCEPT ![Len(approvals)] = row]

Settle ==
    /\ proc.pc = "settle"
    /\ approvals' = Settled([proc.approval EXCEPT !.consumed = TRUE, !.landed = Landed])
    /\ workflow_state' = NextState(proc.operation)
    /\ proc' = Idle
    /\ UNCHANGED <<passed, repository, clock>>

\* A gate refuses, a vector fails or times out, the hold is lost, the process dies.
GiveUp ==
    /\ proc.pc # "idle"
    /\ proc' = Idle
    /\ UNCHANGED <<record, repository, clock>>

Abort ==
    /\ proc.pc = "idle"
    /\ workflow_state \in {"READY_FOR_COMMIT_APPROVAL", "READY_FOR_PUSH_APPROVAL"}
    /\ workflow_state' = "ABORTED"
    /\ UNCHANGED <<approvals, passed, repository, clock, proc>>

-----------------------------------------------------------------------------
(* Everyone else who uses the repository, and time. *)

Edit ==
    /\ \E p \in Paths, v \in Versions :
          worktree[p] # v /\ worktree' = [worktree EXCEPT ![p] = v]
    /\ UNCHANGED <<record, history, index, pushes, clock, proc>>

Stage ==
    /\ \E p \in Paths :
          index[p] # worktree[p] /\ index' = [index EXCEPT ![p] = worktree[p]]
    /\ UNCHANGED <<record, history, worktree, pushes, clock, proc>>

Foreign == {i \in DOMAIN history : history[i].by = "others"}

CommitByOthers ==
    /\ index # Tree /\ Cardinality(Foreign) <= MaxForeign
    /\ history' = Append(history, [tree |-> index, by |-> "others"])
    /\ UNCHANGED <<record, index, worktree, pushes, clock, proc>>

\* The only wait without a bound is the one for the operator.
Tick ==
    /\ proc.pc = "prompt" /\ clock < MaxClock /\ clock' = clock + 1
    /\ UNCHANGED <<record, repository, proc>>

Runner ==
    \/ \E op \in Operations : Observe(op)
    \/ Bind \/ PrintOnly \/ Attempt \/ Add \/ Commit \/ Push \/ Settle

Next == Runner \/ GiveUp \/ Abort \/ Edit \/ Stage \/ CommitByOthers \/ Tick

Spec == Init /\ [][Next]_vars

-----------------------------------------------------------------------------
ProcRecords ==
    [pc : {"idle", "prompt", "bound", "add", "commit", "push", "settle"},
     operation : Operations, enabled : BOOLEAN, moment : Nat,
     evidence : Evidence, approval : ApprovalRecords]

TypeOK ==
    /\ workflow_state \in {"READY_FOR_COMMIT_APPROVAL", "READY_FOR_PUSH_APPROVAL", "DONE", "ABORTED"}
    /\ approvals \in Seq(ApprovalRecords)
    /\ passed \in BOOLEAN
    /\ history \in Seq(Commits) /\ history # <<>>
    /\ index \in Trees /\ worktree \in Trees
    /\ pushes \in Seq(Nat) /\ clock \in Nat
    /\ proc \in ProcRecords
    \* what the validators of ApprovalRecord refuse otherwise
    /\ \A i \in DOMAIN approvals :
          /\ approvals[i].consumed => approvals[i].started
          /\ approvals[i].landed # 0 => approvals[i].consumed

RunnerCommits == {i \in DOMAIN history : history[i].by = "runner"}
Begun(op) == {i \in DOMAIN approvals : approvals[i].operation = op /\ approvals[i].started}
Consumed(op) == {i \in DOMAIN approvals : approvals[i].operation = op /\ approvals[i].consumed}

\* Whatever crashes, fails or is retried, an approved act is begun once, has
\* at most one effect, and none without a durable row that says it was begun.
AtMostOnce ==
    /\ \A op \in Operations : \A i, j \in Begun(op) : i = j
    /\ \A i, j \in RunnerCommits : i = j
    /\ Len(pushes) <= 1
    /\ RunnerCommits # {} => Begun("COMMIT") # {}
    /\ pushes # <<>> => Begun("PUSH") # {}

\* The state moves on with the act only: past the commit gate the runner's
\* commit is in history at or before the place the approval says it landed,
\* and a run that is done pushed a head that holds it.
SettledMeansLanded ==
    /\ workflow_state \in {"READY_FOR_PUSH_APPROVAL", "DONE"} =>
          \E i \in Consumed("COMMIT"), c \in RunnerCommits :
              c <= approvals[i].landed /\ approvals[i].landed <= HeadSha
    /\ workflow_state = "DONE" =>
          /\ Consumed("PUSH") # {} /\ pushes # <<>>
          /\ \A c \in RunnerCommits : c <= pushes[1]

\* An act begun and never settled is never repeated: once no command runs, the
\* run can only be aborted and the runner touches neither history nor remote.
UnreconciledIsFinal ==
    [][(\E op \in Operations : Begun(op) # Consumed(op)) /\ proc.pc = "idle" =>
          /\ UNCHANGED <<approvals, pushes, proc>>
          /\ RunnerCommits' = RunnerCommits
          /\ workflow_state' \in {workflow_state, "ABORTED"}]_vars

\* The gates keep the promise of a single-use approval.
Authority ==
    [op \in Operations |->
        IF Consumed(op) # {} THEN "settled" ELSE IF Begun(op) # {} THEN "begun" ELSE "unused"]
Effected ==
    {op \in Operations : \/ op = "COMMIT" /\ RunnerCommits # {}
                         \/ op = "PUSH" /\ pushes # <<>>}

Promise == INSTANCE SingleUse WITH
    First <- "COMMIT", authority <- Authority, effected <- Effected
ImplementsSingleUse == Promise!Spec

-----------------------------------------------------------------------------
(* What the documents say of an approval and the code does not do. *)

=============================================================================
