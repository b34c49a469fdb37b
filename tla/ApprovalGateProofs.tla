-------------------------- MODULE ApprovalGateProofs --------------------------
(***************************************************************************)
(* AtMostOnce, SettledMeansLanded and ImplementsSingleUse for every set of *)
(* paths, every lifetime of an approval and every bound.                   *)
(***************************************************************************)
EXTENDS ApprovalGate, SequenceTheorems, TLAPS

Acting == {"add", "commit", "push", "settle"}

\* Where the command stands fits the state, and before the attempt nothing is open.
CommandFits ==
    /\ proc.pc # "idle" => workflow_state = RequiredState(proc.operation)
    /\ proc.pc \in {"prompt", "bound"} =>
          \A i \in DOMAIN approvals : approvals[i].started => approvals[i].consumed
    /\ proc.pc = "bound" => /\ proc.approval.operation = proc.operation
                            /\ ~proc.approval.started /\ ~proc.approval.consumed
                            /\ proc.approval.landed = 0
    /\ proc.pc \in {"add", "commit"} => proc.operation = "COMMIT"
    /\ proc.pc = "push" => proc.operation = "PUSH"

\* From the attempt on, the last row is the command's, and the only open one.
RowIsMine ==
    proc.pc \in Acting =>
        /\ approvals # <<>> /\ approvals[Len(approvals)] = proc.approval
        /\ proc.approval.operation = proc.operation
        /\ proc.approval.started /\ ~proc.approval.consumed

\* The state tells which authorities are used up.
StateFits ==
    /\ workflow_state = "READY_FOR_COMMIT_APPROVAL" =>
          Consumed("COMMIT") = {} /\ Begun("PUSH") = {}
    /\ workflow_state = "READY_FOR_PUSH_APPROVAL" =>
          Consumed("COMMIT") # {} /\ Consumed("PUSH") = {}
    /\ workflow_state = "DONE" => Consumed("COMMIT") # {} /\ Consumed("PUSH") # {}
    /\ Begun("PUSH") # {} => Consumed("COMMIT") # {}

\* The effects are those the steps so far account for.
EffectsFit ==
    /\ proc.pc \in {"add", "commit"} => RunnerCommits = {}
    /\ proc.pc = "push" => pushes = <<>>
    /\ proc.pc = "settle" /\ proc.operation = "COMMIT" => RunnerCommits # {}
    /\ proc.pc = "settle" /\ proc.operation = "PUSH" => pushes # <<>>
    /\ Consumed("PUSH") # {} => pushes # <<>>
    /\ \A c \in RunnerCommits, i \in DOMAIN pushes : c <= pushes[i]
    /\ \A i \in Consumed("COMMIT") : /\ \E c \in RunnerCommits : c <= approvals[i].landed
                                     /\ approvals[i].landed <= HeadSha

GateInv == TypeOK /\ CommandFits /\ RowIsMine /\ StateFits /\ EffectsFit /\ AtMostOnce

-----------------------------------------------------------------------------
(* Rows and commits: what the steps do to the sets the invariant speaks of. *)

\* A sequence that grows by one keeps what it had.
LEMMA Grown ==
    ASSUME NEW S, NEW s \in Seq(S), NEW e \in S
    PROVE  /\ Append(s, e) \in Seq(S) /\ Append(s, e) # <<>>
           /\ Len(Append(s, e)) = Len(s) + 1 /\ Len(s) \in Nat
           /\ DOMAIN s = 1 .. Len(s) /\ DOMAIN Append(s, e) = 1 .. Len(s) + 1
           /\ \A i \in 1 .. Len(s) : Append(s, e)[i] = s[i]
           /\ Append(s, e)[Len(s) + 1] = e
BY AppendProperties, LenProperties

\* A row is appended.
LEMMA RowAppended ==
    ASSUME TypeOK, NEW row \in ApprovalRecords, approvals' = Append(approvals, row)
    PROVE  /\ approvals' \in Seq(ApprovalRecords) /\ approvals' # <<>>
           /\ Len(approvals') = Len(approvals) + 1 /\ Len(approvals) \in Nat
           /\ DOMAIN approvals = 1 .. Len(approvals)
           /\ DOMAIN approvals' = 1 .. Len(approvals) + 1
           /\ \A i \in DOMAIN approvals : approvals'[i] = approvals[i]
           /\ approvals'[Len(approvals')] = row
           /\ \A op \in Operations :
                 /\ Begun(op)' = Begun(op) \union
                       (IF row.operation = op /\ row.started THEN {Len(approvals')} ELSE {})
                 /\ Consumed(op)' = Consumed(op) \union
                       (IF row.operation = op /\ row.consumed THEN {Len(approvals')} ELSE {})
<1>1. /\ approvals' \in Seq(ApprovalRecords) /\ approvals' # <<>>
      /\ Len(approvals') = Len(approvals) + 1 /\ Len(approvals) \in Nat
      /\ DOMAIN approvals = 1 .. Len(approvals)
      /\ DOMAIN approvals' = 1 .. Len(approvals) + 1
      /\ \A i \in DOMAIN approvals : approvals'[i] = approvals[i]
      /\ approvals'[Len(approvals')] = row
  BY Grown DEF TypeOK
<1>2. ASSUME NEW op \in Operations
      PROVE  /\ Begun(op)' = Begun(op) \union
                   (IF row.operation = op /\ row.started THEN {Len(approvals')} ELSE {})
             /\ Consumed(op)' = Consumed(op) \union
                   (IF row.operation = op /\ row.consumed THEN {Len(approvals')} ELSE {})
  BY <1>1 DEF Begun, Consumed
<1> QED BY <1>1, <1>2

\* The last row, begun and not consumed, is settled.
LEMMA RowSettled ==
    ASSUME TypeOK, approvals # <<>>, NEW row \in ApprovalRecords,
           approvals' = [approvals EXCEPT ![Len(approvals)] = row],
           row.operation = approvals[Len(approvals)].operation,
           row.started, approvals[Len(approvals)].started, row.consumed
    PROVE  /\ approvals' \in Seq(ApprovalRecords) /\ Len(approvals') = Len(approvals)
           /\ DOMAIN approvals' = DOMAIN approvals
           /\ Len(approvals) \in DOMAIN approvals
           /\ approvals'[Len(approvals)] = row
           /\ \A i \in DOMAIN approvals : i # Len(approvals) => approvals'[i] = approvals[i]
           /\ \A op \in Operations :
                 /\ Begun(op)' = Begun(op)
                 /\ Consumed(op)' = Consumed(op) \union
                       (IF row.operation = op THEN {Len(approvals)} ELSE {})
<1>1. /\ approvals \in Seq(ApprovalRecords) /\ Len(approvals) \in 1 .. Len(approvals)
      /\ DOMAIN approvals = 1 .. Len(approvals)
  BY LenProperties, EmptySeq DEF TypeOK
<1>2. /\ approvals' \in Seq(ApprovalRecords) /\ Len(approvals') = Len(approvals)
      /\ \A j \in 1 .. Len(approvals) :
            approvals'[j] = IF j = Len(approvals) THEN row ELSE approvals[j]
  BY <1>1, ExceptSeq
<1>3. DOMAIN approvals' = DOMAIN approvals
  BY <1>1
<1>4. ASSUME NEW op \in Operations
      PROVE  /\ Begun(op)' = Begun(op)
             /\ Consumed(op)' = Consumed(op) \union
                   (IF row.operation = op THEN {Len(approvals)} ELSE {})
  BY <1>1, <1>2, <1>3 DEF Begun, Consumed
<1> QED BY <1>1, <1>2, <1>3, <1>4

\* A commit is added to the branch.
LEMMA CommitAppended ==
    ASSUME TypeOK, NEW c \in Commits, history' = Append(history, c)
    PROVE  /\ history' \in Seq(Commits) /\ history' # <<>>
           /\ HeadSha' = HeadSha + 1 /\ HeadSha \in Nat
           /\ RunnerCommits \subseteq 1 .. HeadSha
           /\ RunnerCommits' = RunnerCommits \union
                 (IF c.by = "runner" THEN {HeadSha + 1} ELSE {})
<1>1. /\ history' \in Seq(Commits) /\ history' # <<>>
      /\ Len(history') = Len(history) + 1 /\ Len(history) \in Nat
      /\ DOMAIN history = 1 .. Len(history) /\ DOMAIN history' = 1 .. Len(history) + 1
      /\ \A i \in 1 .. Len(history) : history'[i] = history[i]
      /\ history'[Len(history) + 1] = c
  BY Grown DEF TypeOK
<1> QED BY <1>1 DEF RunnerCommits, HeadSha

\* The rows of a typed record.
LEMMA RowsTyped ==
    ASSUME TypeOK
    PROVE  /\ DOMAIN approvals = 1 .. Len(approvals) /\ Len(approvals) \in Nat
           /\ \A i \in DOMAIN approvals : approvals[i] \in ApprovalRecords
BY ElementOfSeq, LenProperties DEF TypeOK

\* HEAD is the newest commit.
LEMMA HeadTyped ==
    ASSUME TypeOK
    PROVE  /\ HeadSha \in Nat \ {0} /\ Tree \in Trees
           /\ RunnerCommits \subseteq 1 .. HeadSha
<1>1. history \in Seq(Commits) /\ Len(history) \in Nat \ {0} /\ DOMAIN history = 1 .. Len(history)
  BY LenProperties, EmptySeq DEF TypeOK
<1>2. history[Len(history)] \in Commits
  BY <1>1, ElementOfSeq
<1> QED BY <1>1, <1>2 DEF HeadSha, Tree, Commits, RunnerCommits

-----------------------------------------------------------------------------
(* The invariant holds at first and every step keeps it. *)

LEMMA IdleTyped == Idle \in ProcRecords /\ Idle.pc = "idle"
BY BoundsAssumption DEF Idle, ProcRecords, Operations, Evidence, NoEvidence, NoApproval, ApprovalRecords,
       Trees, Versions

LEMMA GateInit == Init => GateInv
<1> SUFFICES ASSUME Init PROVE GateInv
  OBVIOUS
<1>1. /\ approvals \in Seq(ApprovalRecords) /\ DOMAIN approvals = {}
      /\ pushes \in Seq(Nat) /\ DOMAIN pushes = {} /\ Len(pushes) = 0
  BY EmptySeq, LenProperties DEF Init
<1>2. /\ history \in Seq(Commits) /\ history # <<>> /\ DOMAIN history = {1}
      /\ history[1].by = "others"
  BY BoundsAssumption DEF Init, Commits, Trees, Versions
<1>3. TypeOK
  BY <1>1, <1>2, IdleTyped, BoundsAssumption DEF Init, TypeOK, Trees, Versions
<1>4. RunnerCommits = {}
  BY <1>2 DEF RunnerCommits
<1>5. \A op \in Operations : Begun(op) = {} /\ Consumed(op) = {}
  BY <1>1 DEF Begun, Consumed
<1>6. CommandFits /\ RowIsMine
  BY IdleTyped DEF Init, CommandFits, RowIsMine, Acting
<1>7. StateFits /\ EffectsFit /\ AtMostOnce
  BY <1>1, <1>4, <1>5, IdleTyped
     DEF Init, StateFits, EffectsFit, AtMostOnce, Operations
<1> QED BY <1>3, <1>6, <1>7 DEF GateInv

\* What is begun and not consumed in an act is the act's own last row.
LEMMA OpenIsMine ==
    ASSUME TypeOK, CommandFits, NEW op \in Operations, proc.pc \in {"prompt", "bound"}
    PROVE  Begun(op) = Consumed(op)
BY DEF CommandFits, Begun, Consumed, TypeOK

\* A step that leaves rows, state and the runner's effects alone and either
\* ends the command or leaves it where it is keeps the invariant.
LEMMA FrameKeeps ==
    ASSUME GateInv, TypeOK', UNCHANGED <<approvals, pushes, workflow_state>>,
           RunnerCommits' = RunnerCommits, HeadSha' \in Nat, HeadSha <= HeadSha',
           proc' = Idle \/ proc' = proc
    PROVE  GateInv'
<1> USE DEF GateInv
<1>1. \A op \in Operations : Begun(op)' = Begun(op) /\ Consumed(op)' = Consumed(op)
  BY DEF Begun, Consumed
<1>2. CommandFits'
  BY IdleTyped DEF CommandFits, RequiredState
<1>3. RowIsMine'
  BY IdleTyped DEF RowIsMine, Acting
<1>4. StateFits'
  BY <1>1 DEF StateFits, Operations
<1>5. AtMostOnce'
  BY DEF AtMostOnce, Begun
<1>6. EffectsFit'
  <2>1. \A i \in Consumed("COMMIT") : approvals[i].landed \in Nat
    BY RowsTyped DEF Consumed, ApprovalRecords
  <2>2. HeadSha \in Nat
    BY HeadTyped
  <2>3. \A i \in Consumed("COMMIT") : approvals[i].landed <= HeadSha'
    BY <2>1, <2>2 DEF EffectsFit
  <2> QED BY <1>1, <2>3, IdleTyped DEF EffectsFit, Operations
<1> QED BY <1>2, <1>3, <1>4, <1>5, <1>6

\* The approval a command builds is well typed.
LEMMA BoundTyped ==
    ASSUME TypeOK, proc.pc = "prompt", NEW confirmed \in BOOLEAN
    PROVE  [NoApproval EXCEPT
                !.operation = proc.operation, !.granted_at = proc.moment,
                !.head_sha = proc.evidence.head_sha,
                !.changed_paths = proc.evidence.changed_paths,
                !.digests = [p \in Paths |-> IF p \in proc.evidence.changed_paths
                                             THEN worktree[p] ELSE 0],
                !.confirmed = confirmed] \in ApprovalRecords
<1>1. [p \in Paths |-> IF p \in proc.evidence.changed_paths THEN worktree[p] ELSE 0] \in Trees
  BY BoundsAssumption DEF TypeOK, Trees, Versions
<1>2. /\ proc.operation \in Operations /\ proc.moment \in Nat
      /\ proc.evidence.head_sha \in Nat /\ proc.evidence.changed_paths \subseteq Paths
  BY DEF TypeOK, ProcRecords, Evidence
<1> QED BY <1>1, <1>2 DEF NoApproval, ApprovalRecords

\* Types, action by action.
LEMMA TypeStep == ASSUME GateInv, [Next]_vars PROVE TypeOK'
<1> USE DEF GateInv
<1>0. HeadSha \in Nat \ {0} /\ Tree \in Trees
  BY HeadTyped
<1>1. CASE UNCHANGED vars
  BY <1>1 DEF vars, record, repository, TypeOK
<1>2. ASSUME NEW op \in Operations, Observe(op) PROVE TypeOK'
  <2>1. proc' \in ProcRecords
    <3>1. Observed \in Evidence
      BY <1>0 DEF Observed, Evidence
    <3>2. clock \in Nat
      BY DEF TypeOK
    <3>3. PICK enabled \in BOOLEAN :
             proc' = [Idle EXCEPT !.pc = "prompt", !.operation = op, !.enabled = enabled,
                                  !.moment = clock, !.evidence = Observed]
      BY <1>2 DEF Observe
    <3> QED BY <3>1, <3>2, <3>3, IdleTyped DEF ProcRecords, Idle
  <2> QED BY <1>2, <2>1 DEF Observe, TypeOK, record, repository
<1>3. CASE Bind
  <2>1. proc' \in ProcRecords
    <3>1. PICK approval \in ApprovalRecords :
             proc' = [proc EXCEPT !.pc = "bound", !.approval = approval]
      BY <1>3, BoundTyped DEF Bind
    <3> QED BY <3>1 DEF TypeOK, ProcRecords
  <2> QED BY <1>3, <2>1 DEF Bind, TypeOK, record, repository
<1>4. CASE PrintOnly
  <2>1. proc.approval \in ApprovalRecords /\ ~proc.approval.consumed /\ proc.approval.landed = 0
    BY <1>4 DEF PrintOnly, TypeOK, ProcRecords, CommandFits
  <2>2. /\ approvals' \in Seq(ApprovalRecords)
        /\ DOMAIN approvals' = DOMAIN approvals \union {Len(approvals')}
        /\ \A i \in DOMAIN approvals : approvals'[i] = approvals[i]
        /\ approvals'[Len(approvals')] = proc.approval
    BY <1>4, <2>1, RowAppended DEF PrintOnly
  <2> QED BY <1>4, <2>1, <2>2, IdleTyped DEF PrintOnly, TypeOK, repository
<1>5. CASE Attempt
  <2> DEFINE row == [proc.approval EXCEPT !.started = TRUE]
  <2>1. row \in ApprovalRecords /\ ~row.consumed /\ row.landed = 0
    BY <1>5 DEF Attempt, TypeOK, ProcRecords, CommandFits, ApprovalRecords
  <2>2. /\ approvals' \in Seq(ApprovalRecords)
        /\ DOMAIN approvals' = DOMAIN approvals \union {Len(approvals')}
        /\ \A i \in DOMAIN approvals : approvals'[i] = approvals[i]
        /\ approvals'[Len(approvals')] = row
    <3>1. approvals' = Append(approvals, row)
      BY <1>5 DEF Attempt, Attempted, Stamped
    <3> HIDE DEF row
    <3> QED BY <2>1, <3>1, RowAppended
  <2>3. proc' \in ProcRecords
    <3>1. proc' = [proc EXCEPT !.approval = row,
                               !.pc = IF proc.operation = "COMMIT" THEN "add" ELSE "push"]
      BY <1>5 DEF Attempt, Stamped
    <3> HIDE DEF row
    <3> QED BY <2>1, <3>1 DEF TypeOK, ProcRecords
  <2> QED BY <1>5, <2>1, <2>2, <2>3 DEF Attempt, TypeOK, repository
<1>6. CASE Add
  <2>1. index' \in Trees
    BY <1>6 DEF Add, TypeOK, Trees
  <2>2. proc' \in ProcRecords
    BY <1>6 DEF Add, TypeOK, ProcRecords
  <2> QED BY <1>6, <2>1, <2>2 DEF Add, TypeOK, record
<1>7. CASE Commit
  <2>1. history' \in Seq(Commits) /\ history' # <<>>
    <3>1. [tree |-> index, by |-> "runner"] \in Commits
      BY DEF TypeOK, Commits
    <3> QED BY <1>7, <3>1, CommitAppended DEF Commit
  <2>2. proc' \in ProcRecords
    BY <1>7 DEF Commit, TypeOK, ProcRecords
  <2> QED BY <1>7, <2>1, <2>2 DEF Commit, TypeOK, record
<1>8. CASE Push
  <2>1. pushes' \in Seq(Nat)
    BY <1>0, <1>8, Grown DEF Push, TypeOK
  <2>2. proc' \in ProcRecords
    BY <1>8 DEF Push, TypeOK, ProcRecords
  <2> QED BY <1>8, <2>1, <2>2 DEF Push, TypeOK, record
<1>9. CASE Settle
  <2> DEFINE row == [proc.approval EXCEPT !.consumed = TRUE, !.landed = Landed]
  <2>1. row \in ApprovalRecords /\ row.started /\ row.consumed
    <3>1. Landed \in Nat
      BY <1>0 DEF Landed
    <3> QED BY <1>9, <3>1 DEF Settle, TypeOK, ProcRecords, ApprovalRecords, RowIsMine, Acting
  <2>2. /\ approvals' \in Seq(ApprovalRecords) /\ DOMAIN approvals' = DOMAIN approvals
        /\ approvals'[Len(approvals)] = row
        /\ \A i \in DOMAIN approvals : i # Len(approvals) => approvals'[i] = approvals[i]
    <3>1. /\ approvals' = [approvals EXCEPT ![Len(approvals)] = row]
          /\ row.operation = proc.approval.operation
      BY <1>9 DEF Settle, Settled, TypeOK, ProcRecords, ApprovalRecords
    <3>2. /\ approvals # <<>> /\ approvals[Len(approvals)] = proc.approval
          /\ proc.approval.started
      BY <1>9 DEF Settle, RowIsMine, Acting
    <3> HIDE DEF row
    <3> QED BY <2>1, <3>1, <3>2, RowSettled
  <2>3. workflow_state' \in {"READY_FOR_PUSH_APPROVAL", "DONE"}
    BY <1>9 DEF Settle, NextState
  <2> HIDE DEF row
  <2> QED BY <1>9, <2>1, <2>2, <2>3, IdleTyped DEF Settle, TypeOK, repository
<1>10. CASE GiveUp
  BY <1>10, IdleTyped DEF GiveUp, TypeOK, record, repository
<1>11. CASE Abort
  BY <1>11 DEF Abort, TypeOK, repository
<1>12. CASE Edit
  <2>1. worktree' \in Trees
    BY <1>12 DEF Edit, TypeOK, Trees
  <2> QED BY <1>12, <2>1 DEF Edit, TypeOK, record
<1>13. CASE Stage
  <2>1. index' \in Trees
    BY <1>13 DEF Stage, TypeOK, Trees
  <2> QED BY <1>13, <2>1 DEF Stage, TypeOK, record
<1>14. CASE CommitByOthers
  <2>1. history' \in Seq(Commits) /\ history' # <<>>
    <3>1. [tree |-> index, by |-> "others"] \in Commits
      BY DEF TypeOK, Commits
    <3> QED BY <1>14, <3>1, CommitAppended DEF CommitByOthers
  <2> QED BY <1>14, <2>1 DEF CommitByOthers, TypeOK, record
<1>15. CASE Tick
  BY <1>15 DEF Tick, TypeOK, record, repository
<1> QED BY <1>1, <1>2, <1>3, <1>4, <1>5, <1>6, <1>7, <1>8, <1>9, <1>10, <1>11, <1>12,
           <1>13, <1>14, <1>15 DEF Next, Runner

\* A step of the command before the attempt: rows, state and effects unchanged.
LEMMA EarlyKeeps ==
    ASSUME GateInv, TypeOK', UNCHANGED <<approvals, pushes, workflow_state, history>>,
           proc'.pc \in {"prompt", "bound"}, CommandFits'
    PROVE  GateInv'
<1> USE DEF GateInv
<1>1. \A op \in Operations : Begun(op)' = Begun(op) /\ Consumed(op)' = Consumed(op)
  BY DEF Begun, Consumed
<1>2. RunnerCommits' = RunnerCommits /\ HeadSha' = HeadSha
  BY DEF RunnerCommits, HeadSha
<1>3. RowIsMine'
  BY DEF RowIsMine, Acting
<1>4. StateFits'
  BY <1>1 DEF StateFits, Operations
<1>5. AtMostOnce'
  BY <1>2 DEF AtMostOnce, Begun
<1>6. EffectsFit'
  BY <1>1, <1>2 DEF EffectsFit, Operations
<1> QED BY <1>3, <1>4, <1>5, <1>6

\* Every step keeps the invariant.
LEMMA GateStep == ASSUME GateInv, [Next]_vars PROVE GateInv'
<1> USE DEF GateInv
<1>0. TypeOK' /\ HeadSha \in Nat \ {0} /\ RunnerCommits \subseteq 1 .. HeadSha
  BY TypeStep, HeadTyped
<1>1. CASE UNCHANGED vars
  <2>1. RunnerCommits' = RunnerCommits /\ HeadSha' = HeadSha
    BY <1>1 DEF vars, repository, RunnerCommits, HeadSha
  <2> QED BY <1>0, <1>1, <2>1, FrameKeeps DEF vars, record, repository
<1>2. ASSUME NEW op \in Operations, Observe(op) PROVE GateInv'
  <2>1. /\ proc'.pc = "prompt" /\ proc'.operation = op /\ workflow_state = RequiredState(op)
        /\ \A i \in DOMAIN approvals : approvals[i].started => approvals[i].consumed
        /\ UNCHANGED <<approvals, pushes, workflow_state, history>>
    BY <1>2 DEF Observe, Unreconciled, Idle, record, repository
  <2>2. CommandFits'
    BY <2>1 DEF CommandFits, RequiredState
  <2> QED BY <1>0, <2>1, <2>2, EarlyKeeps
<1>3. CASE Bind
  <2>1. UNCHANGED <<approvals, pushes, workflow_state, history>> /\ proc.pc = "prompt"
    BY <1>3 DEF Bind, record, repository
  <2>2. PICK approval \in ApprovalRecords :
           /\ proc' = [proc EXCEPT !.pc = "bound", !.approval = approval]
           /\ approval.operation = proc.operation /\ ~approval.started
           /\ ~approval.consumed /\ approval.landed = 0
    BY <1>3, BoundTyped DEF Bind, NoApproval
  <2>3. /\ proc'.pc = "bound" /\ proc'.operation = proc.operation
        /\ proc'.approval.operation = proc.operation /\ ~proc'.approval.started
        /\ ~proc'.approval.consumed /\ proc'.approval.landed = 0
    BY <2>2 DEF TypeOK, ProcRecords
  <2>4. CommandFits'
    BY <2>1, <2>3 DEF CommandFits, RequiredState
  <2> QED BY <1>0, <2>1, <2>3, <2>4, EarlyKeeps
<1>4. CASE PrintOnly
  <2>1. /\ proc.approval \in ApprovalRecords /\ ~proc.approval.consumed /\ ~proc.approval.started
        /\ proc.pc = "bound" /\ proc' = Idle /\ approvals' = Append(approvals, proc.approval)
        /\ UNCHANGED <<workflow_state, history, pushes>>
    BY <1>4 DEF PrintOnly, TypeOK, ProcRecords, CommandFits, repository
  <2>2. /\ \A op \in Operations : Begun(op)' = Begun(op) /\ Consumed(op)' = Consumed(op)
        /\ \A i \in DOMAIN approvals : approvals'[i] = approvals[i]
    BY <2>1, RowAppended
  <2>3. RunnerCommits' = RunnerCommits /\ HeadSha' = HeadSha
    BY <2>1 DEF RunnerCommits, HeadSha
  <2>4. CommandFits' /\ RowIsMine'
    BY <2>1, IdleTyped DEF CommandFits, RowIsMine, Acting
  <2>5. StateFits'
    BY <2>1, <2>2 DEF StateFits, Operations
  <2>6. AtMostOnce'
    <3>1. \A op \in Operations : \A i, j \in Begun(op)' : i = j
      BY <2>2 DEF AtMostOnce
    <3> QED BY <2>1, <2>2, <2>3, <3>1 DEF AtMostOnce, Operations
  <2>7. EffectsFit'
    <3>1. \A i \in Consumed("COMMIT") : approvals'[i] = approvals[i]
      BY <2>2 DEF Consumed
    <3> QED BY <2>1, <2>2, <2>3, <3>1, IdleTyped DEF EffectsFit, Operations
  <2> QED BY <1>0, <2>4, <2>5, <2>6, <2>7
<1>5. CASE Attempt
  <2> DEFINE row == [proc.approval EXCEPT !.started = TRUE]
  <2>1. /\ proc.pc = "bound" /\ UNCHANGED <<workflow_state, history, pushes>>
        /\ proc.operation \in Operations /\ workflow_state = RequiredState(proc.operation)
    BY <1>5 DEF Attempt, CommandFits, TypeOK, ProcRecords, repository
  <2>2. row \in ApprovalRecords /\ ~row.consumed /\ row.started /\ row.operation = proc.operation
    BY <2>1 DEF TypeOK, ProcRecords, CommandFits, ApprovalRecords
  <2>3. approvals' = Append(approvals, row)
    BY <1>5 DEF Attempt, Attempted, Stamped
  <2>4. /\ proc'.operation = proc.operation /\ proc'.approval = row
        /\ proc'.pc = (IF proc.operation = "COMMIT" THEN "add" ELSE "push")
    BY <1>5, <2>1 DEF Attempt, Stamped, TypeOK, ProcRecords
  <2> HIDE DEF row
  <2>5. /\ approvals' # <<>> /\ approvals'[Len(approvals')] = row
        /\ \A op \in Operations :
              /\ Begun(op)' = Begun(op) \union
                    (IF proc.operation = op THEN {Len(approvals')} ELSE {})
              /\ Consumed(op)' = Consumed(op)
        /\ \A i \in DOMAIN approvals : approvals'[i] = approvals[i]
    <3>1. /\ approvals' # <<>> /\ approvals'[Len(approvals')] = row
          /\ \A i \in DOMAIN approvals : approvals'[i] = approvals[i]
          /\ \A op \in Operations :
                /\ Begun(op)' = Begun(op) \union
                      (IF row.operation = op /\ row.started THEN {Len(approvals')} ELSE {})
                /\ Consumed(op)' = Consumed(op) \union
                      (IF row.operation = op /\ row.consumed THEN {Len(approvals')} ELSE {})
      BY <2>2, <2>3, RowAppended
    <3>2. ASSUME NEW op \in Operations
          PROVE  /\ Begun(op)' = Begun(op) \union
                       (IF proc.operation = op THEN {Len(approvals')} ELSE {})
                 /\ Consumed(op)' = Consumed(op)
      BY <2>2, <3>1
    <3> QED BY <3>1, <3>2
  <2>6. \A op \in Operations : Begun(op) = Consumed(op)
    BY <2>1, OpenIsMine
  <2>7. /\ Begun(proc.operation) = {}
        /\ proc.operation = "PUSH" => Consumed("COMMIT") # {}
        /\ proc.operation = "COMMIT" => Begun("PUSH") = {}
    BY <2>1, <2>6 DEF StateFits, RequiredState, Operations
  <2>8. RunnerCommits' = RunnerCommits /\ HeadSha' = HeadSha
    BY <2>1 DEF RunnerCommits, HeadSha
  <2>9. CommandFits' /\ RowIsMine'
    BY <2>1, <2>2, <2>4, <2>5 DEF CommandFits, RowIsMine, Acting, Operations, RequiredState
  <2>10. StateFits'
    BY <2>1, <2>5, <2>7 DEF StateFits, Operations, RequiredState
  <2>11. AtMostOnce'
    <3>1. \A op \in Operations : \A i, j \in Begun(op)' : i = j
      BY <2>5, <2>7 DEF AtMostOnce
    <3> QED BY <2>1, <2>5, <2>8, <3>1 DEF AtMostOnce, Operations
  <2>12. EffectsFit'
    <3>1. \A i \in Consumed("COMMIT") : approvals'[i] = approvals[i]
      BY <2>5 DEF Consumed
    <3>2. proc.operation = "COMMIT" => RunnerCommits = {}
      BY <2>7 DEF AtMostOnce
    <3>3. proc.operation = "PUSH" => pushes = <<>>
      BY <2>7 DEF AtMostOnce
    <3> QED BY <2>1, <2>4, <2>5, <2>8, <3>1, <3>2, <3>3 DEF EffectsFit, Operations
  <2> QED BY <1>0, <2>9, <2>10, <2>11, <2>12
<1>6. CASE Add
  <2>1. /\ proc.pc = "add" /\ UNCHANGED <<approvals, pushes, workflow_state, history>>
        /\ proc'.pc = "commit" /\ proc'.operation = proc.operation
        /\ proc'.approval = proc.approval
    BY <1>6 DEF Add, TypeOK, ProcRecords, record
  <2>2. /\ \A op \in Operations : Begun(op)' = Begun(op) /\ Consumed(op)' = Consumed(op)
        /\ RunnerCommits' = RunnerCommits /\ HeadSha' = HeadSha
    BY <2>1 DEF Begun, Consumed, RunnerCommits, HeadSha
  <2>3. CommandFits' /\ RowIsMine'
    BY <2>1 DEF CommandFits, RowIsMine, Acting, RequiredState
  <2>4. StateFits' /\ EffectsFit'
    BY <2>1, <2>2 DEF StateFits, EffectsFit, Operations
  <2>5. AtMostOnce'
    BY <2>1, <2>2 DEF AtMostOnce, Begun
  <2> QED BY <1>0, <2>3, <2>4, <2>5
<1>7. CASE Commit
  <2>1. /\ proc.pc = "commit" /\ proc.operation = "COMMIT" /\ RunnerCommits = {}
        /\ UNCHANGED <<approvals, pushes, workflow_state>>
        /\ proc'.pc = "settle" /\ proc'.operation = proc.operation
        /\ proc'.approval = proc.approval
        /\ history' = Append(history, [tree |-> index, by |-> "runner"])
    BY <1>7 DEF Commit, CommandFits, EffectsFit, TypeOK, ProcRecords, record
  <2>2. [tree |-> index, by |-> "runner"] \in Commits
    BY DEF TypeOK, Commits
  <2>3. RunnerCommits' = {HeadSha + 1} /\ HeadSha' = HeadSha + 1
    BY <2>1, <2>2, CommitAppended
  <2>4. \A op \in Operations : Begun(op)' = Begun(op) /\ Consumed(op)' = Consumed(op)
    BY <2>1 DEF Begun, Consumed
  <2>5. Begun("COMMIT") # {} /\ Begun("PUSH") = {} /\ Consumed("COMMIT") = {}
    <3>1. workflow_state = "READY_FOR_COMMIT_APPROVAL"
      BY <2>1 DEF CommandFits, RequiredState
    <3>2. approvals # <<>> /\ approvals[Len(approvals)].operation = "COMMIT"
          /\ approvals[Len(approvals)].started
      BY <2>1 DEF RowIsMine, Acting
    <3>3. Len(approvals) \in Begun("COMMIT")
      BY <3>2, RowsTyped, EmptySeq DEF Begun, TypeOK
    <3> QED BY <3>1, <3>3 DEF StateFits
  <2>6. CommandFits' /\ RowIsMine'
    BY <2>1 DEF CommandFits, RowIsMine, Acting, RequiredState
  <2>7. StateFits'
    BY <2>1, <2>4 DEF StateFits, Operations
  <2>8. pushes = <<>>
    BY <2>5 DEF AtMostOnce
  <2>9. AtMostOnce'
    <3>1. \A op \in Operations : \A i, j \in Begun(op)' : i = j
      BY <2>4 DEF AtMostOnce
    <3> QED BY <2>1, <2>3, <2>4, <2>5, <2>8, <3>1 DEF AtMostOnce, Operations
  <2>10. EffectsFit'
    BY <2>1, <2>3, <2>4, <2>5, <2>8 DEF EffectsFit, Operations
  <2> QED BY <1>0, <2>6, <2>7, <2>9, <2>10
<1>8. CASE Push
  <2>1. /\ proc.pc = "push" /\ proc.operation = "PUSH" /\ pushes = <<>>
        /\ UNCHANGED <<approvals, history, workflow_state>>
        /\ proc'.pc = "settle" /\ proc'.operation = proc.operation
        /\ proc'.approval = proc.approval
        /\ pushes' = <<HeadSha>>
    BY <1>8 DEF Push, CommandFits, EffectsFit, TypeOK, ProcRecords, record
  <2>2. /\ \A op \in Operations : Begun(op)' = Begun(op) /\ Consumed(op)' = Consumed(op)
        /\ RunnerCommits' = RunnerCommits /\ HeadSha' = HeadSha
    BY <2>1 DEF Begun, Consumed, RunnerCommits, HeadSha
  <2>3. CommandFits' /\ RowIsMine'
    BY <2>1 DEF CommandFits, RowIsMine, Acting, RequiredState
  <2>4. StateFits'
    BY <2>1, <2>2 DEF StateFits, Operations
  <2>5. Begun("PUSH") # {}
    <3>1. approvals # <<>> /\ approvals[Len(approvals)].operation = "PUSH"
          /\ approvals[Len(approvals)].started
      BY <2>1 DEF RowIsMine, Acting
    <3>2. Len(approvals) \in Begun("PUSH")
      BY <3>1, RowsTyped, EmptySeq DEF Begun, TypeOK
    <3> QED BY <3>2
  <2>6. AtMostOnce'
    <3>1. \A op \in Operations : \A i, j \in Begun(op)' : i = j
      BY <2>2 DEF AtMostOnce
    <3> QED BY <2>1, <2>2, <2>5, <3>1 DEF AtMostOnce, Operations
  <2>7. EffectsFit'
    <3>1. DOMAIN pushes' = {1} /\ pushes'[1] = HeadSha /\ pushes' # <<>>
      BY <1>0, <2>1
    <3>2. \A c \in RunnerCommits, i \in DOMAIN pushes' : c <= pushes'[i]
      BY <1>0, <3>1
    <3> QED BY <2>1, <2>2, <3>1, <3>2 DEF EffectsFit, Operations
  <2> QED BY <1>0, <2>3, <2>4, <2>6, <2>7
<1>9. CASE Settle
  <2> DEFINE row == [proc.approval EXCEPT !.consumed = TRUE, !.landed = Landed]
             n == Len(approvals)
  <2>1. /\ proc.pc = "settle" /\ UNCHANGED <<history, pushes>> /\ proc' = Idle
        /\ proc.operation \in Operations /\ workflow_state = RequiredState(proc.operation)
        /\ workflow_state' = NextState(proc.operation)
        /\ approvals # <<>> /\ approvals[n] = proc.approval
        /\ proc.approval.operation = proc.operation /\ proc.approval.started
        /\ ~proc.approval.consumed
    BY <1>9 DEF Settle, CommandFits, RowIsMine, Acting, TypeOK, ProcRecords, repository
  <2>2. /\ row \in ApprovalRecords /\ row.started /\ row.consumed
        /\ row.operation = proc.operation /\ row.landed = Landed
    <3>1. Landed \in Nat
      BY <1>0 DEF Landed
    <3> QED BY <2>1, <3>1 DEF TypeOK, ProcRecords, ApprovalRecords
  <2>3. approvals' = [approvals EXCEPT ![n] = row]
    BY <1>9 DEF Settle, Settled
  <2> HIDE DEF row
  <2>4. /\ n \in DOMAIN approvals /\ approvals'[n] = row
        /\ \A i \in DOMAIN approvals : i # n => approvals'[i] = approvals[i]
        /\ \A op \in Operations :
              /\ Begun(op)' = Begun(op)
              /\ Consumed(op)' = Consumed(op) \union
                    (IF row.operation = op THEN {n} ELSE {})
    BY <2>1, <2>2, <2>3, RowSettled
  <2>5. \A op \in Operations :
           Consumed(op)' = Consumed(op) \union (IF proc.operation = op THEN {n} ELSE {})
    BY <2>2, <2>4
  <2>6. RunnerCommits' = RunnerCommits /\ HeadSha' = HeadSha
    BY <2>1 DEF RunnerCommits, HeadSha
  <2>7. CommandFits' /\ RowIsMine'
    BY <2>1, IdleTyped DEF CommandFits, RowIsMine, Acting
  <2>8. StateFits'
    <3>1. Consumed("PUSH") \subseteq Begun("PUSH")
      BY DEF TypeOK, Consumed, Begun
    <3>2. CASE proc.operation = "COMMIT"
      <4>1. /\ workflow_state = "READY_FOR_COMMIT_APPROVAL"
            /\ workflow_state' = "READY_FOR_PUSH_APPROVAL"
        BY <2>1, <3>2 DEF RequiredState, NextState
      <4>2. Consumed("COMMIT")' # {} /\ Consumed("PUSH")' = Consumed("PUSH")
        BY <2>5, <3>2 DEF Operations
      <4> QED BY <3>1, <4>1, <4>2 DEF StateFits
    <3>3. CASE proc.operation = "PUSH"
      <4>1. /\ workflow_state = "READY_FOR_PUSH_APPROVAL" /\ workflow_state' = "DONE"
        BY <2>1, <3>3 DEF RequiredState, NextState
      <4>2. Consumed("PUSH")' # {} /\ Consumed("COMMIT")' = Consumed("COMMIT")
        BY <2>5, <3>3 DEF Operations
      <4> QED BY <4>1, <4>2 DEF StateFits
    <3> QED BY <2>1, <3>2, <3>3 DEF Operations
  <2>9. AtMostOnce'
    <3>1. \A op \in Operations : \A i, j \in Begun(op)' : i = j
      BY <2>4 DEF AtMostOnce
    <3> QED BY <2>1, <2>4, <2>6, <3>1 DEF AtMostOnce, Operations
  <2>10. EffectsFit'
    <3>1. \A i \in Consumed("COMMIT") : approvals'[i] = approvals[i]
      BY <2>1, <2>4 DEF Consumed
    <3>2. proc.operation = "COMMIT" =>
             /\ approvals'[n].landed = HeadSha
             /\ \E c \in RunnerCommits : c <= approvals'[n].landed
      <4>1. SUFFICES ASSUME proc.operation = "COMMIT"
                     PROVE  /\ approvals'[n].landed = HeadSha
                            /\ \E c \in RunnerCommits : c <= approvals'[n].landed
        OBVIOUS
      <4>2. approvals'[n].landed = HeadSha
        BY <2>2, <2>4, <4>1 DEF Landed
      <4>3. PICK c \in RunnerCommits : TRUE
        BY <2>1, <4>1 DEF EffectsFit
      <4> QED BY <1>0, <4>2, <4>3
    <3>3. \A i \in Consumed("COMMIT")' :
             /\ \E c \in RunnerCommits : c <= approvals'[i].landed
             /\ approvals'[i].landed <= HeadSha
      <4>1. ASSUME NEW i \in Consumed("COMMIT")
            PROVE  /\ \E c \in RunnerCommits : c <= approvals'[i].landed
                   /\ approvals'[i].landed <= HeadSha
        BY <3>1 DEF EffectsFit
      <4>2. \/ Consumed("COMMIT")' = Consumed("COMMIT")
            \/ /\ proc.operation = "COMMIT"
               /\ Consumed("COMMIT")' = Consumed("COMMIT") \union {n}
        BY <2>5 DEF Operations
      <4>3. HeadSha <= HeadSha
        BY <1>0
      <4> HIDE DEF n
      <4> QED BY <3>2, <4>1, <4>2, <4>3
    <3>4. Consumed("PUSH")' # {} => pushes # <<>>
      BY <2>1, <2>5 DEF EffectsFit, Operations
    <3> QED BY <2>1, <2>6, <3>3, <3>4, IdleTyped DEF EffectsFit
  <2> QED BY <1>0, <2>7, <2>8, <2>9, <2>10
<1>10. CASE Abort
  <2>1. /\ UNCHANGED <<approvals, pushes, history, proc>> /\ proc.pc = "idle"
        /\ workflow_state' = "ABORTED"
    BY <1>10 DEF Abort, repository
  <2>2. /\ \A op \in Operations : Begun(op)' = Begun(op) /\ Consumed(op)' = Consumed(op)
        /\ RunnerCommits' = RunnerCommits /\ HeadSha' = HeadSha
    BY <2>1 DEF Begun, Consumed, RunnerCommits, HeadSha
  <2>3. CommandFits' /\ RowIsMine' /\ StateFits' /\ EffectsFit'
    BY <2>1, <2>2 DEF CommandFits, RowIsMine, Acting, StateFits, EffectsFit, Operations
  <2>4. AtMostOnce'
    BY <2>1, <2>2 DEF AtMostOnce, Begun
  <2> QED BY <1>0, <2>3, <2>4
<1>11. CASE GiveUp \/ Edit \/ Stage \/ Tick
  <2>1. /\ UNCHANGED <<approvals, pushes, workflow_state, history>>
        /\ proc' = Idle \/ proc' = proc
    BY <1>11 DEF GiveUp, Edit, Stage, Tick, record, repository
  <2>2. RunnerCommits' = RunnerCommits /\ HeadSha' = HeadSha
    BY <2>1 DEF RunnerCommits, HeadSha
  <2> QED BY <1>0, <2>1, <2>2, FrameKeeps
<1>12. CASE CommitByOthers
  <2>1. /\ UNCHANGED <<approvals, pushes, workflow_state>> /\ proc' = proc
        /\ history' = Append(history, [tree |-> index, by |-> "others"])
    BY <1>12 DEF CommitByOthers, record
  <2>2. [tree |-> index, by |-> "others"] \in Commits
    BY DEF TypeOK, Commits
  <2>3. RunnerCommits' = RunnerCommits /\ HeadSha' = HeadSha + 1
    BY <2>1, <2>2, CommitAppended
  <2> QED BY <1>0, <2>1, <2>3, FrameKeeps
<1> QED BY <1>1, <1>2, <1>3, <1>4, <1>5, <1>6, <1>7, <1>8, <1>9, <1>10, <1>11, <1>12
        DEF Next, Runner

-----------------------------------------------------------------------------
(* The theorems. *)

LEMMA GateInvariant == Spec => []GateInv
BY GateInit, GateStep, PTL DEF Spec

\* Every variable of the gates keeps its type, and every row is one that the
\* validators of ApprovalRecord accept.
THEOREM GateTyped == Spec => []TypeOK
<1>1. GateInv => TypeOK
  BY DEF GateInv
<1> QED BY <1>1, GateInvariant, PTL

\* An approved act is begun once and has at most one effect, none without its
\* durable row, whatever crashes and whoever else uses the repository.
THEOREM EffectsOnce == Spec => []AtMostOnce
<1>1. GateInv => AtMostOnce
  BY DEF GateInv
<1> QED BY <1>1, GateInvariant, PTL

\* The run passes a gate only with the act it is about.
THEOREM GatesMeanLanded == Spec => []SettledMeansLanded
<1>1. ASSUME GateInv PROVE SettledMeansLanded
  <2> USE <1>1 DEF GateInv
  <2>1. pushes # <<>> => 1 \in DOMAIN pushes
    BY LenProperties, EmptySeq DEF TypeOK
  <2> QED BY <2>1 DEF SettledMeansLanded, StateFits, EffectsFit
<1> QED BY <1>1, GateInvariant, PTL

\* Without a command, an open act stops every step of the runner but abort.
LEMMA OpenStops ==
    ASSUME GateInv, [Next]_vars, proc.pc = "idle",
           NEW op \in Operations, Begun(op) # Consumed(op)
    PROVE  /\ UNCHANGED <<approvals, pushes, proc>> /\ RunnerCommits' = RunnerCommits
           /\ workflow_state' \in {workflow_state, "ABORTED"}
<1> USE DEF GateInv
<1>1. Unreconciled
  BY DEF Begun, Consumed, TypeOK, Unreconciled
<1>2. CASE CommitByOthers
  <2>1. /\ history' = Append(history, [tree |-> index, by |-> "others"])
        /\ [tree |-> index, by |-> "others"] \in Commits
    BY <1>2 DEF CommitByOthers, TypeOK, Commits
  <2>2. RunnerCommits' = RunnerCommits
    BY <2>1, CommitAppended
  <2> QED BY <1>2, <2>2 DEF CommitByOthers, record
<1>3. CASE UNCHANGED vars \/ Abort \/ Edit \/ Stage \/ Tick
  <2>1. UNCHANGED <<approvals, pushes, proc, history>>
    BY <1>3 DEF vars, record, repository, Abort, Edit, Stage, Tick
  <2>2. workflow_state' \in {workflow_state, "ABORTED"}
    BY <1>3 DEF vars, record, Abort, Edit, Stage, Tick
  <2> QED BY <2>1, <2>2 DEF RunnerCommits
<1> QED BY <1>1, <1>2, <1>3
        DEF Next, Runner, Observe, Bind, PrintOnly, Attempt, Add, Commit, Push, Settle, GiveUp

\* An act begun and never settled is never repeated.
THEOREM OpenIsFinal == Spec => UnreconciledIsFinal
<1>1. ASSUME GateInv, [Next]_vars
      PROVE  [(\E op \in Operations : Begun(op) # Consumed(op)) /\ proc.pc = "idle" =>
                 /\ UNCHANGED <<approvals, pushes, proc>>
                 /\ RunnerCommits' = RunnerCommits
                 /\ workflow_state' \in {workflow_state, "ABORTED"}]_vars
  BY <1>1, OpenStops
<1> QED BY <1>1, GateInvariant, PTL DEF Spec, UnreconciledIsFinal

-----------------------------------------------------------------------------
(* The gates implement SingleUse. *)

\* Where neither rows nor the runner's effects change, the promise stutters.
LEMMA PromiseStutters ==
    ASSUME \A op \in Operations : Begun(op)' = Begun(op) /\ Consumed(op)' = Consumed(op),
           RunnerCommits' = RunnerCommits, UNCHANGED pushes
    PROVE  UNCHANGED Promise!vars
<1>1. Authority' = Authority
  BY DEF Authority
<1>2. Effected' = Effected
  BY DEF Effected
<1> QED BY <1>1, <1>2 DEF Promise!vars

\* The authority of the act a command carries out is begun and not settled.
LEMMA MineIsBegun ==
    ASSUME GateInv, proc.pc \in Acting
    PROVE  Authority[proc.operation] = "begun"
<1> USE DEF GateInv
<1> DEFINE op == proc.operation
           n == Len(approvals)
<1>1. op \in Operations /\ workflow_state = RequiredState(op)
  BY DEF CommandFits, TypeOK, ProcRecords, Acting
<1>2. n \in DOMAIN approvals
  BY RowsTyped, EmptySeq DEF RowIsMine, TypeOK
<1>3. n \in Begun(op)
  BY <1>2 DEF RowIsMine, Begun
<1>4. Consumed(op) = {}
  BY <1>1 DEF StateFits, RequiredState, Operations
<1> QED BY <1>1, <1>3, <1>4 DEF Authority

\* Every step that changes rows or effects is one of Begin, CarryOut, Settle.
LEMMA PromiseStep ==
    ASSUME GateInv, [Next]_vars
    PROVE  [Promise!Next]_(Promise!vars)
<1> USE DEF GateInv
<1>0. HeadSha \in Nat \ {0}
  BY HeadTyped
<1>1. CASE UNCHANGED <<approvals, history, pushes>>
  BY <1>1, PromiseStutters DEF Begun, Consumed, RunnerCommits
<1>2. CASE PrintOnly
  <2>1. /\ proc.approval \in ApprovalRecords /\ ~proc.approval.consumed /\ ~proc.approval.started
        /\ approvals' = Append(approvals, proc.approval) /\ UNCHANGED <<history, pushes>>
    BY <1>2 DEF PrintOnly, TypeOK, ProcRecords, CommandFits, repository
  <2>2. \A op \in Operations : Begun(op)' = Begun(op) /\ Consumed(op)' = Consumed(op)
    BY <2>1, RowAppended
  <2> QED BY <2>1, <2>2, PromiseStutters DEF RunnerCommits
<1>3. CASE CommitByOthers
  <2>1. /\ UNCHANGED <<approvals, pushes>>
        /\ history' = Append(history, [tree |-> index, by |-> "others"])
        /\ [tree |-> index, by |-> "others"] \in Commits
    BY <1>3 DEF CommitByOthers, record, TypeOK, Commits
  <2>2. RunnerCommits' = RunnerCommits
    BY <2>1, CommitAppended
  <2> QED BY <2>1, <2>2, PromiseStutters DEF Begun, Consumed
<1>4. CASE Attempt
  <2> DEFINE row == [proc.approval EXCEPT !.started = TRUE]
             n == Len(approvals')
  <2>1. /\ proc.pc = "bound" /\ UNCHANGED <<history, pushes>>
        /\ proc.operation \in Operations /\ workflow_state = RequiredState(proc.operation)
        /\ approvals' = Append(approvals, row)
    BY <1>4 DEF Attempt, Attempted, Stamped, CommandFits, TypeOK, ProcRecords, repository
  <2>2. row \in ApprovalRecords /\ ~row.consumed /\ row.started /\ row.operation = proc.operation
    BY <2>1 DEF TypeOK, ProcRecords, CommandFits, ApprovalRecords
  <2> HIDE DEF row
  <2>3. \A op \in Operations :
           /\ Begun(op)' = Begun(op) \union (IF row.operation = op /\ row.started THEN {n} ELSE {})
           /\ Consumed(op)' = Consumed(op) \union
                 (IF row.operation = op /\ row.consumed THEN {n} ELSE {})
    BY <2>1, <2>2, RowAppended
  <2> HIDE DEF n
  <2>4. PICK op \in Operations : op = proc.operation
    BY <2>1
  <2>5. /\ Begun(op)' # {} /\ \A o \in Operations : Consumed(o)' = Consumed(o)
        /\ \A o \in Operations : o # op => Begun(o)' = Begun(o)
    <3>1. ASSUME NEW o \in Operations
          PROVE  Consumed(o)' = Consumed(o)
      BY <2>2, <2>3
    <3>2. ASSUME NEW o \in Operations
          PROVE  Begun(o)' = Begun(o) \union (IF o = op THEN {n} ELSE {})
      BY <2>2, <2>3, <2>4
    <3> QED BY <3>1, <3>2
  <2>6. \A o \in Operations : Begun(o) = Consumed(o)
    BY <2>1, OpenIsMine
  <2>7. Begun(op) = {} /\ Consumed(op) = {} /\ (op = "PUSH" => Consumed("COMMIT") # {})
    BY <2>1, <2>4, <2>6 DEF StateFits, RequiredState, Operations
  <2>8. Authority[op] = "unused" /\ \A o \in Operations : Authority[o] # "begun"
    BY <2>6, <2>7 DEF Authority
  <2>9. op # "COMMIT" => Authority["COMMIT"] = "settled"
    BY <2>7 DEF Authority, Operations
  <2>10. Authority' = [Authority EXCEPT ![op] = "begun"]
    BY <2>5, <2>7 DEF Authority
  <2>11. Effected' = Effected
    BY <2>1 DEF Effected, RunnerCommits
  <2> QED BY <2>8, <2>9, <2>10, <2>11 DEF Promise!Next, Promise!Begin
<1>5. CASE Commit
  <2>1. /\ proc.pc = "commit" /\ proc.operation = "COMMIT" /\ RunnerCommits = {}
        /\ UNCHANGED <<approvals, pushes>>
        /\ history' = Append(history, [tree |-> index, by |-> "runner"])
        /\ [tree |-> index, by |-> "runner"] \in Commits
    BY <1>5 DEF Commit, CommandFits, EffectsFit, TypeOK, record, Commits
  <2>2. RunnerCommits' # {}
    BY <2>1, CommitAppended
  <2>3. Authority["COMMIT"] = "begun"
    BY <2>1, MineIsBegun DEF Acting
  <2>4. Authority' = Authority
    BY <2>1 DEF Authority, Begun, Consumed
  <2>5. "COMMIT" \in Operations /\ "COMMIT" \notin Effected
        /\ Effected' = Effected \union {"COMMIT"}
    BY <2>1, <2>2 DEF Effected, Operations
  <2> QED BY <2>3, <2>4, <2>5 DEF Promise!Next, Promise!CarryOut
<1>6. CASE Push
  <2>1. /\ proc.pc = "push" /\ proc.operation = "PUSH" /\ pushes = <<>>
        /\ UNCHANGED <<approvals, history>> /\ pushes' = <<HeadSha>>
    BY <1>6 DEF Push, CommandFits, EffectsFit, record
  <2>2. pushes' # <<>>
    BY <2>1
  <2>3. Authority["PUSH"] = "begun"
    BY <2>1, MineIsBegun DEF Acting
  <2>4. Authority' = Authority
    BY <2>1 DEF Authority, Begun, Consumed
  <2>5. "PUSH" \in Operations /\ "PUSH" \notin Effected
        /\ Effected' = Effected \union {"PUSH"}
    BY <2>1, <2>2 DEF Effected, Operations, RunnerCommits
  <2> QED BY <2>3, <2>4, <2>5 DEF Promise!Next, Promise!CarryOut
<1>7. CASE Settle
  <2> DEFINE row == [proc.approval EXCEPT !.consumed = TRUE, !.landed = Landed]
             n == Len(approvals)
  <2>1. /\ proc.pc = "settle" /\ UNCHANGED <<history, pushes>>
        /\ proc.operation \in Operations
        /\ approvals # <<>> /\ approvals[n] = proc.approval
        /\ proc.approval.operation = proc.operation /\ proc.approval.started
        /\ approvals' = [approvals EXCEPT ![n] = row]
    BY <1>7 DEF Settle, Settled, RowIsMine, Acting, TypeOK, ProcRecords, repository
  <2>2. /\ row \in ApprovalRecords /\ row.started /\ row.consumed
        /\ row.operation = proc.operation
    <3>1. Landed \in Nat
      BY <1>0 DEF Landed
    <3> QED BY <2>1, <3>1 DEF TypeOK, ProcRecords, ApprovalRecords
  <2> HIDE DEF row
  <2>3. \A op \in Operations :
           /\ Begun(op)' = Begun(op)
           /\ Consumed(op)' = Consumed(op) \union (IF row.operation = op THEN {n} ELSE {})
    BY <2>1, <2>2, RowSettled
  <2> HIDE DEF n
  <2>4. PICK op \in Operations : op = proc.operation
    BY <2>1
  <2>5. /\ Consumed(op)' # {} /\ \A o \in Operations : Begun(o)' = Begun(o)
        /\ \A o \in Operations : o # op => Consumed(o)' = Consumed(o)
    BY <2>2, <2>3, <2>4
  <2>6. Authority[op] = "begun"
    BY <2>1, <2>4, MineIsBegun DEF Acting
  <2>7. Authority' = [Authority EXCEPT ![op] = "settled"]
    BY <2>5 DEF Authority
  <2>8. op \in Effected /\ Effected' = Effected
    BY <2>1, <2>4 DEF Effected, EffectsFit, RunnerCommits, Operations
  <2> QED BY <2>6, <2>7, <2>8 DEF Promise!Next, Promise!Settle
<1> QED BY <1>1, <1>2, <1>3, <1>4, <1>5, <1>6, <1>7
        DEF Next, Runner, vars, record, repository, Observe, Bind, Add, GiveUp, Abort,
            Edit, Stage, Tick

\* The two gates keep the promise of a single-use approval.
THEOREM SingleUseKept == Spec => ImplementsSingleUse
<1>1. Init => Promise!Init
  <2> SUFFICES ASSUME Init PROVE Promise!Init
    OBVIOUS
  <2>1. DOMAIN approvals = {} /\ DOMAIN history = {1} /\ history[1].by = "others"
    BY DEF Init
  <2>2. \A op \in Operations : Begun(op) = {} /\ Consumed(op) = {}
    BY <2>1 DEF Begun, Consumed
  <2>3. RunnerCommits = {}
    BY <2>1 DEF RunnerCommits
  <2>4. Authority = [op \in Operations |-> "unused"]
    BY <2>2 DEF Authority
  <2>5. Effected = {}
    BY <2>3 DEF Effected, Init
  <2> QED BY <2>4, <2>5 DEF Promise!Init
<1>2. GateInv /\ [Next]_vars => [Promise!Next]_(Promise!vars)
  BY PromiseStep
<1> QED BY <1>1, <1>2, GateInvariant, PTL DEF Spec, ImplementsSingleUse, Promise!Spec
=============================================================================
