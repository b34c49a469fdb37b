-------------------------- MODULE MilestoneRunProofs --------------------------
(***************************************************************************)
(* Proofs about MilestoneRun for every plan, every set of findings, every  *)
(* budget and every number of operator commands.                           *)
(***************************************************************************)
EXTENDS MilestoneRun, FiniteSetTheorems, SequenceTheorems, WellFoundedInduction, TLAPS

\* Names for the parts of an action, which every proof about the action expands.
USE DEF ReviewResults, ClosureResults, Recovers, LedgerEntry, CountAttempt, Writes,
        FinalSetFails, FinalSetPasses

\* A set of milestones that is not empty has a first one.
LEMMA FirstIsLeast ==
    ASSUME NEW ms \in SUBSET Milestones, ms # {}
    PROVE  First(ms) \in ms /\ \A n \in ms : First(ms) <= n
<1> DEFINE R == {ss \in Nat \X Nat : ss[1] < ss[2]}
<1>1. IsWellFoundedOn(R, Nat)
  <2>1. R = OpToRel(<, Nat)
    BY Zenon DEF OpToRel
  <2> QED BY <2>1, NatLessThanWellFounded
<1>2. ms \subseteq Nat
  BY PlanAssumption DEF Milestones
<1>3. PICK m \in ms : \A n \in ms : ~(<<n, m>> \in R)
  <2> HIDE DEF R
  <2> QED BY <1>1, <1>2, WFMin
<1>4. \A n \in ms : m <= n
  <2> SUFFICES ASSUME NEW n \in ms, ~(m <= n)
               PROVE  FALSE
    OBVIOUS
  <2>1. n \in Nat /\ m \in Nat /\ n < m
    BY <1>2
  <2>2. <<n, m>> \in Nat \X Nat /\ <<n, m>>[1] = n /\ <<n, m>>[2] = m
    BY <2>1
  <2>3. <<n, m>> \in R
    BY <2>1, <2>2, Zenon
  <2> QED BY <1>3, <2>3
<1> QED BY <1>4 DEF First

\* Each role has one invoking state.
LEMMA OriginValues ==
    /\ PROVIDER_ORIGIN["IMPLEMENTATION"] = "IMPLEMENTING"
    /\ PROVIDER_ORIGIN["REVIEW"] = "REVIEWING"
    /\ PROVIDER_ORIGIN["CORRECTION"] = "CORRECTING"
    /\ PROVIDER_ORIGIN["CLOSURE"] = "CLOSURE_VERIFYING"
    /\ \A r \in Roles :
          PROVIDER_ORIGIN[r] \in {"IMPLEMENTING", "REVIEWING", "CORRECTING", "CLOSURE_VERIFYING"}
BY DEF PROVIDER_ORIGIN, Roles

-----------------------------------------------------------------------------
(* Typing.  Settling an invocation rewrites the last row, so the invariant  *)
(* also says that there is one while an invocation is settled.              *)

\* An implementation and a focused verification are of some milestone.
InvocationPcs == {"invoke", "waiting", "intended", "started", "spawned", "retry", "judge"}
Aimed(p) ==
    p.pc = "focus" \/ (p.pc \in InvocationPcs /\ p.role = "IMPLEMENTATION") =>
        p.milestone # NoMilestone

AwaitedRow == proc.pc \in {"started", "spawned"} => Len(provider_runs) > 0

TypeInv == TypeOK /\ AwaitedRow /\ Aimed(proc)

\* A command record with which no invocation is being settled.
Unawaited == {p \in ProcRecords : p.pc \notin {"started", "spawned"} /\ Aimed(p)}

\* With no command there is no invocation to settle.
LEMMA IdleTyped == Idle \in Unawaited
BY DEF Idle, Unawaited, Aimed, InvocationPcs, ProcRecords, Pcs, Roles, NoMilestone

\* Rewriting the last row of a run that has one keeps the rows well typed.
LEMMA SettledTyped ==
    ASSUME TypeOK, Len(provider_runs) > 0, NEW failure \in FailureClasses \union {NoFailure}
    PROVE  Settled(failure) \in Seq(RunRows) /\ Len(Settled(failure)) = Len(provider_runs)
<1> DEFINE n == Len(provider_runs)
           row == [provider_runs[n] EXCEPT !.completed = TRUE, !.failure = failure]
<1>1. provider_runs \in Seq(RunRows) /\ n \in 1 .. n
  BY LenProperties DEF TypeOK
<1>2. provider_runs[n] \in RunRows
  BY <1>1, ElementOfSeq
<1>3. row \in RunRows
  BY <1>2 DEF RunRows
<1>4. Settled(failure) = [provider_runs EXCEPT ![n] = row]
  BY DEF Settled
<1> QED BY <1>1, <1>3, <1>4, ExceptSeq

\* The state an excursion is taken to come from invokes some role.
LEMMA ExcursionOrigin ==
    ASSUME TypeOK
    PROVE  ProviderOrigin \in {"IMPLEMENTING", "REVIEWING", "CORRECTING", "CLOSURE_VERIFYING"}
<1>1. CASE Len(provider_runs) > 0
  <2>1. LastRun \in RunRows
    BY <1>1, LenProperties, ElementOfSeq DEF TypeOK, LastRun
  <2> QED BY <1>1, <2>1, OriginValues DEF ProviderOrigin, RunRows
<1>2. CASE ~(Len(provider_runs) > 0)
  BY <1>2 DEF ProviderOrigin
<1> QED BY <1>1, <1>2

\* Settling an invocation changes no role.
LEMMA SettledRoles ==
    ASSUME TypeOK, Len(provider_runs) > 0, NEW failure \in FailureClasses \union {NoFailure}
    PROVE  /\ DOMAIN Settled(failure) = DOMAIN provider_runs
           /\ \A i \in DOMAIN provider_runs :
                 Settled(failure)[i].role = provider_runs[i].role
<1>1. \A i \in DOMAIN provider_runs : provider_runs[i] \in RunRows
  BY ElementOfSeq DEF TypeOK
<1> QED BY <1>1 DEF Settled, RunRows

\* The initial state is typed.
LEMMA TypeInit == Init => TypeInv
BY PlanAssumption, BoundAssumption
   DEF Init, TypeInv, AwaitedRow, Aimed, InvocationPcs, TypeOK, RunStatus, Trees, Baseline,
       Idle, ProcRecords,
       Pcs, Roles, NoMilestone, Milestones, RunRows, WorkRecords, ReviewRecords

\* Each action keeps the types.
LEMMA TypeNext == TypeInv /\ [Next]_vars => TypeInv'
<1> SUFFICES ASSUME TypeInv, [Next]_vars PROVE TypeInv'
  OBVIOUS
<1> USE DEF TypeInv
<1>1. CASE Start
  <2>1. workflow_state' \in RunStatus
    BY <1>1 DEF TypeOK, Start, RunStatus, Publish, StopAt
  <2>2. proc' \in Unawaited
    BY <1>1
       DEF TypeOK, Start, Unawaited, Aimed, InvocationPcs, Idle, ProcRecords, Pcs, Roles,
           NoMilestone
  <2> QED BY <1>1, <2>1, <2>2 DEF TypeOK, AwaitedRow, Unawaited, Start, durable, world
<1>2. CASE Preflight
  <2>1. workflow_state' \in RunStatus
    BY <1>2 DEF TypeOK, Preflight, RunStatus, Publish, StopAt, BoundaryStop
  <2>2. proc' \in Unawaited
    <3>1. CASE proc' = Idle
      BY <3>1, IdleTyped
    <3>2. CASE proc' = [proc EXCEPT !.pc = "drive", !.todo = Remaining]
      BY <3>2 DEF TypeOK, Unawaited, Aimed, InvocationPcs, ProcRecords, Pcs, Remaining
    <3> QED BY <1>2, <3>1, <3>2 DEF Preflight, StopAt
  <2> QED BY <1>2, <2>1, <2>2 DEF TypeOK, AwaitedRow, Unawaited, Preflight, durable, world
<1>3. CASE EnterImplementing
  <2>1. workflow_state' \in RunStatus
    BY <1>3 DEF TypeOK, EnterImplementing, RunStatus, Publish, StopAt
  <2>2. First(proc.todo) \in Milestones /\ First(proc.todo) # NoMilestone
    BY <1>3, FirstIsLeast
       DEF TypeOK, EnterImplementing, ProcRecords, Milestones, NoMilestone
  <2>3. work' \in WorkRecords
    BY <1>3, <2>2 DEF TypeOK, EnterImplementing, WorkRecords
  <2>4. proc' \in Unawaited
    <3>1. CASE proc' = [proc EXCEPT !.pc = "invoke", !.role = "IMPLEMENTATION",
                                    !.milestone = First(proc.todo),
                                    !.todo = @ \ {First(proc.todo)}, !.tries = 0]
      BY <3>1, <2>2 DEF TypeOK, Unawaited, Aimed, InvocationPcs, ProcRecords, Pcs, Roles
    <3> QED BY <1>3, <3>1 DEF EnterImplementing
  <2> QED BY <1>3, <2>1, <2>2, <2>3, <2>4
             DEF TypeOK, AwaitedRow, Unawaited, EnterImplementing, durable, world
<1>4. CASE RefuseImplementing
  <2>0. proc.pc = "drive"
    BY <1>4 DEF RefuseImplementing
  <2>1. workflow_state' \in RunStatus
    BY <1>4 DEF TypeOK, RefuseImplementing, RunStatus, Publish, StopAt, BoundaryStop
  <2>2. proc' \in Unawaited
    <3>1. CASE proc' = Idle
      BY <3>1, <2>0, IdleTyped
    <3>2. CASE proc' = [proc EXCEPT !.todo = @ \ {First(proc.todo)}]
      BY <3>2, <2>0 DEF TypeOK, Unawaited, Aimed, InvocationPcs, ProcRecords
    <3> QED BY <1>4, <3>1, <3>2 DEF RefuseImplementing, StopAt
  <2> QED BY <1>4, <2>1, <2>2
             DEF TypeOK, AwaitedRow, Unawaited, RefuseImplementing, durable, world
<1>5. CASE LeaveLoop
  <2>0. proc.pc = "drive"
    BY <1>5 DEF LeaveLoop
  <2>1. workflow_state' \in RunStatus
    BY <1>5 DEF TypeOK, LeaveLoop, RunStatus, Publish, StopAt
  <2>2. proc' \in Unawaited
    <3>1. CASE proc' = Idle
      BY <3>1, <2>0, IdleTyped
    <3>2. CASE proc' = HandBack
      BY <3>2, <2>0
         DEF TypeOK, Unawaited, Aimed, InvocationPcs, ProcRecords, HandBack, Remaining
    <3>3. CASE proc' = [proc EXCEPT !.pc = "final"]
      BY <3>3, <2>0 DEF TypeOK, Unawaited, Aimed, InvocationPcs, ProcRecords, Pcs
    <3> QED BY <1>5, <3>1, <3>2, <3>3 DEF LeaveLoop, StopAt
  <2> QED BY <1>5, <2>1, <2>2 DEF TypeOK, AwaitedRow, Unawaited, LeaveLoop, durable, world
<1>6. CASE FocusVerify
  <2>0. proc.milestone \in Milestones
    BY <1>6 DEF FocusVerify, TypeOK, Aimed, ProcRecords
  <2>1. workflow_state' \in RunStatus
    BY <1>6 DEF TypeOK, FocusVerify, RunStatus, Publish, StopAt
  <2>2. work' \in WorkRecords
    <3>1. CASE work' = FailedNow
      BY <3>1 DEF TypeOK, WorkRecords, FailedNow
    <3>2. CASE work' = [work EXCEPT !.current = NoMilestone, !.checkpoint = worktree,
                                    !.completed = @ \union {proc.milestone}]
      BY <3>2, <2>0 DEF TypeOK, WorkRecords
    <3> QED BY <1>6, <3>1, <3>2 DEF FocusVerify
  <2>3. proc' \in Unawaited
    <3>1. CASE proc' = Idle
      BY <3>1, <2>0, IdleTyped
    <3>2. CASE proc' = [proc EXCEPT !.pc = "drive"]
      BY <3>2, <2>0 DEF TypeOK, Unawaited, Aimed, InvocationPcs, ProcRecords, Pcs
    <3> QED BY <1>6, <3>1, <3>2 DEF FocusVerify, StopAt
  <2> QED BY <1>6, <2>1, <2>2, <2>3
             DEF TypeOK, AwaitedRow, Unawaited, FocusVerify, durable, world
<1>7. CASE FinalVerify
  <2>1. workflow_state' \in RunStatus
    BY <1>7 DEF TypeOK, FinalVerify, RunStatus, Publish, StopAt
  <2>2. work' \in WorkRecords
    BY <1>7 DEF TypeOK, FinalVerify, WorkRecords, VerifiedNow, FailedNow
  <2>2a. strays' \in [verified : SUBSET Milestones, command : SUBSET Milestones]
    BY <1>7 DEF TypeOK, FinalVerify
  <2>3. proc' \in Unawaited
    <3>1. CASE proc' = Idle
      BY <3>1, IdleTyped
    <3>2. CASE proc' = [proc EXCEPT !.pc = "review"]
      BY <3>2 DEF TypeOK, Unawaited, Aimed, InvocationPcs, ProcRecords, Pcs
    <3> QED BY <1>7, <3>1, <3>2 DEF FinalVerify, StopAt
  <2> QED BY <1>7, <2>1, <2>2, <2>2a, <2>3
             DEF TypeOK, AwaitedRow, Unawaited, FinalVerify, durable, world
<1>8. CASE BeginReview
  <2>1. workflow_state' \in RunStatus
    BY <1>8 DEF TypeOK, BeginReview, RunStatus, Publish, StopAt
  <2>2. review' \in ReviewRecords
    BY <1>8 DEF TypeOK, BeginReview, ReviewRecords
  <2>3. proc' \in Unawaited
    <3>1. CASE proc' = Idle
      BY <3>1, IdleTyped
    <3>2. CASE proc' = [proc EXCEPT !.pc = "waiting", !.role = "REVIEW",
                                    !.milestone = NoMilestone, !.tries = 0]
      BY <3>2 DEF TypeOK, Unawaited, Aimed, InvocationPcs, ProcRecords, Pcs, Roles
    <3> QED BY <1>8, <3>1, <3>2 DEF BeginReview, StopAt
  <2> QED BY <1>8, <2>1, <2>2, <2>3
             DEF TypeOK, AwaitedRow, Unawaited, BeginReview, durable, world
<1>9. CASE BeginCorrection
  <2>1. workflow_state' \in RunStatus
    BY <1>9 DEF TypeOK, BeginCorrection, RunStatus, Publish, StopAt
  <2>2. proc' \in Unawaited
    <3>1. CASE proc' = Idle
      BY <3>1, IdleTyped
    <3>2. CASE proc' = [proc EXCEPT !.pc = "invoke", !.role = "CORRECTION",
                                    !.milestone = NoMilestone, !.tries = 0]
      BY <3>2 DEF TypeOK, Unawaited, Aimed, InvocationPcs, ProcRecords, Pcs, Roles
    <3> QED BY <1>9, <3>1, <3>2 DEF BeginCorrection, StopAt
  <2> QED BY <1>9, <2>1, <2>2
             DEF TypeOK, AwaitedRow, Unawaited, BeginCorrection, durable, world
<1>10. CASE BeginClosure
  <2>1. workflow_state' \in RunStatus
    BY <1>10 DEF TypeOK, BeginClosure, RunStatus, Publish, StopAt
  <2>2. work' \in WorkRecords
    BY <1>10 DEF TypeOK, BeginClosure, WorkRecords, VerifiedNow, FailedNow
  <2>2a. strays' \in [verified : SUBSET Milestones, command : SUBSET Milestones]
    BY <1>10 DEF TypeOK, BeginClosure
  <2>3. proc' \in Unawaited
    <3>1. CASE proc' = Idle
      BY <3>1, IdleTyped
    <3>2. CASE proc' = [proc EXCEPT !.pc = "waiting", !.role = "CLOSURE",
                                    !.milestone = NoMilestone, !.tries = 0]
      BY <3>2 DEF TypeOK, Unawaited, Aimed, InvocationPcs, ProcRecords, Pcs, Roles
    <3> QED BY <1>10, <3>1, <3>2 DEF BeginClosure, StopAt
  <2> QED BY <1>10, <2>1, <2>2, <2>2a, <2>3
             DEF TypeOK, AwaitedRow, Unawaited, BeginClosure, durable, world
<1>11. CASE EnterWait
  <2>0. proc.pc = "invoke"
    BY <1>11 DEF EnterWait
  <2>1. workflow_state' \in RunStatus
    BY <1>11 DEF TypeOK, EnterWait, RunStatus, Publish, StopAt
  <2>2. proc' \in Unawaited
    <3>1. CASE proc' = Idle
      BY <3>1, <2>0, IdleTyped
    <3>2. CASE proc' = [proc EXCEPT !.pc = "waiting"]
      BY <3>2, <2>0 DEF TypeOK, Unawaited, Aimed, InvocationPcs, ProcRecords, Pcs
    <3> QED BY <1>11, <3>1, <3>2 DEF EnterWait, StopAt
  <2> QED BY <1>11, <2>1, <2>2 DEF TypeOK, AwaitedRow, Unawaited, EnterWait, durable, world
<1>12. CASE RecordIntent
  <2>1. intent' \in [sequence : Nat, tree : Trees]
    BY <1>12 DEF TypeOK, RecordIntent
  <2>2. proc' \in Unawaited
    BY <1>12
       DEF TypeOK, RecordIntent, Unawaited, Aimed, InvocationPcs, ProcRecords, Pcs,
           NoMilestone, Milestones
  <2> QED BY <1>12, <2>1, <2>2
             DEF TypeOK, AwaitedRow, Unawaited, RecordIntent, durable, world
<1>13. CASE PublishPending
  <2>1. PendingRow \in RunRows
    BY <1>13 DEF TypeOK, PublishPending, PendingRow, RunRows, ProcRecords, NoFailure
  <2>2. provider_runs' \in Seq(RunRows) /\ AwaitedRow'
    BY <1>13, <2>1, AppendProperties DEF TypeOK, PublishPending, AwaitedRow
  <2>3. proc' \in ProcRecords /\ Aimed(proc')
    BY <1>13 DEF TypeOK, PublishPending, ProcRecords, Pcs, Aimed, InvocationPcs
  <2> QED BY <1>13, <2>1, <2>2, <2>3
             DEF TypeOK, AwaitedRow, Unawaited, PublishPending, durable, world
<1>14. CASE ProviderRefused
  <2>1. workflow_state' \in RunStatus
    BY <1>14, OriginValues DEF TypeOK, ProviderRefused, Publish, ProcRecords, RunStatus
  <2>2. proc' \in Unawaited
    BY <1>14
       DEF TypeOK, ProviderRefused, Unawaited, Aimed, InvocationPcs, ProcRecords, Pcs,
           NoMilestone, Milestones
  <2> QED BY <1>14, <2>1, <2>2
             DEF TypeOK, AwaitedRow, Unawaited, ProviderRefused, durable, world
<1>15. CASE Spawn
  <2>1. proc' \in ProcRecords /\ Aimed(proc')
    BY <1>15 DEF TypeOK, Spawn, ProcRecords, Pcs, Aimed, InvocationPcs
  <2>2. AwaitedRow'
    BY <1>15 DEF TypeOK, Spawn, AwaitedRow, ProcRecords, durable
  <2> QED BY <1>15, <2>1, <2>2 DEF TypeOK, AwaitedRow, Unawaited, Spawn, durable, world
<1>16. CASE ProviderReturns
  <2>1. workflow_state' \in RunStatus
    BY <1>16, OriginValues
       DEF TypeOK, ProviderReturns, AwaitedRow, Publish, ProcRecords, RunStatus
  <2>2. provider_runs' \in Seq(RunRows)
    BY <1>16, SettledTyped
       DEF TypeOK, ProviderReturns, AwaitedRow, FailureClasses, NoFailure
  <2>3. proc' \in Unawaited
    <3>1. proc.pc = "spawned" /\ proc \in ProcRecords /\ Aimed(proc)
      BY <1>16 DEF TypeInv, TypeOK, ProviderReturns
    <3>2. \A outcome \in {"returned", "failed"} :
             [proc EXCEPT !.pc = "judge", !.outcome = outcome] \in Unawaited
      BY <3>1 DEF Unawaited, Aimed, InvocationPcs, ProcRecords, Pcs
    <3>3. \E outcome \in {"returned", "failed"} :
             proc' = [proc EXCEPT !.pc = "judge", !.outcome = outcome]
      BY <1>16 DEF ProviderReturns
    <3> QED BY <3>2, <3>3
  <2> QED BY <1>16, <2>1, <2>2, <2>3
             DEF TypeOK, AwaitedRow, Unawaited, ProviderReturns, durable, world
<1>17. CASE SpawnFails
  <2>0. proc.pc = "started"
    BY <1>17 DEF SpawnFails
  <2>1. workflow_state' \in RunStatus
    BY <1>17, OriginValues
       DEF TypeOK, SpawnFails, AwaitedRow, Publish, ProcRecords, RunStatus
  <2>2. provider_runs' \in Seq(RunRows)
    BY <1>17, SettledTyped DEF TypeOK, SpawnFails, AwaitedRow, FailureClasses
  <2>3. proc' \in Unawaited
    <3>1. CASE proc' = [proc EXCEPT !.pc = "retry", !.tries = @ + 1]
      <4>1. proc.tries + 1 \in Nat
        BY DEF TypeOK, ProcRecords
      <4>2. \A n \in Nat : [proc EXCEPT !.pc = "retry", !.tries = n] \in Unawaited
        BY <2>0 DEF TypeOK, Unawaited, Aimed, InvocationPcs, ProcRecords, Pcs
      <4> QED BY <3>1, <4>1, <4>2
    <3>2. CASE proc' = [proc EXCEPT !.pc = "judge", !.outcome = "failed"]
      BY <3>2, <2>0 DEF TypeOK, Unawaited, Aimed, InvocationPcs, ProcRecords, Pcs
    <3> QED BY <1>17, <3>1, <3>2 DEF SpawnFails
  <2> QED BY <1>17, <2>1, <2>2, <2>3
             DEF TypeOK, AwaitedRow, Unawaited, SpawnFails, durable, world
<1>18. CASE RetryThroughWait
  <2>1. workflow_state' \in RunStatus
    BY <1>18, OriginValues DEF TypeOK, RetryThroughWait, Publish, ProcRecords, RunStatus
  <2>2. proc' \in Unawaited
    BY <1>18
       DEF TypeOK, RetryThroughWait, Unawaited, Aimed, InvocationPcs, ProcRecords, Pcs,
           NoMilestone, Milestones
  <2> QED BY <1>18, <2>1, <2>2
             DEF TypeOK, AwaitedRow, Unawaited, RetryThroughWait, durable, world
<1>19. CASE JudgeImplementation
  <2>0. proc.pc = "judge" /\ proc.role = "IMPLEMENTATION"
    BY <1>19 DEF JudgeImplementation, Judging
  <2>1. workflow_state' \in RunStatus
    BY <1>19 DEF TypeOK, JudgeImplementation, RunStatus, Publish, StopAt
  <2>2. work' \in WorkRecords
    BY <1>19 DEF TypeOK, JudgeImplementation, WorkRecords, ChangedSince
  <2>3. proc' \in Unawaited
    <3>1. CASE proc' = Idle
      BY <3>1, <2>0, IdleTyped
    <3>2. CASE proc' = [proc EXCEPT !.pc = "focus"]
      BY <3>2, <2>0 DEF TypeOK, Unawaited, Aimed, InvocationPcs, ProcRecords, Pcs
    <3> QED BY <1>19, <3>1, <3>2 DEF JudgeImplementation, StopAt
  <2> QED BY <1>19, <2>1, <2>2, <2>3
             DEF TypeOK, AwaitedRow, Unawaited, JudgeImplementation, durable, world
<1>20. CASE ProviderFailure
  <2>1. workflow_state' \in RunStatus
    BY <1>20 DEF TypeOK, ProviderFailure, RunStatus, Publish, StopAt
  <2>2. review' \in ReviewRecords
    BY <1>20 DEF TypeOK, ProviderFailure, ReviewRecords, CountFailure
  <2>3. proc' \in Unawaited
    BY <1>20, IdleTyped DEF TypeOK, ProviderFailure, StopAt
  <2> QED BY <1>20, <2>1, <2>2, <2>3
             DEF TypeOK, AwaitedRow, Unawaited, ProviderFailure, durable, world
<1>21. CASE JudgeReview
  <2>1. workflow_state' \in RunStatus
    BY <1>21 DEF TypeOK, JudgeReview, RunStatus, Publish, StopAt, Raise
  <2>2. review' \in ReviewRecords
    <3>1. CASE review' = review
      BY <3>1 DEF TypeOK
    <3>2. ASSUME NEW blockers \in SUBSET Findings,
                 review' = [review EXCEPT !.rounds = @ + 1,
                               !.blocking = [f \in Findings |->
                                  IF f \in blockers THEN "open" ELSE @[f]]]
          PROVE  review' \in ReviewRecords
      <4> DEFINE ruled == [f \in Findings |->
                             IF f \in blockers THEN "open" ELSE review.blocking[f]]
      <4>1. ruled \in [Findings -> {"none", "open", "closed"}]
        BY DEF TypeOK, ReviewRecords
      <4>2. review.rounds + 1 \in Nat
        BY DEF TypeOK, ReviewRecords
      <4>3. \A n \in Nat, b \in [Findings -> {"none", "open", "closed"}] :
               [review EXCEPT !.rounds = n, !.blocking = b] \in ReviewRecords
        BY DEF TypeOK, ReviewRecords
      <4>4. review' = [review EXCEPT !.rounds = review.rounds + 1, !.blocking = ruled]
        BY <3>2
      <4> HIDE DEF ruled
      <4> QED BY <4>1, <4>2, <4>3, <4>4
    <3> QED BY <1>21, <3>1, <3>2 DEF JudgeReview
  <2>3. proc' \in Unawaited
    <3>1. CASE proc' = Idle
      BY <3>1, IdleTyped
    <3>2. CASE proc' = [Idle EXCEPT !.outcome = "raised"]
      BY <3>2
         DEF TypeOK, Unawaited, Aimed, InvocationPcs, Idle, ProcRecords, Pcs, Roles,
             NoMilestone
    <3>3. CASE proc' = [proc EXCEPT !.pc = "correct"]
      BY <3>3 DEF TypeOK, Unawaited, Aimed, InvocationPcs, ProcRecords, Pcs
    <3> QED BY <1>21, <3>1, <3>2, <3>3 DEF JudgeReview, StopAt, Raise
  <2> QED BY <1>21, <2>1, <2>2, <2>3
             DEF TypeOK, AwaitedRow, Unawaited, JudgeReview, durable, world
<1>22. CASE JudgeCorrection
  <2>1. workflow_state' \in RunStatus
    BY <1>22 DEF TypeOK, JudgeCorrection, RunStatus, Publish, StopAt, Raise
  <2>2. review' \in ReviewRecords
    BY <1>22 DEF TypeOK, JudgeCorrection, ReviewRecords
  <2>3. proc' \in Unawaited
    <3>1. CASE proc' = Idle
      BY <3>1, IdleTyped
    <3>2. CASE proc' = [Idle EXCEPT !.outcome = "raised"]
      BY <3>2
         DEF TypeOK, Unawaited, Aimed, InvocationPcs, Idle, ProcRecords, Pcs, Roles,
             NoMilestone
    <3>3. CASE proc' = [proc EXCEPT !.pc = "closure"]
      BY <3>3 DEF TypeOK, Unawaited, Aimed, InvocationPcs, ProcRecords, Pcs
    <3> QED BY <1>22, <3>1, <3>2, <3>3 DEF JudgeCorrection, StopAt, Raise
  <2> QED BY <1>22, <2>1, <2>2, <2>3
             DEF TypeOK, AwaitedRow, Unawaited, JudgeCorrection, durable, world
<1>23. CASE JudgeClosure
  <2>1. workflow_state' \in RunStatus
    BY <1>23 DEF TypeOK, JudgeClosure, RunStatus, Publish, StopAt, Raise
  <2>2. review' \in ReviewRecords
    <3>1. CASE review' = review
      BY <3>1 DEF TypeOK
    <3>2. ASSUME NEW closing \in SUBSET Open,
                 review' = [review EXCEPT !.closures = @ + 1,
                               !.blocking = [f \in Findings |->
                                  IF f \in closing THEN "closed" ELSE @[f]]]
          PROVE  review' \in ReviewRecords
      <4> DEFINE ruled == [f \in Findings |->
                             IF f \in closing THEN "closed" ELSE review.blocking[f]]
      <4>1. ruled \in [Findings -> {"none", "open", "closed"}]
        BY DEF TypeOK, ReviewRecords
      <4>2. review.closures + 1 \in Nat
        BY DEF TypeOK, ReviewRecords
      <4>3. \A n \in Nat, b \in [Findings -> {"none", "open", "closed"}] :
               [review EXCEPT !.closures = n, !.blocking = b] \in ReviewRecords
        BY DEF TypeOK, ReviewRecords
      <4>4. review' = [review EXCEPT !.closures = review.closures + 1, !.blocking = ruled]
        BY <3>2
      <4> HIDE DEF ruled
      <4> QED BY <4>1, <4>2, <4>3, <4>4
    <3> QED BY <1>23, <3>1, <3>2 DEF JudgeClosure
  <2>3. proc' \in Unawaited
    <3>1. CASE proc' = Idle
      BY <3>1, IdleTyped
    <3>2. CASE proc' = [Idle EXCEPT !.outcome = "raised"]
      BY <3>2
         DEF TypeOK, Unawaited, Aimed, InvocationPcs, Idle, ProcRecords, Pcs, Roles,
             NoMilestone
    <3> QED BY <1>23, <3>1, <3>2 DEF JudgeClosure, StopAt, Raise
  <2> QED BY <1>23, <2>1, <2>2, <2>3
             DEF TypeOK, AwaitedRow, Unawaited, JudgeClosure, durable, world
<1>24. CASE LeaveExcursion
  <2>1. workflow_state' \in RunStatus
    BY <1>24, ExcursionOrigin DEF LeaveExcursion, Publish, RunStatus
  <2> QED BY <1>24, <2>1 DEF TypeOK, AwaitedRow, Unawaited, LeaveExcursion, durable, world
<1>25. CASE ResumeStep
  <2>1. workflow_state' \in RunStatus
    BY <1>25 DEF TypeOK, ResumeStep, RunStatus, Publish, StopAt
  <2>2. CurrentMilestone \in Milestones \union {NoMilestone}
    BY <1>25, FirstIsLeast DEF TypeOK, ResumeStep, CurrentMilestone, Remaining
  <2>3. proc' \in Unawaited
    <3>1. CASE proc' = Idle
      BY <3>1, IdleTyped
    <3>2. CASE /\ proc' = [proc EXCEPT !.pc = "drive", !.todo = {CurrentMilestone}]
               /\ CurrentMilestone # NoMilestone
      BY <3>2, <2>2 DEF TypeOK, Unawaited, Aimed, InvocationPcs, ProcRecords, Pcs
    <3>3. CASE /\ proc' = [proc EXCEPT !.pc = "focus", !.milestone = CurrentMilestone]
               /\ CurrentMilestone # NoMilestone
      BY <3>3, <2>2 DEF TypeOK, Unawaited, Aimed, InvocationPcs, ProcRecords, Pcs
    <3>4. CASE \E pc \in {"drive", "final", "review", "correct", "closure"} :
                  proc' = [proc EXCEPT !.pc = pc]
      BY <3>4
         DEF TypeOK, Unawaited, Aimed, InvocationPcs, ProcRecords, Pcs, NoMilestone,
             Milestones
    <3> QED BY <1>25, <3>1, <3>2, <3>3, <3>4 DEF ResumeStep, StopAt
  <2> QED BY <1>25, <2>1, <2>2, <2>3
             DEF TypeOK, AwaitedRow, Unawaited, ResumeStep, durable, world
<1>26. CASE Resume
  <2>1. workflow_state' \in RunStatus
    BY <1>26 DEF TypeOK, Resume, RunStatus, Publish, StopAt, BoundaryStop
  <2>2. proc' \in Unawaited
    <3>1. CASE proc' = Idle
      BY <3>1, IdleTyped
    <3>2. CASE proc' = [Idle EXCEPT !.pc = "resume", !.resumed = TRUE]
      BY <3>2
         DEF TypeOK, Unawaited, Aimed, InvocationPcs, Idle, ProcRecords, Pcs, Roles,
             NoMilestone
    <3> QED BY <1>26, <3>1, <3>2 DEF Resume, StopAt
  <2>3. strays' \in [verified : SUBSET Milestones, command : SUBSET Milestones]
    BY <1>26 DEF TypeOK, Resume
  <2> QED BY <1>26, <2>1, <2>2, <2>3
             DEF TypeOK, AwaitedRow, Unawaited, Resume, durable, world, Issued
<1>27. CASE Abort
  <2>1. workflow_state' \in RunStatus
    BY <1>27 DEF TypeOK, Abort, RunStatus, Publish, StopAt
  <2>2. proc' \in Unawaited
    BY <1>27, IdleTyped DEF TypeOK, Abort, StopAt
  <2> QED BY <1>27, <2>1, <2>2 DEF TypeOK, AwaitedRow, Unawaited, Abort, durable, world
<1>28. CASE ReconcileMilestone
  <2>1. workflow_state' \in RunStatus
    BY <1>28 DEF TypeOK, ReconcileMilestone, RunStatus, Publish, StopAt
  <2>2. proc' \in Unawaited
    BY <1>28, IdleTyped DEF TypeOK, ReconcileMilestone, StopAt
  <2> QED BY <1>28, <2>1, <2>2
             DEF TypeOK, AwaitedRow, Unawaited, ReconcileMilestone, durable, world, Issued
<1>29. CASE ReopenMilestone
  <2>1. workflow_state' \in RunStatus
    BY <1>29 DEF TypeOK, ReopenMilestone, RunStatus, Publish, StopAt
  <2>2. work' \in WorkRecords
    BY <1>29 DEF TypeOK, ReopenMilestone, WorkRecords
  <2>3. reopenings' \subseteq [milestone : Milestones \union {Unplanned}, after : Nat]
    BY <1>29, LenProperties DEF TypeOK, ReopenMilestone
  <2>4. proc' \in Unawaited
    BY <1>29, IdleTyped DEF TypeOK, ReopenMilestone, StopAt
  <2> QED BY <1>29, <2>1, <2>2, <2>3, <2>4
             DEF TypeOK, AwaitedRow, Unawaited, ReopenMilestone, durable, world, Issued
<1>30. CASE RecoverFailedReview
  <2>1. workflow_state' \in RunStatus
    BY <1>30 DEF TypeOK, RecoverFailedReview, RunStatus, Publish, StopAt
  <2>2. review' \in ReviewRecords
    <3>1. review.rounds \in Nat /\ review.rounds >= 1
      BY <1>30 DEF TypeOK, ReviewRecords, RecoverFailedReview, ReviewBudgetSpent
    <3>2. review.rounds - 1 \in Nat
      BY <3>1
    <3> QED BY <1>30, <3>2 DEF TypeOK, RecoverFailedReview, ReviewRecords
  <2>3. proc' \in Unawaited
    BY <1>30, IdleTyped DEF TypeOK, RecoverFailedReview, StopAt
  <2> QED BY <1>30, <2>1, <2>2, <2>3
             DEF TypeOK, AwaitedRow, Unawaited, RecoverFailedReview, durable, world, Issued
<1>31. CASE RevalidateCorrection
  <2>1. workflow_state' \in RunStatus
    BY <1>31 DEF TypeOK, RevalidateCorrection, RunStatus, Publish, StopAt
  <2>2. proc' \in Unawaited
    BY <1>31, IdleTyped DEF TypeOK, RevalidateCorrection, StopAt
  <2> QED BY <1>31, <2>1, <2>2
             DEF TypeOK, AwaitedRow, Unawaited, RevalidateCorrection, durable, world, Issued
<1>32. CASE Crash
  <2>1. proc' \in Unawaited
    BY <1>32, IdleTyped DEF TypeOK, Crash
  <2>2. orphans' \subseteq Roles
    BY <1>32 DEF TypeOK, Crash, ProcRecords
  <2> QED BY <1>32, <2>1, <2>2 DEF TypeOK, AwaitedRow, Unawaited, Crash, durable, world
<1>33. CASE ProviderEdits
  <2>1. worktree' \in Trees
    BY <1>33, BoundAssumption DEF TypeOK, ProviderEdits, Trees
  <2>2. AwaitedRow'
    BY <1>33 DEF TypeOK, ProviderEdits, AwaitedRow, ProcRecords, durable
  <2> QED BY <1>33, <2>1, <2>2
             DEF TypeOK, AwaitedRow, Unawaited, ProviderEdits, durable, world
<1>34. CASE OrphanEdits
  <2>1. worktree' \in Trees
    BY <1>34, BoundAssumption DEF TypeOK, OrphanEdits, Trees
  <2>2. strays' \in [verified : SUBSET Milestones, command : SUBSET Milestones]
    BY <1>34 DEF TypeOK, OrphanEdits
  <2> QED BY <1>34, <2>1, <2>2 DEF TypeOK, AwaitedRow, OrphanEdits, durable
<1>35. CASE UNCHANGED vars
  BY <1>35 DEF TypeOK, AwaitedRow, vars, durable, world
<1> QED
  BY <1>1, <1>2, <1>3, <1>4, <1>5, <1>6, <1>7, <1>8, <1>9, <1>10, <1>11, <1>12, <1>13,
     <1>14, <1>15, <1>16, <1>17, <1>18, <1>19, <1>20, <1>21, <1>22, <1>23, <1>24, <1>25,
     <1>26, <1>27, <1>28, <1>29, <1>30, <1>31, <1>32, <1>33, <1>34, <1>35
     DEF Next, RunnerStep, Command

\* Every variable of every reachable state has its type: in particular no
\* recovery command takes a budget counter of the record below zero.
THEOREM TypeCorrect == Spec => []TypeOK
<1>1. Init => TypeInv
  BY TypeInit
<1>2. TypeInv /\ [Next]_vars => TypeInv'
  BY TypeNext
<1>3. TypeInv => TypeOK
  BY DEF TypeInv
<1> QED BY <1>1, <1>2, <1>3, PTL DEF Spec

-----------------------------------------------------------------------------
(* The gate.  GateMeansReviewed and ReviewCoversPlan are not inductive: a     *)
(* step may open the gate or invoke a reviewer only because of what the       *)
(* command in progress, the rows and the counters already imply about the     *)
(* plan.  EarlyInv says what they imply while a milestone remains.            *)

PlanDone == work.completed = Milestones

LateStates ==
    {"FINAL_VERIFYING", "REVIEWING", "NEEDS_CORRECTION", "CORRECTING",
     "CLOSURE_VERIFYING"} \union Approvable
LatePcs == {"final", "review", "correct", "closure"}

\* A command in progress holds a run that has not stopped, and resumption is marked as such.
Running ==
    /\ proc.pc # "idle" => workflow_state \in Live \ Approvable
    /\ proc.pc = "resume" => proc.resumed

\* What the loop has not completed it still has to do.
LoopCovers ==
    ~proc.resumed =>
        /\ proc.pc = "drive" => Remaining \subseteq proc.todo
        /\ \/ proc.pc = "focus"
           \/ proc.pc \in InvocationPcs
           => Remaining \subseteq proc.todo \union {proc.milestone}

CommandEarly ==
    /\ proc.role = "IMPLEMENTATION" /\ proc.pc \notin LatePcs
    /\ LoopCovers

EarlyInv ==
    /\ workflow_state \notin LateStates
    /\ review.rounds = 0 /\ review.corrections = 0
    /\ \A i \in DOMAIN provider_runs : provider_runs[i].role = "IMPLEMENTATION"
    /\ CommandEarly

GateInv ==
    /\ TypeInv /\ Running
    /\ ~PlanDone => EarlyInv
    /\ GateMeansReviewed

\* Completed milestones are never taken back.
LEMMA PlanStays ==
    ASSUME TypeInv, PlanDone, [Next]_vars
    PROVE  PlanDone'
<1>1. CASE FocusVerify
  <2>1. proc.milestone \in Milestones
    BY <1>1 DEF FocusVerify, TypeInv, TypeOK, Aimed, ProcRecords, NoMilestone
  <2>2. CASE work' = FailedNow
    BY <2>2 DEF PlanDone, FailedNow, TypeInv, TypeOK, WorkRecords
  <2>3. CASE work' = [work EXCEPT !.current = NoMilestone, !.checkpoint = worktree,
                                  !.completed = @ \union {proc.milestone}]
    BY <2>1, <2>3 DEF PlanDone, TypeInv, TypeOK, WorkRecords
  <2> QED BY <1>1, <2>2, <2>3 DEF FocusVerify
<1>2. CASE Start
  BY <1>2 DEF Start, PlanDone, durable
<1>3. CASE Preflight
  BY <1>3 DEF Preflight, PlanDone, durable
<1>4. CASE EnterImplementing
  BY <1>4 DEF EnterImplementing, PlanDone, TypeInv, TypeOK, WorkRecords
<1>5. CASE RefuseImplementing
  BY <1>5 DEF RefuseImplementing, PlanDone, durable
<1>6. CASE LeaveLoop
  BY <1>6 DEF LeaveLoop, PlanDone, durable
<1>7. CASE FinalVerify
  BY <1>7 DEF FinalVerify, PlanDone, TypeInv, TypeOK, WorkRecords, VerifiedNow, FailedNow
<1>8. CASE BeginReview
  BY <1>8 DEF BeginReview, PlanDone, durable
<1>9. CASE BeginCorrection
  BY <1>9 DEF BeginCorrection, PlanDone, durable
<1>10. CASE BeginClosure
  BY <1>10 DEF BeginClosure, PlanDone, TypeInv, TypeOK, WorkRecords, VerifiedNow, FailedNow
<1>11. CASE EnterWait
  BY <1>11 DEF EnterWait, PlanDone, durable
<1>12. CASE RecordIntent
  BY <1>12 DEF RecordIntent, PlanDone, durable
<1>13. CASE PublishPending
  BY <1>13 DEF PublishPending, PlanDone, durable
<1>14. CASE ProviderRefused
  BY <1>14 DEF ProviderRefused, PlanDone, durable
<1>15. CASE Spawn
  BY <1>15 DEF Spawn, PlanDone, durable
<1>16. CASE ProviderReturns
  BY <1>16 DEF ProviderReturns, PlanDone, durable
<1>17. CASE SpawnFails
  BY <1>17 DEF SpawnFails, PlanDone, durable
<1>18. CASE RetryThroughWait
  BY <1>18 DEF RetryThroughWait, PlanDone, durable
<1>19. CASE JudgeImplementation
  BY <1>19 DEF JudgeImplementation, PlanDone, TypeInv, TypeOK, WorkRecords
<1>20. CASE ProviderFailure
  BY <1>20 DEF ProviderFailure, PlanDone, durable
<1>21. CASE JudgeReview
  BY <1>21 DEF JudgeReview, PlanDone, durable
<1>22. CASE JudgeCorrection
  BY <1>22 DEF JudgeCorrection, PlanDone, durable
<1>23. CASE JudgeClosure
  BY <1>23 DEF JudgeClosure, PlanDone, durable
<1>24. CASE LeaveExcursion
  BY <1>24 DEF LeaveExcursion, PlanDone, durable
<1>25. CASE ResumeStep
  BY <1>25 DEF ResumeStep, PlanDone, durable
<1>26. CASE Resume
  BY <1>26 DEF Resume, PlanDone, durable
<1>27. CASE Abort
  BY <1>27 DEF Abort, PlanDone, durable
<1>28. CASE ReconcileMilestone
  BY <1>28 DEF ReconcileMilestone, PlanDone, durable
<1>29. CASE ReopenMilestone
  BY <1>29 DEF ReopenMilestone, PlanDone, TypeInv, TypeOK, WorkRecords
<1>30. CASE RecoverFailedReview
  BY <1>30 DEF RecoverFailedReview, PlanDone, durable
<1>31. CASE RevalidateCorrection
  BY <1>31 DEF RevalidateCorrection, PlanDone, durable
<1>32. CASE Crash
  BY <1>32 DEF Crash, PlanDone, durable
<1>33. CASE ProviderEdits
  BY <1>33 DEF ProviderEdits, PlanDone, durable
<1>34. CASE OrphanEdits
  BY <1>34 DEF OrphanEdits, PlanDone, durable
<1>35. CASE UNCHANGED vars
  BY <1>35 DEF vars, durable, PlanDone
<1> QED
  BY <1>1, <1>2, <1>3, <1>4, <1>5, <1>6, <1>7, <1>8, <1>9, <1>10, <1>11, <1>12, <1>13,
     <1>14, <1>15, <1>16, <1>17, <1>18, <1>19, <1>20, <1>21, <1>22, <1>23, <1>24, <1>25,
     <1>26, <1>27, <1>28, <1>29, <1>30, <1>31, <1>32, <1>33, <1>34, <1>35
     DEF Next, RunnerStep, Command

\* Only a command that has just ended leaves the run stopped.
LEMMA RunningNext ==
    ASSUME TypeInv, Running, [Next]_vars
    PROVE  Running'
<1> USE DEF TypeInv, TypeOK
<1>1. CASE Start
  BY <1>1
     DEF Start, Running, Live, RunStatus, TERMINAL_STATES, Approvable, ProcRecords, Publish,
         StopAt, Raise, Idle
<1>2. CASE Preflight
  <2>1. CASE proc' = Idle
    BY <2>1 DEF Running, Idle
  <2>2. CASE /\ workflow_state' \in Live \ Approvable /\ proc.pc # "resume"
             /\ proc' = [proc EXCEPT !.pc = "drive", !.todo = Remaining]
    BY <2>2 DEF Running, ProcRecords
  <2> QED
    BY <1>2, <2>1, <2>2
       DEF Preflight, Running, Publish, StopAt, Raise, Live, RunStatus, TERMINAL_STATES,
           Approvable, BoundaryStop, Remaining
<1>3. CASE EnterImplementing
  <2>1. CASE /\ workflow_state' \in Live \ Approvable /\ proc.pc # "resume"
             /\ proc' = [proc EXCEPT !.pc = "invoke", !.role = "IMPLEMENTATION",
                                     !.milestone = First(proc.todo),
                                     !.todo = @ \ {First(proc.todo)}, !.tries = 0]
    BY <2>1 DEF Running, ProcRecords
  <2> QED
    BY <1>3, <2>1
       DEF EnterImplementing, Running, Publish, StopAt, Raise, Live, RunStatus,
           TERMINAL_STATES, Approvable
<1>4. CASE RefuseImplementing
  <2>1. CASE proc' = Idle
    BY <2>1 DEF Running, Idle
  <2>2. CASE /\ workflow_state' \in Live \ Approvable /\ proc.pc # "resume"
             /\ proc' = [proc EXCEPT !.todo = @ \ {First(proc.todo)}]
    BY <2>2 DEF Running, ProcRecords
  <2> QED
    BY <1>4, <2>1, <2>2
       DEF RefuseImplementing, Running, Publish, StopAt, Raise, Live, RunStatus,
           TERMINAL_STATES, Approvable, BoundaryStop, Stopped
<1>5. CASE LeaveLoop
  <2>1. CASE proc' = Idle
    BY <2>1 DEF Running, Idle
  <2>2. CASE workflow_state' \in Live \ Approvable /\ proc.pc # "resume" /\ proc' = HandBack
    BY <2>2 DEF Running, ProcRecords, HandBack
  <2>3. CASE /\ workflow_state' \in Live \ Approvable /\ proc.pc # "resume"
             /\ proc' = [proc EXCEPT !.pc = "final"]
    BY <2>3 DEF Running, ProcRecords
  <2> QED
    BY <1>5, <2>1, <2>2, <2>3
       DEF LeaveLoop, Running, Publish, StopAt, Raise, Live, RunStatus, TERMINAL_STATES,
           Approvable, HandBack
<1>6. CASE FocusVerify
  <2>1. CASE proc' = Idle
    BY <2>1 DEF Running, Idle
  <2>2. CASE /\ workflow_state' \in Live \ Approvable /\ proc.pc # "resume"
             /\ proc' = [proc EXCEPT !.pc = "drive"]
    BY <2>2 DEF Running, ProcRecords
  <2> QED
    BY <1>6, <2>1, <2>2
       DEF FocusVerify, Running, Publish, StopAt, Raise, Live, RunStatus, TERMINAL_STATES,
           Approvable
<1>7. CASE FinalVerify
  <2>1. CASE proc' = Idle
    BY <2>1 DEF Running, Idle
  <2>2. CASE /\ workflow_state' \in Live \ Approvable /\ proc.pc # "resume"
             /\ proc' = [proc EXCEPT !.pc = "review"]
    BY <2>2 DEF Running, ProcRecords
  <2> QED
    BY <1>7, <2>1, <2>2
       DEF FinalVerify, Running, Publish, StopAt, Raise, Live, RunStatus, TERMINAL_STATES,
           Approvable, VerifiedNow, FailedNow
<1>8. CASE BeginReview
  <2>1. CASE proc' = Idle
    BY <2>1 DEF Running, Idle
  <2>2. CASE /\ workflow_state' \in Live \ Approvable /\ proc.pc # "resume"
             /\ proc' = [proc EXCEPT !.pc = "waiting", !.role = "REVIEW",
                                     !.milestone = NoMilestone, !.tries = 0]
    BY <2>2 DEF Running, ProcRecords
  <2> QED
    BY <1>8, <2>1, <2>2
       DEF BeginReview, Running, Publish, StopAt, Raise, Live, RunStatus, TERMINAL_STATES,
           Approvable
<1>9. CASE BeginCorrection
  <2>1. CASE proc' = Idle
    BY <2>1 DEF Running, Idle
  <2>2. CASE /\ workflow_state' \in Live \ Approvable /\ proc.pc # "resume"
             /\ proc' = [proc EXCEPT !.pc = "invoke", !.role = "CORRECTION",
                                     !.milestone = NoMilestone, !.tries = 0]
    BY <2>2 DEF Running, ProcRecords
  <2> QED
    BY <1>9, <2>1, <2>2
       DEF BeginCorrection, Running, Publish, StopAt, Raise, Live, RunStatus,
           TERMINAL_STATES, Approvable
<1>10. CASE BeginClosure
  <2>1. CASE proc' = Idle
    BY <2>1 DEF Running, Idle
  <2>2. CASE /\ workflow_state' \in Live \ Approvable /\ proc.pc # "resume"
             /\ proc' = [proc EXCEPT !.pc = "waiting", !.role = "CLOSURE",
                                     !.milestone = NoMilestone, !.tries = 0]
    BY <2>2 DEF Running, ProcRecords
  <2> QED
    BY <1>10, <2>1, <2>2
       DEF BeginClosure, Running, Publish, StopAt, Raise, Live, RunStatus, TERMINAL_STATES,
           Approvable, VerifiedNow, FailedNow
<1>11. CASE EnterWait
  <2>1. CASE proc' = Idle
    BY <2>1 DEF Running, Idle
  <2>2. CASE /\ workflow_state' \in Live \ Approvable /\ proc.pc # "resume"
             /\ proc' = [proc EXCEPT !.pc = "waiting"]
    BY <2>2 DEF Running, ProcRecords
  <2> QED
    BY <1>11, <2>1, <2>2
       DEF EnterWait, Running, Publish, StopAt, Raise, Live, RunStatus, TERMINAL_STATES,
           Approvable
<1>12. CASE RecordIntent
  BY <1>12
     DEF RecordIntent, Running, Live, RunStatus, TERMINAL_STATES, Approvable, ProcRecords,
         Publish, StopAt, Raise, Idle
<1>13. CASE PublishPending
  BY <1>13
     DEF PublishPending, Running, Live, RunStatus, TERMINAL_STATES, Approvable, ProcRecords,
         Publish, StopAt, Raise, Idle, PendingRow
<1>14. CASE ProviderRefused
  BY <1>14, OriginValues
     DEF ProviderRefused, Running, Live, RunStatus, TERMINAL_STATES, Approvable,
         ProcRecords, Publish, StopAt, Raise, Idle
<1>15. CASE Spawn
  BY <1>15
     DEF Spawn, Running, Live, RunStatus, TERMINAL_STATES, Approvable, ProcRecords, Publish,
         StopAt, Raise, Idle
<1>16. CASE ProviderReturns
  BY <1>16, OriginValues
     DEF ProviderReturns, Running, Live, RunStatus, TERMINAL_STATES, Approvable,
         ProcRecords, Publish, StopAt, Raise, Idle, Settled
<1>17. CASE SpawnFails
  <2>1. CASE /\ workflow_state' \in Live \ Approvable /\ proc.pc # "resume"
             /\ proc' = [proc EXCEPT !.pc = "retry", !.tries = @ + 1]
    BY <2>1 DEF Running, ProcRecords
  <2>2. CASE /\ workflow_state' \in Live \ Approvable /\ proc.pc # "resume"
             /\ proc' = [proc EXCEPT !.pc = "judge", !.outcome = "failed"]
    BY <2>2 DEF Running, ProcRecords
  <2> QED
    BY <1>17, <2>1, <2>2, OriginValues
       DEF SpawnFails, ProcRecords, Running, Publish, StopAt, Raise, Live, RunStatus,
           TERMINAL_STATES, Approvable, Settled
<1>18. CASE RetryThroughWait
  BY <1>18, OriginValues
     DEF RetryThroughWait, Running, Live, RunStatus, TERMINAL_STATES, Approvable,
         ProcRecords, Publish, StopAt, Raise, Idle
<1>19. CASE JudgeImplementation
  <2>1. CASE proc' = Idle
    BY <2>1 DEF Running, Idle
  <2>2. CASE /\ workflow_state' \in Live \ Approvable /\ proc.pc # "resume"
             /\ proc' = [proc EXCEPT !.pc = "focus"]
    BY <2>2 DEF Running, ProcRecords
  <2> QED
    BY <1>19, <2>1, <2>2
       DEF JudgeImplementation, Running, Publish, StopAt, Raise, Live, RunStatus,
           TERMINAL_STATES, Approvable, Judging
<1>20. CASE ProviderFailure
  BY <1>20
     DEF ProviderFailure, Running, Live, RunStatus, TERMINAL_STATES, Approvable,
         ProcRecords, Publish, StopAt, Raise, Idle, CountFailure
<1>21. CASE JudgeReview
  <2>1. CASE proc' = Idle
    BY <2>1 DEF Running, Idle
  <2>2. CASE /\ workflow_state' \in Live \ Approvable /\ proc.pc # "resume"
             /\ proc' = [Idle EXCEPT !.outcome = "raised"]
    BY <2>2 DEF Running, ProcRecords, Idle
  <2>3. CASE /\ workflow_state' \in Live \ Approvable /\ proc.pc # "resume"
             /\ proc' = [proc EXCEPT !.pc = "correct"]
    BY <2>3 DEF Running, ProcRecords
  <2> QED
    BY <1>21, <2>1, <2>2, <2>3
       DEF JudgeReview, Running, Publish, StopAt, Raise, Live, RunStatus, TERMINAL_STATES,
           Approvable, Judging, Open, Known
<1>22. CASE JudgeCorrection
  <2>1. CASE proc' = Idle
    BY <2>1 DEF Running, Idle
  <2>2. CASE /\ workflow_state' \in Live \ Approvable /\ proc.pc # "resume"
             /\ proc' = [Idle EXCEPT !.outcome = "raised"]
    BY <2>2 DEF Running, ProcRecords, Idle
  <2>3. CASE /\ workflow_state' \in Live \ Approvable /\ proc.pc # "resume"
             /\ proc' = [proc EXCEPT !.pc = "closure"]
    BY <2>3 DEF Running, ProcRecords
  <2> QED
    BY <1>22, <2>1, <2>2, <2>3
       DEF JudgeCorrection, Running, Publish, StopAt, Raise, Live, RunStatus,
           TERMINAL_STATES, Approvable, Judging, Open
<1>23. CASE JudgeClosure
  <2>1. CASE proc' = Idle
    BY <2>1 DEF Running, Idle
  <2>2. CASE /\ workflow_state' \in Live \ Approvable /\ proc.pc # "resume"
             /\ proc' = [Idle EXCEPT !.outcome = "raised"]
    BY <2>2 DEF Running, ProcRecords, Idle
  <2> QED
    BY <1>23, <2>1, <2>2
       DEF JudgeClosure, Running, Publish, StopAt, Raise, Live, RunStatus, TERMINAL_STATES,
           Approvable, Judging, Open, Cleared
<1>24. CASE LeaveExcursion
  BY <1>24, ExcursionOrigin
     DEF LeaveExcursion, Running, Live, RunStatus, TERMINAL_STATES, Approvable, ProcRecords,
         Publish, StopAt, Raise, Idle, ProviderOrigin, LastRun
<1>25. CASE ResumeStep
  <2>1. CASE proc' = Idle
    BY <2>1 DEF Running, Idle
  <2>2. CASE /\ workflow_state' \in Live \ Approvable /\ proc.resumed
             /\ proc' = [proc EXCEPT !.pc = "drive", !.todo = {CurrentMilestone}]
    BY <2>2 DEF Running, ProcRecords
  <2>3. CASE /\ workflow_state' \in Live \ Approvable /\ proc.resumed
             /\ proc' = [proc EXCEPT !.pc = "focus", !.milestone = CurrentMilestone]
    BY <2>3 DEF Running, ProcRecords
  <2>4. CASE /\ workflow_state' \in Live \ Approvable /\ proc.resumed
             /\ \E pc \in {"drive", "final", "review", "correct", "closure"} :
                   proc' = [proc EXCEPT !.pc = pc]
    BY <2>4 DEF Running, ProcRecords
  <2> QED
    BY <1>25, <2>1, <2>2, <2>3, <2>4
       DEF ResumeStep, Running, Publish, StopAt, Raise, Live, RunStatus, TERMINAL_STATES,
           Approvable
<1>26. CASE Resume
  <2>1. CASE proc' = Idle
    BY <2>1 DEF Running, Idle
  <2>2. CASE /\ workflow_state' \in Live \ Approvable /\ proc.pc # "resume"
             /\ proc' = [Idle EXCEPT !.pc = "resume", !.resumed = TRUE]
    BY <2>2 DEF Running, ProcRecords, Idle
  <2> QED
    BY <1>26, <2>1, <2>2
       DEF Resume, Running, Publish, StopAt, Raise, Live, RunStatus, TERMINAL_STATES,
           Approvable, Issued, BoundaryStop, Stopped
<1>27. CASE Abort
  BY <1>27
     DEF Abort, Running, Live, RunStatus, TERMINAL_STATES, Approvable, ProcRecords, Publish,
         StopAt, Raise, Idle
<1>28. CASE ReconcileMilestone
  BY <1>28
     DEF ReconcileMilestone, Running, Live, RunStatus, TERMINAL_STATES, Approvable,
         ProcRecords, Publish, StopAt, Raise, Idle
<1>29. CASE ReopenMilestone
  BY <1>29
     DEF ReopenMilestone, Running, Live, RunStatus, TERMINAL_STATES, Approvable,
         ProcRecords, Publish, StopAt, Raise, Idle
<1>30. CASE RecoverFailedReview
  BY <1>30
     DEF RecoverFailedReview, Running, Live, RunStatus, TERMINAL_STATES, Approvable,
         ProcRecords, Publish, StopAt, Raise, Idle, Issued, ReviewBudgetSpent
<1>31. CASE RevalidateCorrection
  BY <1>31
     DEF RevalidateCorrection, Running, Live, RunStatus, TERMINAL_STATES, Approvable,
         ProcRecords, Publish, StopAt, Raise, Idle
<1>32. CASE Crash
  BY <1>32
     DEF Crash, Running, Live, RunStatus, TERMINAL_STATES, Approvable, ProcRecords, Publish,
         StopAt, Raise, Idle
<1>33. CASE ProviderEdits
  BY <1>33
     DEF ProviderEdits, Running, Live, RunStatus, TERMINAL_STATES, Approvable, ProcRecords,
         Publish, StopAt, Raise, Idle
<1>34. CASE OrphanEdits
  BY <1>34
     DEF OrphanEdits, Running, Live, RunStatus, TERMINAL_STATES, Approvable, ProcRecords,
         Publish, StopAt, Raise, Idle
<1>35. CASE UNCHANGED vars
  BY <1>35 DEF vars, Running
<1> QED
  BY <1>1, <1>2, <1>3, <1>4, <1>5, <1>6, <1>7, <1>8, <1>9, <1>10, <1>11, <1>12, <1>13,
     <1>14, <1>15, <1>16, <1>17, <1>18, <1>19, <1>20, <1>21, <1>22, <1>23, <1>24, <1>25,
     <1>26, <1>27, <1>28, <1>29, <1>30, <1>31, <1>32, <1>33, <1>34, <1>35
     DEF Next, RunnerStep, Command

\* While a milestone remains, no step leaves the milestone loop.
LEMMA EarlyNext ==
    ASSUME TypeInv, Running, ~PolicyGoverned, ~PlanDone, EarlyInv, [Next]_vars, ~PlanDone'
    PROVE  EarlyInv'
<1> USE DEF TypeInv, TypeOK
<1>0. Remaining # {} /\ Remaining \subseteq Milestones
  BY DEF PlanDone, Remaining, WorkRecords
<1>1. CASE Start
  BY <1>1, <1>0
     DEF Start, CommandEarly, LoopCovers, LatePcs, InvocationPcs, Remaining, ProcRecords,
         Idle, EarlyInv, LateStates, Approvable, durable, Publish, StopAt, world
<1>2. CASE Preflight
  <2>1. CommandEarly'
    <3>1. CASE proc' = Idle
      BY <3>1, <1>0 DEF CommandEarly, LoopCovers, LatePcs, InvocationPcs, Idle
    <3>2. CASE proc' = [proc EXCEPT !.pc = "drive", !.todo = Remaining]
      BY <1>2, <3>2, <1>0
         DEF Preflight, EarlyInv, CommandEarly, LoopCovers, LatePcs, InvocationPcs,
             Remaining, ProcRecords, durable, Publish
    <3> QED BY <1>2, <3>1, <3>2 DEF Preflight, StopAt
  <2> QED BY <1>2, <2>1
             DEF Preflight, EarlyInv, LateStates, Approvable, durable, Publish, StopAt,
                 BoundaryStop, Remaining
<1>3. CASE EnterImplementing
  <2>1. CommandEarly'
    <3>1. CASE proc' = [proc EXCEPT !.pc = "invoke", !.role = "IMPLEMENTATION",
                                    !.milestone = First(proc.todo),
                                    !.todo = @ \ {First(proc.todo)}, !.tries = 0]
      BY <1>3, <3>1, <1>0
         DEF EnterImplementing, EarlyInv, CommandEarly, LoopCovers, LatePcs, InvocationPcs,
             Remaining, ProcRecords, durable, Publish
    <3> QED BY <1>3, <3>1 DEF EnterImplementing, StopAt
  <2> QED BY <1>3, <2>1
             DEF EnterImplementing, EarlyInv, LateStates, Approvable, durable, Publish,
                 StopAt
<1>4. CASE RefuseImplementing
  <2>1. StopAt("HUMAN_INTERVENTION_REQUIRED")
    BY <1>4 DEF RefuseImplementing, BoundaryStop, Stopped
  <2>2. CommandEarly'
    BY <2>1 DEF StopAt, Idle, CommandEarly, LoopCovers, LatePcs, InvocationPcs
  <2> QED BY <1>4, <2>1, <2>2
          DEF RefuseImplementing, StopAt, Publish, EarlyInv, LateStates, Approvable, durable
<1>5. CASE LeaveLoop
  <2>1. proc.pc = "drive" /\ proc.todo = {}
    BY <1>5 DEF LeaveLoop
  <2>2. proc.resumed
    BY <1>0, <2>1 DEF EarlyInv, CommandEarly, LoopCovers
  <2>3. proc' = HandBack /\ workflow_state' = workflow_state
    BY <1>5, <2>2 DEF LeaveLoop
  <2>4. Remaining' = Remaining
    BY <1>5 DEF LeaveLoop, Remaining, durable
  <2>5. proc'.pc = "drive" /\ proc'.role = proc.role /\ proc'.todo = Remaining
    BY <2>1, <2>3 DEF HandBack, ProcRecords
  <2>6. CommandEarly'
    BY <2>4, <2>5 DEF EarlyInv, CommandEarly, LoopCovers, LatePcs, InvocationPcs
  <2> QED BY <1>5, <2>3, <2>6 DEF LeaveLoop, EarlyInv, durable
<1>6. CASE FocusVerify
  <2>1. CASE StopAt("MILESTONE_FAILED")
    <3>1. CommandEarly'
      BY <2>1 DEF StopAt, Idle, CommandEarly, LoopCovers, LatePcs, InvocationPcs
    <3> QED BY <1>6, <2>1, <3>1
            DEF FocusVerify, StopAt, Publish, EarlyInv, LateStates, Approvable
  <2>2. CASE /\ Publish("MILESTONE_COMPLETE")
             /\ work' = [work EXCEPT !.current = NoMilestone, !.checkpoint = worktree,
                                     !.completed = @ \union {proc.milestone}]
             /\ proc' = [proc EXCEPT !.pc = "drive"]
    <3>1. proc.pc = "focus" /\ proc.role = "IMPLEMENTATION" /\ LoopCovers
      BY <1>6 DEF FocusVerify, EarlyInv, CommandEarly
    <3>2. Remaining' \subseteq Remaining \ {proc.milestone}
      BY <2>2 DEF Remaining, WorkRecords
    <3>3. /\ proc'.pc = "drive" /\ proc'.role = "IMPLEMENTATION"
          /\ proc'.todo = proc.todo /\ proc'.resumed = proc.resumed
      BY <2>2, <3>1 DEF ProcRecords
    <3>4. CommandEarly'
      BY <3>1, <3>2, <3>3 DEF CommandEarly, LoopCovers, LatePcs, InvocationPcs
    <3> QED BY <1>6, <2>2, <3>4
            DEF FocusVerify, Publish, EarlyInv, LateStates, Approvable
  <2> QED BY <1>6, <2>1, <2>2 DEF FocusVerify
<1>7. CASE FinalVerify
  BY <1>7 DEF FinalVerify, EarlyInv, CommandEarly, LatePcs
<1>8. CASE BeginReview
  BY <1>8 DEF BeginReview, EarlyInv, CommandEarly, LatePcs
<1>9. CASE BeginCorrection
  BY <1>9 DEF BeginCorrection, EarlyInv, CommandEarly, LatePcs
<1>10. CASE BeginClosure
  BY <1>10 DEF BeginClosure, EarlyInv, CommandEarly, LatePcs
<1>11. CASE EnterWait
  <2>1. CommandEarly'
    <3>1. CASE proc' = Idle
      BY <3>1, <1>0 DEF CommandEarly, LoopCovers, LatePcs, InvocationPcs, Idle
    <3>2. CASE proc' = [proc EXCEPT !.pc = "waiting"]
      BY <1>11, <3>2, <1>0
         DEF EnterWait, EarlyInv, CommandEarly, LoopCovers, LatePcs, InvocationPcs,
             Remaining, ProcRecords, durable, Publish
    <3> QED BY <1>11, <3>1, <3>2 DEF EnterWait, StopAt
  <2> QED BY <1>11, <2>1
             DEF EnterWait, EarlyInv, LateStates, Approvable, durable, Publish, StopAt
<1>12. CASE RecordIntent
  BY <1>12, <1>0
     DEF RecordIntent, CommandEarly, LoopCovers, LatePcs, InvocationPcs, Remaining,
         ProcRecords, Idle, EarlyInv, LateStates, Approvable, durable, Publish, StopAt,
         world
<1>13. CASE PublishPending
  BY <1>13, <1>0
     DEF PublishPending, CommandEarly, LoopCovers, LatePcs, InvocationPcs, Remaining,
         ProcRecords, Idle, EarlyInv, LateStates, Approvable, durable, Publish, StopAt,
         world, PendingRow
<1>14. CASE ProviderRefused
  BY <1>14, <1>0, OriginValues
     DEF ProviderRefused, CommandEarly, LoopCovers, LatePcs, InvocationPcs, Remaining,
         ProcRecords, Idle, EarlyInv, LateStates, Approvable, durable, Publish, StopAt,
         world
<1>15. CASE Spawn
  BY <1>15, <1>0
     DEF Spawn, CommandEarly, LoopCovers, LatePcs, InvocationPcs, Remaining, ProcRecords,
         Idle, EarlyInv, LateStates, Approvable, durable, Publish, StopAt, world
<1>16. CASE ProviderReturns
  <2>1. proc.pc = "spawned" /\ UNCHANGED <<work, review>>
    BY <1>16 DEF ProviderReturns
  <2>2. PICK failure \in {NoFailure, "OTHER"} :
            /\ provider_runs' = Settled(failure)
            /\ proc' = [proc EXCEPT !.pc = "judge",
                           !.outcome = IF failure = NoFailure THEN "returned" ELSE "failed"]
    BY <1>16 DEF ProviderReturns
  <2>3. CommandEarly'
    BY <2>1, <2>2
       DEF EarlyInv, CommandEarly, LoopCovers, LatePcs, InvocationPcs, Remaining,
           ProcRecords
  <2>4. workflow_state' = "IMPLEMENTING"
    BY <1>16, OriginValues DEF ProviderReturns, EarlyInv, CommandEarly, Publish
  <2>5. Len(provider_runs) > 0
    BY <2>1 DEF AwaitedRow
  <2> QED BY <2>1, <2>2, <2>3, <2>4, <2>5, SettledRoles
          DEF EarlyInv, LateStates, Approvable, FailureClasses
<1>17. CASE SpawnFails
  <2>1. /\ proc.pc = "started" /\ provider_runs' = Settled("SPAWN_FAILED")
        /\ UNCHANGED <<work, review>>
    BY <1>17 DEF SpawnFails
  <2>2. /\ proc'.pc \in {"retry", "judge"} /\ proc'.role = proc.role
        /\ proc'.milestone = proc.milestone /\ proc'.todo = proc.todo
        /\ proc'.resumed = proc.resumed
    <3>1. CASE proc' = [proc EXCEPT !.pc = "retry", !.tries = @ + 1]
      BY <3>1 DEF ProcRecords
    <3>2. CASE proc' = [proc EXCEPT !.pc = "judge", !.outcome = "failed"]
      BY <3>2 DEF ProcRecords
    <3> QED BY <1>17, <3>1, <3>2 DEF SpawnFails
  <2>3. CommandEarly'
    BY <2>1, <2>2 DEF EarlyInv, CommandEarly, LoopCovers, LatePcs, InvocationPcs, Remaining
  <2>4. workflow_state' \in {"PROVIDER_RETRY_PENDING", "IMPLEMENTING"}
    BY <1>17, OriginValues DEF SpawnFails, EarlyInv, CommandEarly, Publish
  <2>5. Len(provider_runs) > 0
    BY <2>1 DEF AwaitedRow
  <2> QED BY <2>1, <2>3, <2>4, <2>5, SettledRoles
          DEF EarlyInv, LateStates, Approvable, FailureClasses
<1>18. CASE RetryThroughWait
  BY <1>18, <1>0, OriginValues
     DEF RetryThroughWait, CommandEarly, LoopCovers, LatePcs, InvocationPcs, Remaining,
         ProcRecords, Idle, EarlyInv, LateStates, Approvable, durable, Publish, StopAt,
         world
<1>19. CASE JudgeImplementation
  <2>1. CASE proc' = Idle /\ workflow_state' \in {"MILESTONE_FAILED", "HUMAN_INTERVENTION_REQUIRED"}
    <3>1. CommandEarly'
      BY <2>1 DEF Idle, CommandEarly, LoopCovers, LatePcs, InvocationPcs
    <3> QED BY <1>19, <2>1, <3>1 DEF JudgeImplementation, EarlyInv, LateStates, Approvable
  <2>2. CASE /\ proc' = [proc EXCEPT !.pc = "focus"] /\ Publish("FOCUSED_VERIFYING")
             /\ work' = [work EXCEPT !.changed_paths = ChangedSince(worktree, Baseline)]
    <3>1. Remaining' = Remaining
      BY <2>2 DEF Remaining, WorkRecords
    <3>2. CommandEarly'
      BY <1>19, <2>2, <3>1
         DEF JudgeImplementation, Judging, EarlyInv, CommandEarly, LoopCovers, LatePcs,
             InvocationPcs, ProcRecords
    <3> QED BY <1>19, <2>2, <3>2
            DEF JudgeImplementation, Publish, EarlyInv, LateStates, Approvable
  <2> QED BY <1>19, <2>1, <2>2 DEF JudgeImplementation, StopAt, Publish
<1>20. CASE ProviderFailure
  BY <1>20 DEF ProviderFailure, EarlyInv, CommandEarly
<1>21. CASE JudgeReview
  BY <1>21 DEF JudgeReview, EarlyInv, CommandEarly, Judging
<1>22. CASE JudgeCorrection
  BY <1>22 DEF JudgeCorrection, EarlyInv, CommandEarly, Judging
<1>23. CASE JudgeClosure
  BY <1>23 DEF JudgeClosure, EarlyInv, CommandEarly, Judging
<1>24. CASE LeaveExcursion
  <2>1. ProviderOrigin = "IMPLEMENTING"
    BY <1>0, OriginValues, LenProperties DEF ProviderOrigin, LastRun, EarlyInv
  <2>2. workflow_state' \in {"PROVIDER_WAIT", "IMPLEMENTING"}
    BY <1>24, <2>1 DEF LeaveExcursion, Publish
  <2> QED BY <1>24, <2>2
          DEF LeaveExcursion, EarlyInv, CommandEarly, LoopCovers, Remaining, LateStates,
              Approvable, durable
<1>25. CASE ResumeStep
  <2>1. proc.pc = "resume" /\ proc.resumed /\ proc.role = "IMPLEMENTATION"
    BY <1>25 DEF ResumeStep, Running, EarlyInv, CommandEarly
  <2>2. workflow_state \notin {"FINAL_VERIFYING", "REVIEWING", "NEEDS_CORRECTION",
                              "CORRECTING", "CLOSURE_VERIFYING"}
    BY DEF EarlyInv, LateStates
  <2>3. CASE StopAt("HUMAN_INTERVENTION_REQUIRED")
    <3>1. CommandEarly'
      BY <2>3 DEF StopAt, Idle, CommandEarly, LoopCovers, LatePcs, InvocationPcs
    <3> QED BY <1>25, <2>3, <3>1
            DEF ResumeStep, StopAt, Publish, EarlyInv, LateStates, Approvable, durable
  <2>4. CASE /\ workflow_state' = workflow_state
             /\ \/ proc' = [proc EXCEPT !.pc = "drive", !.todo = {CurrentMilestone}]
                \/ proc' = [proc EXCEPT !.pc = "focus", !.milestone = CurrentMilestone]
                \/ proc' = [proc EXCEPT !.pc = "drive"]
    <3>1. proc'.pc \in {"drive", "focus"} /\ proc'.resumed /\ proc'.role = "IMPLEMENTATION"
      BY <2>1, <2>4 DEF ProcRecords
    <3>2. CommandEarly'
      BY <3>1 DEF CommandEarly, LoopCovers, LatePcs
    <3> QED BY <1>25, <2>4, <3>2 DEF ResumeStep, EarlyInv, durable
  <2> QED BY <1>25, <2>2, <2>3, <2>4 DEF ResumeStep
<1>26. CASE Resume
  <2>1. CommandEarly'
    <3>1. CASE proc' = Idle
      BY <3>1, <1>0 DEF CommandEarly, LoopCovers, LatePcs, InvocationPcs, Idle
    <3>2. CASE proc' = [Idle EXCEPT !.pc = "resume", !.resumed = TRUE]
      BY <1>26, <3>2, <1>0
         DEF Resume, EarlyInv, CommandEarly, LoopCovers, LatePcs, InvocationPcs, Remaining,
             ProcRecords, durable, Publish, Idle
    <3> QED BY <1>26, <3>1, <3>2 DEF Resume, StopAt
  <2> QED BY <1>26, <2>1
             DEF Resume, EarlyInv, LateStates, Approvable, durable, Publish, StopAt, Issued,
                 BoundaryStop, Stopped, Approvable
<1>27. CASE Abort
  BY <1>27, <1>0
     DEF Abort, CommandEarly, LoopCovers, LatePcs, InvocationPcs, Remaining, ProcRecords,
         Idle, EarlyInv, LateStates, Approvable, durable, Publish, StopAt, world
<1>28. CASE ReconcileMilestone
  BY <1>28, <1>0
     DEF ReconcileMilestone, CommandEarly, LoopCovers, LatePcs, InvocationPcs, Remaining,
         ProcRecords, Idle, EarlyInv, LateStates, Approvable, durable, Publish, StopAt,
         world
<1>29. CASE ReopenMilestone
  BY <1>29, <1>0
     DEF ReopenMilestone, CommandEarly, LoopCovers, LatePcs, InvocationPcs, Remaining,
         ProcRecords, Idle, EarlyInv, LateStates, Approvable, durable, Publish, StopAt,
         world
<1>30. CASE RecoverFailedReview
  BY <1>30 DEF RecoverFailedReview, EarlyInv, ReviewBudgetSpent
<1>31. CASE RevalidateCorrection
  BY <1>31 DEF RevalidateCorrection, EarlyInv
<1>32. CASE Crash
  BY <1>32, <1>0
     DEF Crash, CommandEarly, LoopCovers, LatePcs, InvocationPcs, Remaining, ProcRecords,
         Idle, EarlyInv, LateStates, Approvable, durable, Publish, StopAt, world
<1>33. CASE ProviderEdits
  BY <1>33, <1>0
     DEF ProviderEdits, CommandEarly, LoopCovers, LatePcs, InvocationPcs, Remaining,
         ProcRecords, Idle, EarlyInv, LateStates, Approvable, durable, Publish, StopAt,
         world
<1>34. CASE OrphanEdits
  BY <1>34, <1>0
     DEF OrphanEdits, CommandEarly, LoopCovers, LatePcs, InvocationPcs, Remaining,
         ProcRecords, Idle, EarlyInv, LateStates, Approvable, durable, Publish, StopAt,
         world
<1>35. CASE UNCHANGED vars
  BY <1>35
     DEF vars, durable, EarlyInv, CommandEarly, LoopCovers, LatePcs, InvocationPcs,
         Remaining
<1> QED
  BY <1>1, <1>2, <1>3, <1>4, <1>5, <1>6, <1>7, <1>8, <1>9, <1>10, <1>11, <1>12, <1>13,
     <1>14, <1>15, <1>16, <1>17, <1>18, <1>19, <1>20, <1>21, <1>22, <1>23, <1>24, <1>25,
     <1>26, <1>27, <1>28, <1>29, <1>30, <1>31, <1>32, <1>33, <1>34, <1>35
     DEF Next, RunnerStep, Command

\* The gate opens on a finished plan, with nothing open, on a ruling.
LEMMA GateNext ==
    ASSUME TypeInv, Running, ~PlanDone => EarlyInv, GateMeansReviewed, [Next]_vars
    PROVE  GateMeansReviewed'
<1> USE DEF TypeInv, TypeOK
<1>1. CASE Start
  BY <1>1
     DEF Start, GateMeansReviewed, EarlyInv, CommandEarly, LateStates, PlanDone, Approvable,
         ProcRecords, Publish, StopAt, durable
<1>2. CASE Preflight
  BY <1>2
     DEF Preflight, GateMeansReviewed, EarlyInv, CommandEarly, LateStates, PlanDone,
         Approvable, ProcRecords, Publish, StopAt, durable, BoundaryStop, Remaining
<1>3. CASE EnterImplementing
  BY <1>3
     DEF EnterImplementing, GateMeansReviewed, EarlyInv, CommandEarly, LateStates, PlanDone,
         Approvable, ProcRecords, Publish, StopAt, durable
<1>4. CASE RefuseImplementing
  BY <1>4
     DEF RefuseImplementing, GateMeansReviewed, EarlyInv, CommandEarly, LateStates,
         PlanDone, Approvable, ProcRecords, Publish, StopAt, durable, BoundaryStop, Stopped,
         Approvable
<1>5. CASE LeaveLoop
  BY <1>5
     DEF LeaveLoop, GateMeansReviewed, EarlyInv, CommandEarly, LateStates, PlanDone,
         Approvable, ProcRecords, Publish, StopAt, durable, HandBack
<1>6. CASE FocusVerify
  BY <1>6
     DEF FocusVerify, GateMeansReviewed, EarlyInv, CommandEarly, LateStates, PlanDone,
         Approvable, ProcRecords, Publish, StopAt, durable
<1>7. CASE FinalVerify
  BY <1>7
     DEF FinalVerify, GateMeansReviewed, EarlyInv, CommandEarly, LateStates, PlanDone,
         Approvable, ProcRecords, Publish, StopAt, durable, VerifiedNow, FailedNow
<1>8. CASE BeginReview
  BY <1>8
     DEF BeginReview, GateMeansReviewed, EarlyInv, CommandEarly, LateStates, PlanDone,
         Approvable, ProcRecords, Publish, StopAt, durable
<1>9. CASE BeginCorrection
  BY <1>9
     DEF BeginCorrection, GateMeansReviewed, EarlyInv, CommandEarly, LateStates, PlanDone,
         Approvable, ProcRecords, Publish, StopAt, durable
<1>10. CASE BeginClosure
  BY <1>10
     DEF BeginClosure, GateMeansReviewed, EarlyInv, CommandEarly, LateStates, PlanDone,
         Approvable, ProcRecords, Publish, StopAt, durable, VerifiedNow, FailedNow
<1>11. CASE EnterWait
  BY <1>11
     DEF EnterWait, GateMeansReviewed, EarlyInv, CommandEarly, LateStates, PlanDone,
         Approvable, ProcRecords, Publish, StopAt, durable
<1>12. CASE RecordIntent
  BY <1>12
     DEF RecordIntent, GateMeansReviewed, EarlyInv, CommandEarly, LateStates, PlanDone,
         Approvable, ProcRecords, Publish, StopAt, durable
<1>13. CASE PublishPending
  BY <1>13
     DEF PublishPending, GateMeansReviewed, EarlyInv, CommandEarly, LateStates, PlanDone,
         Approvable, ProcRecords, Publish, StopAt, durable, PendingRow
<1>14. CASE ProviderRefused
  BY <1>14, OriginValues
     DEF ProviderRefused, GateMeansReviewed, EarlyInv, CommandEarly, LateStates, PlanDone,
         Approvable, ProcRecords, Publish, StopAt, durable
<1>15. CASE Spawn
  BY <1>15
     DEF Spawn, GateMeansReviewed, EarlyInv, CommandEarly, LateStates, PlanDone, Approvable,
         ProcRecords, Publish, StopAt, durable
<1>16. CASE ProviderReturns
  BY <1>16, OriginValues
     DEF ProviderReturns, GateMeansReviewed, EarlyInv, CommandEarly, LateStates, PlanDone,
         Approvable, ProcRecords, Publish, StopAt, durable, Settled
<1>17. CASE SpawnFails
  BY <1>17, OriginValues
     DEF SpawnFails, GateMeansReviewed, EarlyInv, CommandEarly, LateStates, PlanDone,
         Approvable, ProcRecords, Publish, StopAt, durable, Settled
<1>18. CASE RetryThroughWait
  BY <1>18, OriginValues
     DEF RetryThroughWait, GateMeansReviewed, EarlyInv, CommandEarly, LateStates, PlanDone,
         Approvable, ProcRecords, Publish, StopAt, durable
<1>19. CASE JudgeImplementation
  BY <1>19
     DEF JudgeImplementation, GateMeansReviewed, EarlyInv, CommandEarly, LateStates,
         PlanDone, Approvable, ProcRecords, Publish, StopAt, durable, Judging
<1>20. CASE ProviderFailure
  BY <1>20
     DEF ProviderFailure, GateMeansReviewed, EarlyInv, CommandEarly, LateStates, PlanDone,
         Approvable, ProcRecords, Publish, StopAt, durable, CountFailure
<1>21. CASE JudgeReview
  <2>1. work' = work /\ PlanDone
    BY <1>21 DEF JudgeReview, Judging, EarlyInv, CommandEarly
  <2>2. CASE Raise /\ UNCHANGED review
    BY <2>1, <2>2 DEF Raise, GateMeansReviewed
  <2>3. ASSUME NEW blockers \in SUBSET Findings,
               Open \union blockers = {}, workflow_state' = "READY_FOR_COMMIT_APPROVAL",
               review' = [review EXCEPT !.rounds = @ + 1,
                             !.blocking = [f \in Findings |->
                                IF f \in blockers THEN "open" ELSE @[f]]]
        PROVE  GateMeansReviewed'
    <3>1. review'.rounds = review.rounds + 1 /\ review'.closures = review.closures
      BY <2>3 DEF ReviewRecords
    <3>2. review'.rounds + review'.closures > 0
      BY <3>1 DEF ReviewRecords
    <3>3. \A f \in Findings : review'.blocking[f] = review.blocking[f]
      BY <2>3 DEF ReviewRecords
    <3>4. \A f \in Findings : review'.blocking[f] # "open"
      BY <2>3, <3>3 DEF Open
    <3> QED BY <2>1, <3>2, <3>4 DEF GateMeansReviewed, PlanDone
  <2>4. CASE workflow_state' \in {"NEEDS_CORRECTION", "HUMAN_INTERVENTION_REQUIRED"}
    BY <2>4 DEF GateMeansReviewed, Approvable
  <2> QED BY <1>21, <2>2, <2>3, <2>4 DEF JudgeReview, StopAt, Publish
<1>22. CASE JudgeCorrection
  <2>1. CASE Raise /\ UNCHANGED review
    BY <1>22, <2>1 DEF JudgeCorrection, Raise, GateMeansReviewed
  <2>2. CASE workflow_state' \in {"CLOSURE_VERIFYING", "HUMAN_INTERVENTION_REQUIRED"}
    BY <2>2 DEF GateMeansReviewed, Approvable
  <2> QED BY <1>22, <2>1, <2>2 DEF JudgeCorrection, StopAt, Publish
<1>23. CASE JudgeClosure
  <2>1. work' = work /\ PlanDone
    BY <1>23 DEF JudgeClosure, Judging, EarlyInv, CommandEarly
  <2>2. CASE Raise /\ UNCHANGED review
    BY <2>1, <2>2 DEF Raise, GateMeansReviewed
  <2>3. ASSUME review' = [review EXCEPT !.closures = @ + 1,
                             !.blocking = [f \in Findings |->
                                IF f \in Open THEN "closed" ELSE @[f]]]
        PROVE  GateMeansReviewed'
    <3>1. review'.closures = review.closures + 1 /\ review'.rounds = review.rounds
      BY <2>3 DEF ReviewRecords
    <3>2. review'.rounds + review'.closures > 0
      BY <3>1 DEF ReviewRecords
    <3>3. \A f \in Findings :
             review'.blocking[f] = IF f \in Open THEN "closed" ELSE review.blocking[f]
      BY <2>3 DEF ReviewRecords
    <3>4. \A f \in Findings : review'.blocking[f] # "open"
      BY <3>3 DEF Open
    <3> QED BY <2>1, <3>2, <3>4 DEF GateMeansReviewed, PlanDone
  <2>4. CASE workflow_state' = "HUMAN_INTERVENTION_REQUIRED"
    BY <2>4 DEF GateMeansReviewed, Approvable
  <2> QED BY <1>23, <2>2, <2>3, <2>4 DEF JudgeClosure, Cleared, StopAt, Publish
<1>24. CASE LeaveExcursion
  BY <1>24, ExcursionOrigin
     DEF LeaveExcursion, GateMeansReviewed, EarlyInv, CommandEarly, LateStates, PlanDone,
         Approvable, ProcRecords, Publish, StopAt, durable, ProviderOrigin, LastRun
<1>25. CASE ResumeStep
  BY <1>25
     DEF ResumeStep, GateMeansReviewed, EarlyInv, CommandEarly, LateStates, PlanDone,
         Approvable, ProcRecords, Publish, StopAt, durable
<1>26. CASE Resume
  BY <1>26
     DEF Resume, GateMeansReviewed, EarlyInv, CommandEarly, LateStates, PlanDone,
         Approvable, ProcRecords, Publish, StopAt, durable, Issued, BoundaryStop, Stopped,
         Approvable
<1>27. CASE Abort
  BY <1>27
     DEF Abort, GateMeansReviewed, EarlyInv, CommandEarly, LateStates, PlanDone, Approvable,
         ProcRecords, Publish, StopAt, durable
<1>28. CASE ReconcileMilestone
  BY <1>28
     DEF ReconcileMilestone, GateMeansReviewed, EarlyInv, CommandEarly, LateStates,
         PlanDone, Approvable, ProcRecords, Publish, StopAt, durable
<1>29. CASE ReopenMilestone
  BY <1>29
     DEF ReopenMilestone, GateMeansReviewed, EarlyInv, CommandEarly, LateStates, PlanDone,
         Approvable, ProcRecords, Publish, StopAt, durable
<1>30. CASE RecoverFailedReview
  BY <1>30
     DEF RecoverFailedReview, GateMeansReviewed, EarlyInv, CommandEarly, LateStates,
         PlanDone, Approvable, ProcRecords, Publish, StopAt, durable, Issued,
         ReviewBudgetSpent
<1>31. CASE RevalidateCorrection
  BY <1>31
     DEF RevalidateCorrection, GateMeansReviewed, EarlyInv, CommandEarly, LateStates,
         PlanDone, Approvable, ProcRecords, Publish, StopAt, durable
<1>32. CASE Crash
  BY <1>32
     DEF Crash, GateMeansReviewed, EarlyInv, CommandEarly, LateStates, PlanDone, Approvable,
         ProcRecords, Publish, StopAt, durable
<1>33. CASE ProviderEdits
  BY <1>33
     DEF ProviderEdits, GateMeansReviewed, EarlyInv, CommandEarly, LateStates, PlanDone,
         Approvable, ProcRecords, Publish, StopAt, durable
<1>34. CASE OrphanEdits
  BY <1>34
     DEF OrphanEdits, GateMeansReviewed, EarlyInv, CommandEarly, LateStates, PlanDone,
         Approvable, ProcRecords, Publish, StopAt, durable
<1>35. CASE UNCHANGED vars
  BY <1>35 DEF vars, durable, GateMeansReviewed
<1> QED
  BY <1>1, <1>2, <1>3, <1>4, <1>5, <1>6, <1>7, <1>8, <1>9, <1>10, <1>11, <1>12, <1>13,
     <1>14, <1>15, <1>16, <1>17, <1>18, <1>19, <1>20, <1>21, <1>22, <1>23, <1>24, <1>25,
     <1>26, <1>27, <1>28, <1>29, <1>30, <1>31, <1>32, <1>33, <1>34, <1>35
     DEF Next, RunnerStep, Command

\* A new run satisfies the invariant of the gate.
LEMMA GateInit == Init => GateInv
<1> SUFFICES ASSUME Init PROVE GateInv
  OBVIOUS
<1>1. TypeInv
  BY TypeInit
<1>2. Running /\ EarlyInv /\ GateMeansReviewed
  BY DEF Init, Idle, Running, EarlyInv, CommandEarly, LoopCovers, LateStates, LatePcs,
         InvocationPcs, Approvable, GateMeansReviewed
<1> QED BY <1>1, <1>2 DEF GateInv

\* Each step of an ungoverned run preserves the invariant of the gate.
LEMMA GateStep == ~PolicyGoverned /\ GateInv /\ [Next]_vars => GateInv'
BY TypeNext, RunningNext, PlanStays, EarlyNext, GateNext DEF GateInv

\* A run no stage policy governs is reviewed, corrected and closed only on a
\* finished plan, whatever crashes and recovery commands came before.
THEOREM ReviewCovers ==
    ASSUME ~PolicyGoverned
    PROVE  Spec => []ReviewCoversPlan
<1>1. GateInv => ReviewCoversPlan
  BY DEF GateInv, ReviewCoversPlan, EarlyInv, PlanDone
<1>2. GateInv /\ [Next]_vars => GateInv'
  BY GateStep
<1> QED BY <1>1, <1>2, GateInit, PTL DEF Spec

\* And its approval gate opens only on a finished plan with no open blocker.
THEOREM GateReviewed ==
    ASSUME ~PolicyGoverned
    PROVE  Spec => []GateMeansReviewed
<1>1. GateInv => GateMeansReviewed
  BY DEF GateInv
<1>2. GateInv /\ [Next]_vars => GateInv'
  BY GateStep
<1> QED BY <1>1, <1>2, GateInit, PTL DEF Spec

-----------------------------------------------------------------------------
(* Refinement.  Only an accepted milestone, a ruling and an abort are visible *)
(* to whoever approves the run; every other step is a stutter.                *)

Seen == <<work.completed, review.blocking, Gate>>

\* The three values of the gate.
LEMMA GateValues ==
    /\ workflow_state \in Approvable => Gate = "open"
    /\ workflow_state = "ABORTED" => Gate = "aborted"
    /\ workflow_state \notin Approvable \union {"ABORTED"} => Gate = "shut"
BY DEF Gate, Approvable

\* The values of the gate after a step.
LEMMA GateValuesNext ==
    /\ workflow_state' \in Approvable => Gate' = "open"
    /\ workflow_state' = "ABORTED" => Gate' = "aborted"
    /\ workflow_state' \notin Approvable \union {"ABORTED"} => Gate' = "shut"
BY DEF Gate, Approvable

\* While a command runs nobody can have approved the run or aborted it.
LEMMA WorkingIsShut ==
    ASSUME Running, proc.pc # "idle"
    PROVE  Gate = "shut" /\ workflow_state \notin Approvable \union {"ABORTED"}
BY GateValues DEF Running, Live, TERMINAL_STATES

\* The steps that leave the plan, the blockers and the gate as they were.
LEMMA Unseen ==
    ASSUME TypeInv, Running, [Next]_vars,
           ~FocusVerify, ~JudgeReview, ~JudgeClosure, ~Abort
    PROVE  UNCHANGED Seen
<1> USE WorkingIsShut, GateValues, GateValuesNext DEF TypeInv, TypeOK
<1>0. ASSUME workflow_state \notin Approvable \union {"ABORTED"},
             workflow_state' \notin Approvable \union {"ABORTED"},
             UNCHANGED <<work.completed, review.blocking>>
      PROVE  UNCHANGED Seen
  BY <1>0 DEF Seen
<1>1. CASE Start
  <2>1. UNCHANGED <<work.completed, review.blocking>>
    BY <1>1 DEF Start, durable
  <2>2. workflow_state \notin Approvable \union {"ABORTED"}
    BY <1>1 DEF Start, Approvable
  <2>3. workflow_state' \notin Approvable \union {"ABORTED"}
    BY <1>1, <2>2 DEF Start, Approvable, Publish, StopAt, Raise
  <2> QED BY <1>0, <2>1, <2>2, <2>3
<1>2. CASE Preflight
  <2>1. UNCHANGED <<work.completed, review.blocking>>
    BY <1>2 DEF Preflight, durable
  <2>2. workflow_state \notin Approvable \union {"ABORTED"}
    BY <1>2 DEF Preflight, Approvable
  <2>3. workflow_state' \notin Approvable \union {"ABORTED"}
    BY <1>2, <2>2 DEF Preflight, Approvable, Publish, StopAt, Raise, BoundaryStop
  <2> QED BY <1>0, <2>1, <2>2, <2>3
<1>3. CASE EnterImplementing
  <2>1. UNCHANGED <<work.completed, review.blocking>>
    BY <1>3 DEF EnterImplementing, durable, WorkRecords
  <2>2. workflow_state \notin Approvable \union {"ABORTED"}
    BY <1>3 DEF EnterImplementing, Approvable
  <2>3. workflow_state' \notin Approvable \union {"ABORTED"}
    BY <1>3, <2>2 DEF EnterImplementing, Approvable, Publish, StopAt, Raise
  <2> QED BY <1>0, <2>1, <2>2, <2>3
<1>4. CASE RefuseImplementing
  <2>1. UNCHANGED <<work.completed, review.blocking>>
    BY <1>4 DEF RefuseImplementing, durable
  <2>2. workflow_state \notin Approvable \union {"ABORTED"}
    BY <1>4 DEF RefuseImplementing, Approvable
  <2>3. workflow_state' \notin Approvable \union {"ABORTED"}
    BY <1>4, <2>2
       DEF RefuseImplementing, Approvable, Publish, StopAt, Raise, BoundaryStop, Stopped
  <2> QED BY <1>0, <2>1, <2>2, <2>3
<1>5. CASE LeaveLoop
  <2>1. UNCHANGED <<work.completed, review.blocking>>
    BY <1>5 DEF LeaveLoop, durable
  <2>2. workflow_state \notin Approvable \union {"ABORTED"}
    BY <1>5 DEF LeaveLoop, Approvable
  <2>3. workflow_state' \notin Approvable \union {"ABORTED"}
    BY <1>5, <2>2 DEF LeaveLoop, Approvable, Publish, StopAt, Raise
  <2> QED BY <1>0, <2>1, <2>2, <2>3
<1>6. CASE FinalVerify
  <2>1. UNCHANGED <<work.completed, review.blocking>>
    BY <1>6 DEF FinalVerify, durable, WorkRecords, VerifiedNow, FailedNow
  <2>2. workflow_state \notin Approvable \union {"ABORTED"}
    BY <1>6 DEF FinalVerify, Approvable
  <2>3. workflow_state' \notin Approvable \union {"ABORTED"}
    BY <1>6, <2>2 DEF FinalVerify, Approvable, Publish, StopAt, Raise
  <2> QED BY <1>0, <2>1, <2>2, <2>3
<1>7. CASE BeginReview
  <2>1. UNCHANGED <<work.completed, review.blocking>>
    BY <1>7 DEF BeginReview, durable, ReviewRecords
  <2>2. workflow_state \notin Approvable \union {"ABORTED"}
    BY <1>7 DEF BeginReview, Approvable
  <2>3. workflow_state' \notin Approvable \union {"ABORTED"}
    BY <1>7, <2>2 DEF BeginReview, Approvable, Publish, StopAt, Raise
  <2> QED BY <1>0, <2>1, <2>2, <2>3
<1>8. CASE BeginCorrection
  <2>1. UNCHANGED <<work.completed, review.blocking>>
    BY <1>8 DEF BeginCorrection, durable
  <2>2. workflow_state \notin Approvable \union {"ABORTED"}
    BY <1>8 DEF BeginCorrection, Approvable
  <2>3. workflow_state' \notin Approvable \union {"ABORTED"}
    BY <1>8, <2>2 DEF BeginCorrection, Approvable, Publish, StopAt, Raise
  <2> QED BY <1>0, <2>1, <2>2, <2>3
<1>9. CASE BeginClosure
  <2>1. UNCHANGED <<work.completed, review.blocking>>
    BY <1>9 DEF BeginClosure, durable, WorkRecords, VerifiedNow, FailedNow
  <2>2. workflow_state \notin Approvable \union {"ABORTED"}
    BY <1>9 DEF BeginClosure, Approvable
  <2>3. workflow_state' \notin Approvable \union {"ABORTED"}
    BY <1>9, <2>2 DEF BeginClosure, Approvable, Publish, StopAt, Raise
  <2> QED BY <1>0, <2>1, <2>2, <2>3
<1>10. CASE EnterWait
  <2>1. UNCHANGED <<work.completed, review.blocking>>
    BY <1>10 DEF EnterWait, durable
  <2>2. workflow_state \notin Approvable \union {"ABORTED"}
    BY <1>10 DEF EnterWait, Approvable
  <2>3. workflow_state' \notin Approvable \union {"ABORTED"}
    BY <1>10, <2>2 DEF EnterWait, Approvable, Publish, StopAt, Raise
  <2> QED BY <1>0, <2>1, <2>2, <2>3
<1>11. CASE RecordIntent
  BY <1>11 DEF RecordIntent, Seen, Gate, durable
<1>12. CASE PublishPending
  BY <1>12 DEF PublishPending, Seen, Gate, durable
<1>13. CASE ProviderRefused
  <2>1. UNCHANGED <<work.completed, review.blocking>>
    BY <1>13 DEF ProviderRefused, durable
  <2>2. workflow_state \notin Approvable \union {"ABORTED"}
    BY <1>13 DEF ProviderRefused, Approvable
  <2>3. workflow_state' \notin Approvable \union {"ABORTED"}
    BY <1>13, <2>2, OriginValues
       DEF ProviderRefused, Approvable, Publish, StopAt, Raise, ProcRecords
  <2> QED BY <1>0, <2>1, <2>2, <2>3
<1>14. CASE Spawn
  BY <1>14 DEF Spawn, Seen, Gate, durable
<1>15. CASE ProviderReturns
  <2>1. UNCHANGED <<work.completed, review.blocking>>
    BY <1>15 DEF ProviderReturns, durable
  <2>2. workflow_state \notin Approvable \union {"ABORTED"}
    BY <1>15 DEF ProviderReturns, Approvable
  <2>3. workflow_state' \notin Approvable \union {"ABORTED"}
    BY <1>15, <2>2, OriginValues
       DEF ProviderReturns, Approvable, Publish, StopAt, Raise, ProcRecords
  <2> QED BY <1>0, <2>1, <2>2, <2>3
<1>16. CASE SpawnFails
  <2>1. UNCHANGED <<work.completed, review.blocking>>
    BY <1>16 DEF SpawnFails, durable
  <2>2. workflow_state \notin Approvable \union {"ABORTED"}
    BY <1>16 DEF SpawnFails, Approvable
  <2>3. workflow_state' \notin Approvable \union {"ABORTED"}
    BY <1>16, <2>2, OriginValues
       DEF SpawnFails, Approvable, Publish, StopAt, Raise, ProcRecords
  <2> QED BY <1>0, <2>1, <2>2, <2>3
<1>17. CASE RetryThroughWait
  <2>1. UNCHANGED <<work.completed, review.blocking>>
    BY <1>17 DEF RetryThroughWait, durable
  <2>2. workflow_state \notin Approvable \union {"ABORTED"}
    BY <1>17 DEF RetryThroughWait, Approvable
  <2>3. workflow_state' \notin Approvable \union {"ABORTED"}
    BY <1>17, <2>2, OriginValues
       DEF RetryThroughWait, Approvable, Publish, StopAt, Raise, ProcRecords
  <2> QED BY <1>0, <2>1, <2>2, <2>3
<1>18. CASE JudgeImplementation
  <2>1. UNCHANGED <<work.completed, review.blocking>>
    BY <1>18 DEF JudgeImplementation, durable, WorkRecords
  <2>2. workflow_state \notin Approvable \union {"ABORTED"}
    BY <1>18 DEF JudgeImplementation, Judging, Approvable
  <2>3. workflow_state' \notin Approvable \union {"ABORTED"}
    BY <1>18, <2>2 DEF JudgeImplementation, Approvable, Publish, StopAt, Raise
  <2> QED BY <1>0, <2>1, <2>2, <2>3
<1>19. CASE ProviderFailure
  <2>1. UNCHANGED <<work.completed, review.blocking>>
    BY <1>19 DEF ProviderFailure, durable, ReviewRecords, CountFailure
  <2>2. workflow_state \notin Approvable \union {"ABORTED"}
    BY <1>19 DEF ProviderFailure, Approvable
  <2>3. workflow_state' \notin Approvable \union {"ABORTED"}
    BY <1>19, <2>2 DEF ProviderFailure, Approvable, Publish, StopAt, Raise
  <2> QED BY <1>0, <2>1, <2>2, <2>3
<1>20. CASE JudgeCorrection
  <2>1. UNCHANGED <<work.completed, review.blocking>>
    BY <1>20 DEF JudgeCorrection, durable, ReviewRecords
  <2>2. workflow_state \notin Approvable \union {"ABORTED"}
    BY <1>20 DEF JudgeCorrection, Judging, Approvable
  <2>3. workflow_state' \notin Approvable \union {"ABORTED"}
    BY <1>20, <2>2 DEF JudgeCorrection, Approvable, Publish, StopAt, Raise
  <2> QED BY <1>0, <2>1, <2>2, <2>3
<1>21. CASE LeaveExcursion
  <2>1. UNCHANGED <<work.completed, review.blocking>>
    BY <1>21 DEF LeaveExcursion, durable
  <2>2. workflow_state \notin Approvable \union {"ABORTED"}
    BY <1>21 DEF LeaveExcursion, Approvable
  <2>3. workflow_state' \notin Approvable \union {"ABORTED"}
    BY <1>21, <2>2, ExcursionOrigin DEF LeaveExcursion, Approvable, Publish, StopAt, Raise
  <2> QED BY <1>0, <2>1, <2>2, <2>3
<1>22. CASE ResumeStep
  <2>1. UNCHANGED <<work.completed, review.blocking>>
    BY <1>22 DEF ResumeStep, durable
  <2>2. workflow_state \notin Approvable \union {"ABORTED"}
    BY <1>22 DEF ResumeStep, Approvable
  <2>3. workflow_state' \notin Approvable \union {"ABORTED"}
    BY <1>22, <2>2 DEF ResumeStep, Approvable, Publish, StopAt, Raise
  <2> QED BY <1>0, <2>1, <2>2, <2>3
<1>23. CASE Resume
  <2>1. UNCHANGED <<work.completed, review.blocking>>
    BY <1>23 DEF Resume, durable
  <2>2. workflow_state \notin Approvable \union {"ABORTED"}
    BY <1>23 DEF Resume, Approvable, Live, Stopped, TERMINAL_STATES
  <2>3. workflow_state' \notin Approvable \union {"ABORTED"}
    BY <1>23, <2>2
       DEF Resume, Approvable, Publish, StopAt, Raise, BoundaryStop, Stopped, Live,
           TERMINAL_STATES
  <2> QED BY <1>0, <2>1, <2>2, <2>3
<1>24. CASE ReconcileMilestone
  <2>1. UNCHANGED <<work.completed, review.blocking>>
    BY <1>24 DEF ReconcileMilestone, durable
  <2>2. workflow_state \notin Approvable \union {"ABORTED"}
    BY <1>24 DEF ReconcileMilestone, Approvable
  <2>3. workflow_state' \notin Approvable \union {"ABORTED"}
    BY <1>24, <2>2 DEF ReconcileMilestone, Approvable, Publish, StopAt, Raise
  <2> QED BY <1>0, <2>1, <2>2, <2>3
<1>25. CASE ReopenMilestone
  <2>1. UNCHANGED <<work.completed, review.blocking>>
    BY <1>25 DEF ReopenMilestone, durable, WorkRecords
  <2>2. workflow_state \notin Approvable \union {"ABORTED"}
    BY <1>25 DEF ReopenMilestone, Approvable
  <2>3. workflow_state' \notin Approvable \union {"ABORTED"}
    BY <1>25, <2>2 DEF ReopenMilestone, Approvable, Publish, StopAt, Raise
  <2> QED BY <1>0, <2>1, <2>2, <2>3
<1>26. CASE RecoverFailedReview
  <2>1. UNCHANGED <<work.completed, review.blocking>>
    BY <1>26 DEF RecoverFailedReview, durable, ReviewRecords
  <2>2. workflow_state \notin Approvable \union {"ABORTED"}
    BY <1>26 DEF RecoverFailedReview, Approvable
  <2>3. workflow_state' \notin Approvable \union {"ABORTED"}
    BY <1>26, <2>2 DEF RecoverFailedReview, Approvable, Publish, StopAt, Raise
  <2> QED BY <1>0, <2>1, <2>2, <2>3
<1>27. CASE RevalidateCorrection
  <2>1. UNCHANGED <<work.completed, review.blocking>>
    BY <1>27 DEF RevalidateCorrection, durable
  <2>2. workflow_state \notin Approvable \union {"ABORTED"}
    BY <1>27 DEF RevalidateCorrection, Approvable
  <2>3. workflow_state' \notin Approvable \union {"ABORTED"}
    BY <1>27, <2>2 DEF RevalidateCorrection, Approvable, Publish, StopAt, Raise
  <2> QED BY <1>0, <2>1, <2>2, <2>3
<1>28. CASE Crash
  BY <1>28 DEF Crash, Seen, Gate, durable
<1>29. CASE ProviderEdits
  BY <1>29 DEF ProviderEdits, Seen, Gate, durable
<1>30. CASE OrphanEdits
  BY <1>30 DEF OrphanEdits, Seen, Gate, durable
<1>31. CASE UNCHANGED vars
  BY <1>31 DEF vars, durable, Seen, Gate
<1> QED
  BY <1>1, <1>2, <1>3, <1>4, <1>5, <1>6, <1>7, <1>8, <1>9, <1>10, <1>11, <1>12, <1>13,
     <1>14, <1>15, <1>16, <1>17, <1>18, <1>19, <1>20, <1>21, <1>22, <1>23, <1>24, <1>25,
     <1>26, <1>27, <1>28, <1>29, <1>30, <1>31
     DEF Next, RunnerStep, Command

\* A step of the run is a step of its promise or changes nothing it shows.
LEMMA PromiseStep ==
    ASSUME GateInv, [Next]_vars
    PROVE  [Promise!Next]_(Promise!vars)
<1> USE DEF GateInv, TypeInv, TypeOK
<1>1. CASE FocusVerify
  <2>1. /\ Gate = "shut" /\ Gate' = "shut" /\ UNCHANGED review.blocking
    BY <1>1, WorkingIsShut, GateValuesNext
       DEF FocusVerify, StopAt, Publish, Approvable
  <2>2. \/ work'.completed = work.completed
        \/ work'.completed = work.completed \union {proc.milestone}
    <3>1. CASE work' = FailedNow
      BY <3>1 DEF FailedNow, WorkRecords
    <3>2. CASE work' = [work EXCEPT !.current = NoMilestone, !.checkpoint = worktree,
                                    !.completed = @ \union {proc.milestone}]
      BY <3>2 DEF WorkRecords
    <3> QED BY <1>1, <3>1, <3>2 DEF FocusVerify
  <2>3. proc.milestone \in Milestones
    BY <1>1 DEF FocusVerify, Aimed, ProcRecords, NoMilestone
  <2>4. CASE work'.completed = work.completed
    BY <2>1, <2>4 DEF Promise!vars
  <2>5. CASE /\ proc.milestone \notin work.completed
             /\ work'.completed = work.completed \union {proc.milestone}
    <3>1. Promise!Accept
      BY <2>1, <2>3, <2>5 DEF Promise!Accept
    <3> QED BY <3>1 DEF Promise!Next
  <2> QED BY <2>2, <2>4, <2>5
<1>2. CASE JudgeReview
  <2>1. Gate = "shut" /\ PlanDone /\ UNCHANGED work.completed
    BY <1>2, WorkingIsShut DEF JudgeReview, Judging, EarlyInv, CommandEarly
  <2>2. CASE Raise /\ UNCHANGED review
    BY <2>1, <2>2 DEF Raise, Gate, Promise!vars
  <2>3. ASSUME NEW fs \in SUBSET Findings, fs \intersect Known = {},
               review' = [review EXCEPT !.rounds = @ + 1,
                             !.blocking = [f \in Findings |->
                                IF f \in fs THEN "open" ELSE @[f]]],
               \/ Open \union fs = {}
               \/ workflow_state' \in {"NEEDS_CORRECTION", "HUMAN_INTERVENTION_REQUIRED"},
               workflow_state' \in {"NEEDS_CORRECTION", "HUMAN_INTERVENTION_REQUIRED",
                                    "READY_FOR_COMMIT_APPROVAL"}
        PROVE  Promise!Rule
    <3>1. review'.blocking = [f \in Findings |-> IF f \in fs THEN "open" ELSE review.blocking[f]]
      BY <2>3 DEF ReviewRecords
    <3>2. \A f \in fs : review.blocking[f] = "none"
      BY <2>3 DEF Known
    <3>3. Gate' = "shut" \/ (Gate' = "open" /\ \A f \in Findings : review'.blocking[f] # "open")
      <4>1. CASE workflow_state' \in {"NEEDS_CORRECTION", "HUMAN_INTERVENTION_REQUIRED"}
        BY <4>1, GateValuesNext DEF Approvable
      <4>2. CASE Open \union fs = {} /\ workflow_state' = "READY_FOR_COMMIT_APPROVAL"
        BY <3>1, <4>2, GateValuesNext DEF Approvable, Open
      <4> QED BY <2>3, <4>1, <4>2
    <3> QED BY <2>1, <2>3, <3>1, <3>2, <3>3 DEF Promise!Rule, PlanDone
  <2> QED BY <1>2, <2>2, <2>3 DEF JudgeReview, StopAt, Publish, Promise!Next
<1>3. CASE JudgeClosure
  <2>1. Gate = "shut" /\ PlanDone /\ UNCHANGED work.completed
    BY <1>3, WorkingIsShut DEF JudgeClosure, Judging, EarlyInv, CommandEarly
  <2>2. CASE Raise /\ UNCHANGED review
    BY <2>1, <2>2 DEF Raise, Gate, Promise!vars
  <2>3. ASSUME NEW fs \in SUBSET Open,
               review' = [review EXCEPT !.closures = @ + 1,
                             !.blocking = [f \in Findings |->
                                IF f \in fs THEN "closed" ELSE @[f]]],
               \/ fs = Open /\ workflow_state' = "READY_FOR_COMMIT_APPROVAL"
               \/ workflow_state' = "HUMAN_INTERVENTION_REQUIRED"
        PROVE  Promise!Rule
    <3>1. review'.blocking = [f \in Findings |-> IF f \in fs THEN "closed" ELSE review.blocking[f]]
      BY <2>3 DEF ReviewRecords
    <3>2. fs \in SUBSET Findings /\ \A f \in fs : review.blocking[f] = "open"
      BY DEF Open
    <3>3. Gate' = "shut" \/ (Gate' = "open" /\ \A f \in Findings : review'.blocking[f] # "open")
      <4>1. CASE workflow_state' = "HUMAN_INTERVENTION_REQUIRED"
        BY <4>1, GateValuesNext DEF Approvable
      <4>2. CASE fs = Open /\ workflow_state' = "READY_FOR_COMMIT_APPROVAL"
        BY <3>1, <4>2, GateValuesNext DEF Approvable, Open
      <4> QED BY <2>3, <4>1, <4>2
    <3> QED BY <2>1, <3>1, <3>2, <3>3 DEF Promise!Rule, PlanDone
  <2> QED BY <1>3, <2>2, <2>3 DEF JudgeClosure, Cleared, StopAt, Publish, Promise!Next
<1>4. CASE Abort
  <2>1. Gate # "aborted" /\ Gate' = "aborted"
    BY <1>4, GateValues, GateValuesNext
       DEF Abort, StopAt, Publish, Live, Approvable, TERMINAL_STATES
  <2>2. Promise!Abort
    BY <1>4, <2>1 DEF Abort, durable, Promise!Abort
  <2> QED BY <2>2 DEF Promise!Next
<1>5. CASE ~FocusVerify /\ ~JudgeReview /\ ~JudgeClosure /\ ~Abort
  BY <1>5, Unseen DEF Seen, Promise!vars
<1> QED BY <1>1, <1>2, <1>3, <1>4, <1>5

\* An ungoverned run keeps the promise it makes to whoever approves it: seen
\* from outside, every step accepts one milestone, rules, aborts or stutters.
THEOREM PromiseKept ==
    ASSUME ~PolicyGoverned
    PROVE  Spec => ImplementsPromise
<1>1. Init => Promise!Init
  BY DEF Init, Promise!Init, Gate, Approvable
<1>2. GateInv /\ [Next]_vars => GateInv'
  BY GateStep
<1>3. GateInv /\ [Next]_vars => [Promise!Next]_(Promise!vars)
  BY PromiseStep
<1> QED BY <1>1, <1>2, <1>3, GateInit, PTL DEF Spec, ImplementsPromise, Promise!Spec

-----------------------------------------------------------------------------
(***************************************************************************)
(* What the record of a run says of its providers: what is durable before  *)
(* a process has an effect, what a counter was paid with, which tree was   *)
(* verified, and what a resume may repeat.                                 *)
(***************************************************************************)

-----------------------------------------------------------------------------
(* Which steps change what: the rows, the fingerprint, the tree, and where in *)
(* an invocation the command is.                                              *)

RowStep == PublishPending \/ ProviderReturns \/ SpawnFails

\* The steps of one invocation before its result is judged.
InvocationStep ==
    \/ BeginReview \/ BeginClosure \/ EnterWait \/ RecordIntent \/ RowStep
    \/ ProviderRefused \/ Spawn

\* The steps that are no part of a command.
OutsideStep == ProviderEdits \/ OrphanEdits \/ UNCHANGED vars

Awaiting == {"waiting", "intended", "started", "spawned", "judge"}

\* The fields of a command record with no command.
LEMMA IdleFields ==
    /\ Idle \in ProcRecords
    /\ Idle.pc = "idle" /\ Idle.role = "IMPLEMENTATION" /\ Idle.milestone = NoMilestone
    /\ Idle.todo = {} /\ Idle.resumed = FALSE /\ Idle.outcome = "none"
BY DEF Idle, ProcRecords, Pcs, Roles, NoMilestone

\* Rows, fingerprint and tree are changed by the steps of an invocation only or by an
\* edit, and only those steps lead into its program points.
LEMMA Moves ==
    ASSUME TypeInv, [Next]_vars, ~InvocationStep, ~OutsideStep
    PROVE  /\ UNCHANGED <<provider_runs, intent, worktree>>
           /\ proc'.pc \notin Awaiting
<1> USE DEF TypeInv, TypeOK, Awaiting
<1>1. CASE Start
  BY <1>1, IdleFields DEF Start, Publish, StopAt, durable, world, ProcRecords
<1>2. CASE Preflight
  BY <1>2, IdleFields DEF Preflight, Publish, StopAt, durable, world, ProcRecords, BoundaryStop,
       Remaining
<1>3. CASE EnterImplementing
  BY <1>3 DEF EnterImplementing, Publish, StopAt, durable, world, ProcRecords
<1>4. CASE RefuseImplementing
  BY <1>4, IdleFields DEF RefuseImplementing, Publish, StopAt, durable, world, ProcRecords,
       BoundaryStop, Stopped, Approvable
<1>5. CASE LeaveLoop
  BY <1>5, IdleFields DEF LeaveLoop, Publish, StopAt, durable, world, ProcRecords, HandBack,
       Remaining
<1>6. CASE FocusVerify
  BY <1>6, IdleFields DEF FocusVerify, Publish, StopAt, durable, world, ProcRecords, FailedNow
<1>7. CASE FinalVerify
  BY <1>7, IdleFields DEF FinalVerify, Publish, StopAt, durable, world, ProcRecords, FailedNow,
       VerifiedNow
<1>8. CASE BeginCorrection
  BY <1>8, IdleFields DEF BeginCorrection, Publish, StopAt, durable, world, ProcRecords
<1>9. CASE RetryThroughWait
  BY <1>9 DEF RetryThroughWait, Publish, StopAt, durable, world, ProcRecords
<1>10. CASE JudgeImplementation
  BY <1>10, IdleFields DEF JudgeImplementation, Publish, StopAt, durable, world, ProcRecords,
       Judging
<1>11. CASE ProviderFailure
  BY <1>11, IdleFields DEF ProviderFailure, Publish, StopAt, durable, world, ProcRecords,
       CountFailure
<1>12. CASE JudgeReview
  BY <1>12, IdleFields DEF JudgeReview, Publish, StopAt, durable, world, ProcRecords, Judging,
       Raise
<1>13. CASE JudgeCorrection
  BY <1>13, IdleFields DEF JudgeCorrection, Publish, StopAt, durable, world, ProcRecords,
       Judging, Raise
<1>14. CASE JudgeClosure
  BY <1>14, IdleFields DEF JudgeClosure, Publish, StopAt, durable, world, ProcRecords, Judging,
       Raise
<1>15. CASE LeaveExcursion
  BY <1>15 DEF LeaveExcursion, Publish, StopAt, durable, world, ProcRecords
<1>16. CASE ResumeStep
  BY ZenonT(60), <1>16, IdleFields DEF ResumeStep, Publish, StopAt, durable, world, ProcRecords
<1>17. CASE Resume
  BY <1>17, IdleFields DEF Resume, Publish, StopAt, durable, world, ProcRecords, Issued,
       BoundaryStop
<1>18. CASE Abort
  BY <1>18, IdleFields DEF Abort, Publish, StopAt, durable, world, ProcRecords
<1>19. CASE ReconcileMilestone
  BY <1>19, IdleFields DEF ReconcileMilestone, Publish, StopAt, durable, world, ProcRecords,
       Issued
<1>20. CASE ReopenMilestone
  BY <1>20, IdleFields DEF ReopenMilestone, Publish, StopAt, durable, world, ProcRecords, Issued
<1>21. CASE RecoverFailedReview
  BY <1>21, IdleFields DEF RecoverFailedReview, Publish, StopAt, durable, world, ProcRecords,
       Issued
<1>22. CASE RevalidateCorrection
  BY <1>22, IdleFields DEF RevalidateCorrection, Publish, StopAt, durable, world, ProcRecords,
       Issued
<1>23. CASE Crash
  BY <1>23, IdleFields DEF Crash, Publish, StopAt, durable, world, ProcRecords
<1>24. CASE UNCHANGED vars
  BY <1>24 DEF OutsideStep
<1> QED
  BY <1>1, <1>2, <1>3, <1>4, <1>5, <1>6, <1>7, <1>8, <1>9, <1>10, <1>11, <1>12, <1>13,
     <1>14, <1>15, <1>16, <1>17, <1>18, <1>19, <1>20, <1>21, <1>22, <1>23, <1>24
     DEF Next, RunnerStep, Command, InvocationStep, RowStep, OutsideStep

-----------------------------------------------------------------------------
(* The row of a process.  From its fingerprint on the run is in PROVIDER_WAIT, *)
(* and from its row on that is the last one, not complete, and bound to the    *)
(* fingerprint.                                                                *)

WaitIsPublic ==
    proc.pc \in {"waiting", "intended", "started", "spawned"} =>
        workflow_state = "PROVIDER_WAIT"

RowAwaited ==
    proc.pc \in {"started", "spawned"} =>
        /\ InFlight /\ LastRun.role = proc.role /\ LastRun.milestone = proc.milestone
        /\ intent.sequence = LastRun.sequence

RowInv == TypeInv /\ WaitIsPublic /\ RowAwaited

\* The row appended is the last one.
LEMMA PendingIsLast ==
    ASSUME TypeOK, PublishPending
    PROVE  /\ PendingRow \in RunRows
           /\ Len(provider_runs') = Len(provider_runs) + 1
           /\ provider_runs'[Len(provider_runs')] = PendingRow
           /\ LastRun' = PendingRow /\ InFlight'
           /\ DOMAIN provider_runs' = DOMAIN provider_runs \union {Len(provider_runs) + 1}
           /\ \A i \in DOMAIN provider_runs : provider_runs'[i] = provider_runs[i]
<1>1. PendingRow \in RunRows
  BY DEF TypeOK, PendingRow, RunRows, ProcRecords, NoFailure
<1>2. provider_runs \in Seq(RunRows) /\ provider_runs' = Append(provider_runs, PendingRow)
  BY DEF TypeOK, PublishPending
<1>3. /\ Len(provider_runs') = Len(provider_runs) + 1
      /\ provider_runs'[Len(provider_runs) + 1] = PendingRow
      /\ DOMAIN provider_runs' = 1 .. Len(provider_runs) + 1
      /\ DOMAIN provider_runs = 1 .. Len(provider_runs)
      /\ \A i \in 1 .. Len(provider_runs) : provider_runs'[i] = provider_runs[i]
      /\ Len(provider_runs) \in Nat
  BY <1>1, <1>2, AppendProperties, LenProperties
<1>4. LastRun' = PendingRow
  BY <1>3 DEF LastRun
<1>5. ~PendingRow.completed
  BY DEF PendingRow
<1> QED BY <1>1, <1>3, <1>4, <1>5 DEF InFlight

\* The row settled stays the last one and is the only one changed.
LEMMA SettledRow ==
    ASSUME TypeOK, Len(provider_runs) > 0, NEW failure \in FailureClasses \union {NoFailure},
           provider_runs' = Settled(failure)
    PROVE  /\ LastRun \in RunRows /\ LastRun' \in RunRows
           /\ Len(provider_runs') = Len(provider_runs)
           /\ Len(provider_runs) \in DOMAIN provider_runs
           /\ DOMAIN provider_runs' = DOMAIN provider_runs
           /\ LastRun' = [LastRun EXCEPT !.completed = TRUE, !.failure = failure]
           /\ \A i \in DOMAIN provider_runs :
                 i # Len(provider_runs) => provider_runs'[i] = provider_runs[i]
<1>1. provider_runs \in Seq(RunRows) /\ Len(provider_runs) \in DOMAIN provider_runs
  BY LenProperties DEF TypeOK
<1>2. LastRun \in RunRows
  BY <1>1, ElementOfSeq DEF LastRun
<1>3. Len(provider_runs') = Len(provider_runs) /\ DOMAIN provider_runs' = DOMAIN provider_runs
  BY SettledTyped, SettledRoles
<1>4. LastRun' = [LastRun EXCEPT !.completed = TRUE, !.failure = failure]
  BY <1>1, <1>3 DEF Settled, LastRun
<1>5. LastRun' \in RunRows
  BY <1>2, <1>4 DEF RunRows
<1> QED BY <1>1, <1>2, <1>3, <1>4, <1>5 DEF Settled

\* What is said of the last row depends on the rows only.
LEMMA RowsStand ==
    ASSUME UNCHANGED provider_runs
    PROVE  LastRun' = LastRun /\ InFlight' = InFlight
BY DEF LastRun, InFlight

\* A new run has no process.
LEMMA RowInit == Init => RowInv
BY TypeInit, IdleFields DEF Init, RowInv, WaitIsPublic, RowAwaited

\* Each step keeps the row of the process.
LEMMA RowNext == RowInv /\ [Next]_vars => RowInv'
<1> SUFFICES ASSUME RowInv, [Next]_vars PROVE RowInv'
  OBVIOUS
<1> USE DEF RowInv, TypeInv, TypeOK
<1>0. TypeInv'
  BY TypeNext
<1>1. CASE BeginReview \/ BeginClosure \/ EnterWait
  <2>1. workflow_state' = "PROVIDER_WAIT" \/ proc' = Idle
    BY <1>1 DEF BeginReview, BeginClosure, EnterWait, Publish, StopAt
  <2>2. proc'.pc \notin {"started", "spawned"}
    BY <1>1, IdleFields DEF BeginReview, BeginClosure, EnterWait, StopAt, ProcRecords
  <2> QED BY <1>0, <2>1, <2>2, IdleFields DEF WaitIsPublic, RowAwaited
<1>2. CASE RecordIntent
  BY <1>0, <1>2 DEF RecordIntent, WaitIsPublic, RowAwaited, ProcRecords
<1>3. CASE PublishPending
  <2>1. /\ proc'.role = proc.role /\ proc'.milestone = proc.milestone
        /\ proc'.pc = "started" /\ intent' = intent
        /\ workflow_state' = "PROVIDER_WAIT"
    BY <1>3 DEF PublishPending, world, ProcRecords, WaitIsPublic
  <2>2. LastRun' = PendingRow /\ InFlight'
    BY <1>3, PendingIsLast
  <2> QED BY <1>0, <2>1, <2>2 DEF WaitIsPublic, RowAwaited, PendingRow
<1>4. CASE ProviderRefused \/ ProviderReturns \/ SpawnFails
  <2>1. proc'.pc \in {"judge", "retry"}
    BY <1>4 DEF ProviderRefused, ProviderReturns, SpawnFails, ProcRecords
  <2> QED BY <1>0, <2>1 DEF WaitIsPublic, RowAwaited
<1>5. CASE Spawn
  <2>1. /\ proc'.role = proc.role /\ proc'.milestone = proc.milestone /\ proc.pc = "started"
        /\ UNCHANGED <<workflow_state, provider_runs, intent>>
    BY <1>5 DEF Spawn, durable, world, ProcRecords
  <2> QED BY <1>0, <2>1, RowsStand DEF WaitIsPublic, RowAwaited
<1>6. CASE OutsideStep
  <2>1. UNCHANGED <<workflow_state, provider_runs, intent, proc>>
    BY <1>6 DEF OutsideStep, ProviderEdits, OrphanEdits, vars, durable, world
  <2> QED BY <1>0, <2>1, RowsStand DEF WaitIsPublic, RowAwaited
<1>7. CASE ~InvocationStep /\ ~OutsideStep
  BY <1>0, <1>7, Moves DEF WaitIsPublic, RowAwaited, Awaiting
<1> QED BY <1>1, <1>2, <1>3, <1>4, <1>5, <1>6, <1>7 DEF InvocationStep, RowStep

-----------------------------------------------------------------------------
(* The tree of a fingerprint.  What is fingerprinted is the tree, and before its *)
(* process may edit it only providers left behind do, whose paths are strays.    *)

Covered == ChangedSince(worktree, intent.tree) \subseteq strays.command

TreeIsKnown ==
    \/ proc.pc \in {"intended", "started"}
    \/ proc.pc = "spawned" /\ proc.role \notin Editors
    => Covered

TreeInv == RowInv /\ TreeIsKnown

\* An edit of a provider left behind makes its path a stray.
LEMMA StraysCover ==
    ASSUME TypeOK, OrphanEdits, NEW base
    PROVE  /\ ChangedSince(worktree, base) \subseteq strays.command =>
                 ChangedSince(worktree', base) \subseteq strays'.command
           /\ ChangedSince(worktree, base) \subseteq strays.verified =>
                 ChangedSince(worktree', base) \subseteq strays'.verified
<1>1. PICK p \in Milestones :
         /\ worktree' = [worktree EXCEPT ![p] = @ + 1]
         /\ strays' = [verified |-> strays.verified \union {p},
                       command |-> strays.command \union {p}]
  BY DEF OrphanEdits
<1>2. \A q \in Milestones : q # p => worktree'[q] = worktree[q]
  BY <1>1 DEF TypeOK, Trees
<1>3. ChangedSince(worktree', base) \subseteq ChangedSince(worktree, base) \union {p}
  BY <1>2 DEF ChangedSince
<1>4. /\ strays'.command = strays.command \union {p}
      /\ strays'.verified = strays.verified \union {p}
  BY <1>1
<1> QED BY <1>3, <1>4

\* Paths stop being strays only where the tree is looked at anew: a resume reconciles
\* it, a passing final set verifies it.
LEMMA StraysStand ==
    ASSUME TypeOK, [Next]_vars, ~OrphanEdits
    PROVE  /\ ~Resume => strays'.command = strays.command
           /\ ~FinalVerify /\ ~BeginClosure => strays'.verified = strays.verified
<1>1. CASE FinalVerify
  BY <1>1 DEF FinalVerify, TypeOK
<1>2. CASE BeginClosure
  BY <1>2 DEF BeginClosure, TypeOK
<1>3. CASE Resume
  BY <1>3 DEF Resume, TypeOK
<1>4. CASE ~FinalVerify /\ ~BeginClosure /\ ~Resume
  <2>1. UNCHANGED strays
    BY <1>4
       DEF Next, RunnerStep, Command, Start, Preflight, EnterImplementing,
           RefuseImplementing, LeaveLoop, FocusVerify, BeginReview,
           BeginCorrection, EnterWait, RecordIntent, PublishPending,
           ProviderRefused, Spawn, ProviderReturns, SpawnFails, RetryThroughWait,
           JudgeImplementation, ProviderFailure, JudgeReview, JudgeCorrection,
           JudgeClosure, LeaveExcursion, ResumeStep, Abort, ReconcileMilestone,
           ReopenMilestone, RecoverFailedReview, RevalidateCorrection, ProviderEdits,
           Crash, world, vars
  <2> QED BY <2>1
<1> QED BY <1>1, <1>2, <1>3, <1>4

\* Only the process that is awaited makes an edit that is no stray, and only if its
\* role is to edit.
LEMMA EditsAreAwaited ==
    ASSUME ProviderEdits
    PROVE  /\ proc.pc = "spawned" /\ proc.role \in Editors
           /\ UNCHANGED <<workflow_state, work, provider_runs, review, reopenings, intent, proc>>
BY DEF ProviderEdits, durable

\* Every other step of a command leaves a covered tree covered.
LEMMA CoveredStays ==
    ASSUME TypeInv, Covered, [Next]_vars, ~ProviderEdits, ~RecordIntent, ~Resume
    PROVE  Covered'
<1> USE DEF TypeInv
<1>1. CASE OrphanEdits
  <2>1. intent' = intent
    BY <1>1 DEF OrphanEdits
  <2> QED BY <1>1, <2>1, StraysCover DEF Covered
<1>2. CASE ~OrphanEdits
  <2>1. UNCHANGED <<intent, worktree>>
    BY <1>2, Moves
       DEF InvocationStep, OutsideStep, RowStep, BeginReview, BeginClosure, EnterWait,
           ProviderRefused, Spawn, PublishPending, ProviderReturns, SpawnFails, vars, world
  <2> QED BY <1>2, <2>1, StraysStand DEF Covered
<1> QED BY <1>1, <1>2

\* A tree that is the fingerprint's is covered.
LEMMA SameIsCovered == intent.tree = worktree => Covered
BY DEF Covered, ChangedSince

\* A new run has no process.
LEMMA TreeInit == Init => TreeInv
BY RowInit, IdleFields DEF Init, TreeInv, TreeIsKnown

\* Each step keeps the tree of the fingerprint.
LEMMA TreeNext == TreeInv /\ [Next]_vars => TreeInv'
<1> SUFFICES ASSUME TreeInv, [Next]_vars PROVE TreeInv'
  OBVIOUS
<1> USE DEF TreeInv, RowInv, TypeInv, TypeOK
<1>0. RowInv'
  BY RowNext
<1>1. CASE BeginReview \/ BeginClosure \/ EnterWait \/ ProviderRefused \/ ProviderReturns
              \/ SpawnFails
  <2>1. proc'.pc \notin {"intended", "started", "spawned"}
    BY ZenonT(60), <1>1, IdleFields
       DEF BeginReview, BeginClosure, EnterWait, ProviderRefused, ProviderReturns,
           SpawnFails, StopAt, ProcRecords
  <2> QED BY <1>0, <2>1 DEF TreeIsKnown
<1>2. CASE RecordIntent
  <2>1. intent'.tree = worktree'
    BY <1>2 DEF RecordIntent
  <2> QED BY <1>0, <2>1 DEF TreeIsKnown, Covered, ChangedSince
<1>3. CASE PublishPending \/ Spawn
  <2>1. proc.pc \in {"intended", "started"} /\ UNCHANGED <<intent, worktree, strays>>
    BY <1>3 DEF PublishPending, Spawn, world
  <2> QED BY <1>0, <2>1 DEF TreeIsKnown, Covered
<1>4. CASE ProviderEdits
  BY <1>0, <1>4, EditsAreAwaited DEF TreeIsKnown
<1>5. CASE OrphanEdits
  <2>1. UNCHANGED <<intent, proc>>
    BY <1>5 DEF OrphanEdits
  <2> QED BY <1>0, <1>5, <2>1, StraysCover DEF TreeIsKnown, Covered
<1>6. CASE UNCHANGED vars
  BY <1>0, <1>6 DEF vars, world, TreeIsKnown, Covered
<1>7. CASE ~InvocationStep /\ ~OutsideStep
  BY <1>0, <1>7, Moves DEF TreeIsKnown, Awaiting
<1> QED BY <1>1, <1>2, <1>3, <1>4, <1>5, <1>6, <1>7 DEF InvocationStep, RowStep, OutsideStep

\* While a provider process exists the record already shows it: the run is in
\* PROVIDER_WAIT, its last row is that invocation, and the fingerprint is that row's
\* and, but for what providers left behind changed, older than any effect.
THEOREM ProcessesAreOnRecord == Spec => []DurableBeforeEffect
<1>1. TreeInv => DurableBeforeEffect
  BY DEF TreeInv, RowInv, WaitIsPublic, RowAwaited, TreeIsKnown, Covered, DurableBeforeEffect
<1>2. TreeInv /\ [Next]_vars => TreeInv'
  BY TreeNext
<1> QED BY <1>1, <1>2, TreeInit, PTL DEF Spec

-----------------------------------------------------------------------------
(* What a round was paid with.  A result at hand is not charged yet: while it  *)
(* is judged, its invocation is one more than the rounds of its role.          *)

Paid(role) ==
    {i \in DOMAIN provider_runs :
        /\ provider_runs[i].role = role
        /\ provider_runs[i].completed /\ provider_runs[i].failure = NoFailure}

AtHand(role) == proc.pc = "judge" /\ proc.role = role /\ proc.outcome = "returned"

UnchargedResult ==
    /\ AtHand("REVIEW") => review.rounds < Returned("REVIEW")
    /\ AtHand("CORRECTION") => review.corrections < Returned("CORRECTION")
    /\ AtHand("CLOSURE") => review.closures < Returned("CLOSURE")

EarnedInv == RowInv /\ RoundsAreEarned /\ UnchargedResult

\* There are finitely many invocations.
LEMMA PaidFinite ==
    ASSUME TypeOK, NEW role
    PROVE  IsFiniteSet(Paid(role)) /\ Returned(role) = Cardinality(Paid(role))
           /\ Returned(role) \in Nat
<1>1. Len(provider_runs) \in Nat /\ DOMAIN provider_runs = 1 .. Len(provider_runs)
  BY LenProperties DEF TypeOK
<1>2. IsFiniteSet(DOMAIN provider_runs)
  <2>1. IsFiniteSet(1 .. Len(provider_runs))
    BY <1>1, FS_Interval
  <2> QED BY <1>1, <2>1
<1>3. Paid(role) \subseteq DOMAIN provider_runs
  BY DEF Paid
<1>4. IsFiniteSet(Paid(role))
  BY <1>2, <1>3, FS_Subset
<1> QED BY <1>4, FS_CardinalityType DEF Returned, Paid

\* Without a step that writes a row no row changes and no result comes to hand.
LEMMA ResultsStand ==
    ASSUME TypeInv, [Next]_vars, ~RowStep, NEW role
    PROVE  UNCHANGED provider_runs /\ (AtHand(role)' => AtHand(role))
<1>1. UNCHANGED provider_runs
  BY Moves
     DEF InvocationStep, OutsideStep, BeginReview, BeginClosure, EnterWait, RecordIntent,
         ProviderRefused, Spawn, ProviderEdits, OrphanEdits, vars, durable
<1>2. CASE OutsideStep
  BY <1>1, <1>2 DEF OutsideStep, ProviderEdits, OrphanEdits, vars, AtHand
<1>3. CASE InvocationStep
  <2>1. ~AtHand(role)'
    BY <1>3, IdleFields
       DEF InvocationStep, BeginReview, BeginClosure, EnterWait, RecordIntent,
           ProviderRefused, Spawn, StopAt, AtHand, TypeInv, TypeOK, ProcRecords
  <2> QED BY <1>1, <2>1
<1>4. CASE ~InvocationStep /\ ~OutsideStep
  BY <1>1, <1>4, Moves DEF AtHand, Awaiting
<1> QED BY <1>2, <1>3, <1>4

\* A row that is not complete pays for nothing, and one that is never changes.
LEMMA ReturnedGrows ==
    ASSUME RowInv, [Next]_vars, NEW role
    PROVE  /\ Returned(role)' \in Nat /\ Returned(role) \in Nat
           /\ Returned(role)' >= Returned(role)
           /\ AtHand(role)' /\ ~AtHand(role) => Returned(role)' = Returned(role) + 1
<1> USE DEF RowInv, TypeInv
<1>0. TypeOK'
  BY TypeNext
<1>1. /\ IsFiniteSet(Paid(role)) /\ Returned(role) = Cardinality(Paid(role))
      /\ Returned(role) \in Nat
  BY PaidFinite
<1>2. Returned(role)' = Cardinality(Paid(role)')
  BY DEF Returned, Paid
<1>3. CASE UNCHANGED provider_runs /\ (AtHand(role)' => AtHand(role))
  BY <1>1, <1>3 DEF Returned
<1>4. CASE PublishPending
  <2>1. Paid(role)' = Paid(role)
    <3>1. ~PendingRow.completed
      BY DEF PendingRow
    <3>2. \A i \in DOMAIN provider_runs' :
             \/ i \in DOMAIN provider_runs /\ provider_runs'[i] = provider_runs[i]
             \/ i \notin DOMAIN provider_runs /\ ~provider_runs'[i].completed
      BY <1>4, <3>1, PendingIsLast
    <3>3. DOMAIN provider_runs \subseteq DOMAIN provider_runs'
      BY <1>4, PendingIsLast
    <3> QED BY <3>2, <3>3 DEF Paid
  <2>2. ~AtHand(role)'
    BY <1>4 DEF PublishPending, AtHand, TypeOK, ProcRecords
  <2> QED BY <1>1, <1>2, <2>1, <2>2
<1>5. ASSUME NEW failure \in {NoFailure, "OTHER", "SPAWN_FAILED"},
             provider_runs' = Settled(failure),
             proc.pc \in {"started", "spawned"},
             proc'.outcome = "returned" => failure = NoFailure \/ proc'.pc # "judge",
             proc'.role = proc.role
      PROVE  /\ Returned(role)' \in Nat /\ Returned(role)' >= Returned(role)
             /\ AtHand(role)' => Returned(role)' = Returned(role) + 1
  <2> DEFINE n == Len(provider_runs)
  <2>1. InFlight /\ LastRun.role = proc.role
    BY <1>5 DEF RowAwaited
  <2>2. failure \in FailureClasses \union {NoFailure} /\ n > 0
    BY <2>1 DEF InFlight, FailureClasses
  <2>3. /\ n \in DOMAIN provider_runs /\ DOMAIN provider_runs' = DOMAIN provider_runs
        /\ LastRun \in RunRows /\ provider_runs[n] = LastRun
        /\ provider_runs'[n] = [LastRun EXCEPT !.completed = TRUE, !.failure = failure]
        /\ \A i \in DOMAIN provider_runs : i # n => provider_runs'[i] = provider_runs[i]
    BY <1>5, <2>2, SettledRow DEF LastRun
  <2>4. n \notin Paid(role)
    BY <2>1, <2>3 DEF Paid, InFlight
  <2>5. CASE failure = NoFailure /\ proc.role = role
    <3>1. Paid(role)' = Paid(role) \union {n}
      BY ZenonT(60), <2>1, <2>3, <2>5 DEF Paid, RunRows
    <3>2. Cardinality(Paid(role) \union {n}) = Cardinality(Paid(role)) + 1
      BY <1>1, <2>4, FS_AddElement
    <3> QED BY <1>1, <1>2, <3>1, <3>2
  <2>6. CASE ~(failure = NoFailure /\ proc.role = role)
    <3>1. Paid(role)' = Paid(role)
      BY ZenonT(60), <2>1, <2>3, <2>4, <2>6 DEF Paid, RunRows
    <3>2. ~AtHand(role)'
      BY <1>5, <2>6 DEF AtHand
    <3> QED BY <1>1, <1>2, <3>1, <3>2
  <2> QED BY <2>5, <2>6
<1>6. CASE ProviderReturns
  <2>1. PICK failure \in {NoFailure, "OTHER"} :
           /\ provider_runs' = Settled(failure)
           /\ proc' = [proc EXCEPT !.pc = "judge",
                          !.outcome = IF failure = NoFailure THEN "returned" ELSE "failed"]
    BY <1>6 DEF ProviderReturns
  <2>2. /\ proc'.role = proc.role /\ proc.pc \in {"started", "spawned"}
        /\ proc'.outcome = "returned" => failure = NoFailure \/ proc'.pc # "judge"
    BY <1>6, <2>1 DEF ProviderReturns, TypeOK, ProcRecords
  <2> QED BY <1>1, <1>5, <2>1, <2>2
<1>7. CASE SpawnFails
  <2>1. /\ provider_runs' = Settled("SPAWN_FAILED") /\ proc'.role = proc.role
        /\ proc.pc \in {"started", "spawned"}
        /\ proc'.outcome = "returned" => proc'.pc # "judge"
    BY <1>7 DEF SpawnFails, TypeOK, ProcRecords
  <2> QED BY <1>1, <1>5, <2>1
<1>8. CASE ~RowStep
  BY <1>3, <1>8, ResultsStand
<1> QED BY <1>4, <1>6, <1>7, <1>8 DEF RowStep

\* Rounds are counted where a result is judged, and given back by one recovery.
LEMMA BudgetsStand ==
    ASSUME TypeInv, [Next]_vars,
           ~JudgeReview, ~JudgeCorrection, ~JudgeClosure, ~RecoverFailedReview
    PROVE  UNCHANGED <<review.rounds, review.corrections, review.closures>>
<1> USE DEF TypeInv, TypeOK, ReviewRecords
<1>1. CASE BeginReview
  BY <1>1 DEF BeginReview
<1>2. CASE ProviderFailure
  BY <1>2 DEF ProviderFailure, CountFailure
<1>3. CASE ~BeginReview /\ ~ProviderFailure
  BY <1>3
     DEF Next, RunnerStep, Command, Start, Preflight, EnterImplementing,
         RefuseImplementing, LeaveLoop, FocusVerify, FinalVerify, BeginCorrection,
         BeginClosure, EnterWait, RecordIntent, PublishPending, ProviderRefused, Spawn,
         ProviderReturns, SpawnFails, RetryThroughWait, JudgeImplementation,
         LeaveExcursion, ResumeStep, Resume, Abort, ReconcileMilestone, ReopenMilestone,
         RevalidateCorrection, Crash, ProviderEdits, OrphanEdits, durable, vars
<1> QED BY <1>1, <1>2, <1>3

\* A new run has counted nothing.
LEMMA EarnedInit == Init => EarnedInv
<1> SUFFICES ASSUME Init PROVE EarnedInv
  OBVIOUS
<1>1. RowInv /\ TypeOK
  BY RowInit, TypeInit DEF TypeInv
<1>2. \A role \in Roles : Returned(role) \in Nat
  BY <1>1, PaidFinite
<1>3. /\ review.rounds = 0 /\ review.corrections = 0 /\ review.closures = 0
      /\ proc.pc = "idle"
  BY IdleFields DEF Init
<1> QED BY <1>1, <1>2, <1>3 DEF EarnedInv, RoundsAreEarned, UnchargedResult, AtHand, Roles

\* Each step counts only what is paid.
LEMMA EarnedNext == EarnedInv /\ [Next]_vars => EarnedInv'
<1> SUFFICES ASSUME EarnedInv, [Next]_vars PROVE EarnedInv'
  OBVIOUS
<1> USE DEF EarnedInv
<1>0. RowInv' /\ TypeOK /\ TypeOK'
  BY RowNext DEF RowInv, TypeInv
<1>1. \A role \in Roles :
         /\ Returned(role)' \in Nat /\ Returned(role) \in Nat
         /\ Returned(role)' >= Returned(role)
         /\ AtHand(role)' /\ ~AtHand(role) => Returned(role)' = Returned(role) + 1
  BY ReturnedGrows
<1>2. /\ review.rounds \in Nat /\ review.corrections \in Nat /\ review.closures \in Nat
      /\ review'.rounds \in Nat /\ review'.corrections \in Nat /\ review'.closures \in Nat
  BY <1>0 DEF TypeOK, ReviewRecords
<1>3. CASE JudgeReview \/ JudgeCorrection \/ JudgeClosure \/ RecoverFailedReview
  <2>1. \A role \in Roles : ~AtHand(role)'
    BY <1>3, <1>0, IdleFields
       DEF JudgeReview, JudgeCorrection, JudgeClosure, RecoverFailedReview, Judging, Raise,
           StopAt, AtHand, TypeOK, ProcRecords
  <2>2. /\ \/ review'.rounds <= review.rounds
           \/ AtHand("REVIEW") /\ review'.rounds = review.rounds + 1
        /\ \/ review'.corrections = review.corrections
           \/ AtHand("CORRECTION") /\ review'.corrections = review.corrections + 1
        /\ \/ review'.closures = review.closures
           \/ AtHand("CLOSURE") /\ review'.closures = review.closures + 1
    <3>0. review \in ReviewRecords
      BY <1>0 DEF TypeOK
    <3>1. CASE JudgeReview
      <4>1. UNCHANGED review \/ \E marks :
               review' = [review EXCEPT !.rounds = @ + 1, !.blocking = marks]
        BY <3>1 DEF JudgeReview
      <4>2. \/ UNCHANGED review
            \/ /\ review'.rounds = review.rounds + 1
               /\ review'.corrections = review.corrections /\ review'.closures = review.closures
        BY <3>0, <4>1 DEF ReviewRecords
      <4>3. AtHand("REVIEW")
        BY <3>1 DEF JudgeReview, Judging, AtHand
      <4> QED BY <4>2, <4>3, <1>2
    <3>2. CASE JudgeCorrection
      <4>1. UNCHANGED review \/ review' = [review EXCEPT !.corrections = @ + 1]
        BY <3>2 DEF JudgeCorrection
      <4>2. \/ UNCHANGED review
            \/ /\ review'.corrections = review.corrections + 1
               /\ review'.rounds = review.rounds /\ review'.closures = review.closures
        BY <3>0, <4>1 DEF ReviewRecords
      <4>3. AtHand("CORRECTION")
        BY <3>2 DEF JudgeCorrection, Judging, AtHand
      <4> QED BY <4>2, <4>3, <1>2
    <3>3. CASE JudgeClosure
      <4>1. UNCHANGED review \/ \E marks :
               review' = [review EXCEPT !.closures = @ + 1, !.blocking = marks]
        BY <3>3 DEF JudgeClosure
      <4>2. \/ UNCHANGED review
            \/ /\ review'.closures = review.closures + 1
               /\ review'.rounds = review.rounds /\ review'.corrections = review.corrections
        BY <3>0, <4>1 DEF ReviewRecords
      <4>3. AtHand("CLOSURE")
        BY <3>3 DEF JudgeClosure, Judging, AtHand
      <4> QED BY <4>2, <4>3, <1>2
    <3>4. CASE RecoverFailedReview
      <4>1. review' = [review EXCEPT !.rounds = @ - 1]
        BY <3>4 DEF RecoverFailedReview
      <4>2. /\ review'.rounds = review.rounds - 1
            /\ review'.corrections = review.corrections /\ review'.closures = review.closures
        BY <3>0, <4>1 DEF ReviewRecords
      <4> QED BY <4>2, <1>2
    <3> QED BY <1>3, <3>1, <3>2, <3>3, <3>4
  <2> QED BY <1>0, <1>1, <1>2, <2>1, <2>2 DEF RoundsAreEarned, UnchargedResult, Roles
<1>4. CASE ~(JudgeReview \/ JudgeCorrection \/ JudgeClosure \/ RecoverFailedReview)
  <2>1. UNCHANGED <<review.rounds, review.corrections, review.closures>>
    BY <1>4, BudgetsStand DEF RowInv
  <2> QED BY <1>0, <1>1, <1>2, <2>1 DEF RoundsAreEarned, UnchargedResult, Roles
<1> QED BY <1>3, <1>4

\* Every round consumed was paid by a recorded invocation of its own role that
\* returned: no failure, crash, resume or recovery makes a run spend more.
THEOREM RoundsArePaid == Spec => []RoundsAreEarned
<1>1. EarnedInv => RoundsAreEarned
  BY DEF EarnedInv
<1> QED BY <1>1, EarnedInit, EarnedNext, PTL DEF Spec

-----------------------------------------------------------------------------
(* The tree at the gate.  Fresh is lost only to an awaited provider's edit, and *)
(* is regained only by a passing run of the final set, which review and closure *)
(* follow.  A resume may lead back to a review by what the last row says, and a *)
(* recovery by what the last row of a review says: so the rows must tell that   *)
(* nobody has corrected since.                                                  *)

Fresh == ChangedSince(worktree, work.verified) \subseteq strays.verified

Invoked(role) == proc.pc \in InvocationPcs /\ proc.role = role

Reviewing == workflow_state = "REVIEWING" \/ proc.pc = "review" \/ Invoked("REVIEW")

Correcting ==
    \/ workflow_state \in {"NEEDS_CORRECTION", "CORRECTING"}
    \/ proc.pc = "correct" \/ Invoked("CORRECTION")

Finishing ==
    workflow_state \in {"MILESTONE_COMPLETE", "FINAL_VERIFYING"} \/ proc.pc = "final"

HasCorrection == \E i \in DOMAIN provider_runs : provider_runs[i].role = "CORRECTION"

ReviewFailed ==
    \E i \in ReviewRuns :
        (\A j \in ReviewRuns : j <= i) /\ provider_runs[i].failure # NoFailure

\* The result that is judged is that of the last row.
ResultOnRecord ==
    proc.pc = "judge" /\ proc.outcome = "returned" =>
        /\ Len(provider_runs) > 0 /\ LastRun.role = proc.role
        /\ LastRun.completed /\ LastRun.failure = NoFailure

\* What is left to do is not done.
TodoIsOpen ==
    /\ proc.todo \intersect work.completed = {}
    /\ proc.pc = "resume" => proc.todo = {}
    /\ proc.pc = "focus" \/ Invoked("IMPLEMENTATION") =>
          proc.milestone \notin proc.todo \union work.completed

Untouched == Len(provider_runs) = 0 => Fresh

FreshWhere ==
    /\ Reviewing => Fresh /\ ~HasCorrection
    /\ Invoked("CLOSURE") => Fresh
    /\ Len(provider_runs) > 0 /\ LastRun.role = "REVIEW" => Fresh /\ ~HasCorrection
    /\ ReviewFailed => Fresh /\ ~HasCorrection /\ ~Correcting
    /\ Finishing => ~HasCorrection
    /\ GateMeansVerified

FreshInv ==
    GateInv /\ TreeInv /\ ResultOnRecord /\ TodoIsOpen /\ Untouched /\ FreshWhere

\* A result is judged once its row says that it returned.
LEMMA ResultNext ==
    ASSUME RowInv, ResultOnRecord, [Next]_vars
    PROVE  ResultOnRecord'
<1> USE DEF RowInv, TypeInv, TypeOK
<1>1. CASE PublishPending
  BY <1>1 DEF PublishPending, ResultOnRecord, ProcRecords
<1>2. CASE SpawnFails
  BY <1>2 DEF SpawnFails, ResultOnRecord, ProcRecords
<1>3. CASE ProviderReturns
  <2>1. InFlight /\ LastRun.role = proc.role
    BY <1>3 DEF ProviderReturns, RowAwaited
  <2>2. PICK failure \in {NoFailure, "OTHER"} :
           /\ provider_runs' = Settled(failure)
           /\ proc' = [proc EXCEPT !.pc = "judge",
                          !.outcome = IF failure = NoFailure THEN "returned" ELSE "failed"]
    BY <1>3 DEF ProviderReturns
  <2>3. failure \in FailureClasses \union {NoFailure} /\ Len(provider_runs) > 0
    BY <2>1 DEF FailureClasses, InFlight
  <2>4. /\ proc'.role = proc.role
        /\ proc'.outcome = "returned" => failure = NoFailure
    BY <2>2 DEF ProcRecords
  <2>5. /\ LastRun' = [LastRun EXCEPT !.completed = TRUE, !.failure = failure]
        /\ LastRun \in RunRows /\ Len(provider_runs') = Len(provider_runs)
    BY <2>2, <2>3, SettledRow
  <2>6. LastRun'.role = LastRun.role /\ LastRun'.completed /\ LastRun'.failure = failure
    BY <2>5 DEF RunRows
  <2> QED BY <2>1, <2>3, <2>4, <2>5, <2>6 DEF ResultOnRecord
<1>4. CASE ~RowStep
  <2>1. \A role : UNCHANGED provider_runs /\ (AtHand(role)' => AtHand(role))
    BY <1>4, ResultsStand
  <2>2. AtHand(proc.role)' => AtHand(proc'.role)
    BY <2>1 DEF AtHand
  <2> QED BY <2>1, <2>2, RowsStand DEF ResultOnRecord, AtHand
<1> QED BY <1>1, <1>2, <1>3, <1>4 DEF RowStep

\* What is left to do stays open until it is focus-verified.
LEMMA TodoNext ==
    ASSUME TypeInv, TodoIsOpen, [Next]_vars
    PROVE  TodoIsOpen'
<1> USE DEF TypeInv, TypeOK
<1>1. CASE Start
  BY <1>1, IdleFields DEF Start, TodoIsOpen, Invoked, InvocationPcs, Publish, StopAt, durable,
       world, ProcRecords
<1>2. CASE Preflight
  BY ZenonT(60), <1>2, IdleFields DEF Preflight, TodoIsOpen, Invoked, InvocationPcs, Publish, StopAt,
       durable, world, ProcRecords, BoundaryStop, Remaining
<1>3. CASE EnterImplementing
  <2>1. First(proc.todo) \in proc.todo /\ proc.todo \subseteq Milestones
    BY <1>3, FirstIsLeast DEF EnterImplementing, ProcRecords
  <2>2. /\ proc'.milestone = First(proc.todo) /\ proc'.todo = proc.todo \ {First(proc.todo)}
        /\ work'.completed = work.completed /\ proc'.pc = "invoke"
    BY <1>3 DEF EnterImplementing, ProcRecords, WorkRecords
  <2> QED BY <2>1, <2>2 DEF TodoIsOpen
<1>4. CASE RefuseImplementing
  BY <1>4, IdleFields DEF RefuseImplementing, TodoIsOpen, Invoked, InvocationPcs, Publish,
       StopAt, durable, world, ProcRecords, BoundaryStop, Stopped, Approvable
<1>5. CASE LeaveLoop
  BY <1>5, IdleFields DEF LeaveLoop, TodoIsOpen, Invoked, InvocationPcs, Publish, StopAt,
       durable, world, ProcRecords, HandBack, Remaining
<1>6. CASE FocusVerify
  <2>1. CASE proc' = Idle
    BY <1>6, <2>1, IdleFields DEF FocusVerify, TodoIsOpen, Invoked, InvocationPcs
  <2>2. CASE /\ work' = [work EXCEPT !.current = NoMilestone, !.checkpoint = worktree,
                                  !.completed = @ \union {proc.milestone}]
             /\ proc' = [proc EXCEPT !.pc = "drive"]
    <3>1. /\ work'.completed = work.completed \union {proc.milestone}
          /\ proc'.todo = proc.todo /\ proc'.pc = "drive"
      BY <2>2 DEF WorkRecords, ProcRecords
    <3> QED BY <1>6, <3>1 DEF FocusVerify, TodoIsOpen, Invoked, InvocationPcs
  <2> QED BY <1>6, <2>1, <2>2 DEF FocusVerify, StopAt
<1>7. CASE FinalVerify
  BY <1>7, IdleFields DEF FinalVerify, TodoIsOpen, Invoked, InvocationPcs, Publish, StopAt,
       durable, world, ProcRecords, FailedNow, VerifiedNow, WorkRecords
<1>8. CASE BeginReview
  BY ZenonT(60), <1>8, IdleFields DEF BeginReview, TodoIsOpen, Invoked, InvocationPcs, Publish, StopAt,
       durable, world, ProcRecords
<1>9. CASE BeginCorrection
  BY ZenonT(60), <1>9, IdleFields DEF BeginCorrection, TodoIsOpen, Invoked, InvocationPcs, Publish, StopAt,
       durable, world, ProcRecords
<1>10. CASE BeginClosure
  BY ZenonT(60), <1>10, IdleFields DEF BeginClosure, TodoIsOpen, Invoked, InvocationPcs, Publish, StopAt,
       durable, world, ProcRecords, FailedNow, VerifiedNow, WorkRecords
<1>11. CASE EnterWait
  BY <1>11, IdleFields DEF EnterWait, TodoIsOpen, Invoked, InvocationPcs, Publish, StopAt,
       durable, world, ProcRecords
<1>12. CASE RecordIntent
  BY <1>12 DEF RecordIntent, TodoIsOpen, Invoked, InvocationPcs, Publish, StopAt, durable,
       world, ProcRecords
<1>13. CASE PublishPending
  BY <1>13 DEF PublishPending, TodoIsOpen, Invoked, InvocationPcs, Publish, StopAt, durable,
       world, ProcRecords, PendingRow
<1>14. CASE ProviderRefused
  BY <1>14 DEF ProviderRefused, TodoIsOpen, Invoked, InvocationPcs, Publish, StopAt, durable,
       world, ProcRecords
<1>15. CASE Spawn
  BY <1>15 DEF Spawn, TodoIsOpen, Invoked, InvocationPcs, Publish, StopAt, durable, world,
       ProcRecords
<1>16. CASE ProviderReturns
  BY <1>16 DEF ProviderReturns, TodoIsOpen, Invoked, InvocationPcs, Publish, StopAt, durable,
       world, ProcRecords, Settled
<1>17. CASE SpawnFails
  BY ZenonT(60), <1>17 DEF SpawnFails, TodoIsOpen, Invoked, InvocationPcs, Publish, StopAt, durable, world,
       ProcRecords, Settled
<1>18. CASE RetryThroughWait
  BY <1>18 DEF RetryThroughWait, TodoIsOpen, Invoked, InvocationPcs, Publish, StopAt, durable,
       world, ProcRecords
<1>19. CASE JudgeImplementation
  BY <1>19, IdleFields DEF JudgeImplementation, TodoIsOpen, Invoked, InvocationPcs, Publish,
       StopAt, durable, world, ProcRecords, Judging, WorkRecords
<1>20. CASE ProviderFailure
  BY <1>20, IdleFields DEF ProviderFailure, TodoIsOpen, Invoked, InvocationPcs, Publish, StopAt,
       durable, world, ProcRecords, CountFailure
<1>21. CASE JudgeReview
  BY <1>21, IdleFields DEF JudgeReview, TodoIsOpen, Invoked, InvocationPcs, Publish, StopAt,
       durable, world, ProcRecords, Judging, Raise
<1>22. CASE JudgeCorrection
  BY <1>22, IdleFields DEF JudgeCorrection, TodoIsOpen, Invoked, InvocationPcs, Publish, StopAt,
       durable, world, ProcRecords, Judging, Raise
<1>23. CASE JudgeClosure
  BY <1>23, IdleFields DEF JudgeClosure, TodoIsOpen, Invoked, InvocationPcs, Publish, StopAt,
       durable, world, ProcRecords, Judging, Raise
<1>24. CASE LeaveExcursion
  BY <1>24 DEF LeaveExcursion, TodoIsOpen, Invoked, InvocationPcs, Publish, StopAt, durable,
       world, ProcRecords
<1>25. CASE ResumeStep
  <2>1. CurrentMilestone # NoMilestone => CurrentMilestone \in Remaining
    <3>1. Remaining # {} => First(Remaining) \in Remaining
      BY FirstIsLeast DEF Remaining
    <3> QED BY <3>1 DEF CurrentMilestone
  <2>2. work' = work
    BY <1>25 DEF ResumeStep, durable
  <2>3. \/ proc' = Idle
        \/ /\ CurrentMilestone # NoMilestone
           /\ proc' = [proc EXCEPT !.pc = "drive", !.todo = {CurrentMilestone}]
        \/ /\ CurrentMilestone # NoMilestone
           /\ proc' = [proc EXCEPT !.pc = "focus", !.milestone = CurrentMilestone]
        \/ \E pc \in {"drive", "final", "review", "correct", "closure"} :
              proc' = [proc EXCEPT !.pc = pc]
    BY <1>25 DEF ResumeStep, StopAt
  <2>4. proc.todo = {}
    BY <1>25 DEF ResumeStep, TodoIsOpen
  <2>5. CASE proc' = Idle
    BY <2>2, <2>5, IdleFields DEF TodoIsOpen, Invoked, InvocationPcs
  <2>6. CASE /\ CurrentMilestone # NoMilestone
             /\ proc' = [proc EXCEPT !.pc = "drive", !.todo = {CurrentMilestone}]
    <3>1. proc'.pc = "drive" /\ proc'.todo = {CurrentMilestone}
      BY <2>6 DEF ProcRecords
    <3> QED BY <2>1, <2>2, <2>6, <3>1 DEF TodoIsOpen, Invoked, InvocationPcs, Remaining
  <2>7. CASE /\ CurrentMilestone # NoMilestone
             /\ proc' = [proc EXCEPT !.pc = "focus", !.milestone = CurrentMilestone]
    <3>1. proc'.pc = "focus" /\ proc'.todo = {} /\ proc'.milestone = CurrentMilestone
      BY <2>4, <2>7 DEF ProcRecords
    <3> QED BY <2>1, <2>2, <2>7, <3>1 DEF TodoIsOpen, Remaining
  <2>8. ASSUME NEW pc \in {"drive", "final", "review", "correct", "closure"},
               proc' = [proc EXCEPT !.pc = pc]
        PROVE  TodoIsOpen'
    BY <2>2, <2>4, <2>8 DEF TodoIsOpen, Invoked, InvocationPcs, ProcRecords
  <2> QED BY <2>3, <2>5, <2>6, <2>7, <2>8
<1>26. CASE Resume
  BY <1>26, IdleFields DEF Resume, TodoIsOpen, Invoked, InvocationPcs, Publish, StopAt, durable,
       world, ProcRecords, Issued, BoundaryStop
<1>27. CASE Abort
  BY <1>27, IdleFields DEF Abort, TodoIsOpen, Invoked, InvocationPcs, Publish, StopAt, durable,
       world, ProcRecords
<1>28. CASE ReconcileMilestone
  BY <1>28, IdleFields DEF ReconcileMilestone, TodoIsOpen, Invoked, InvocationPcs, Publish,
       StopAt, durable, world, ProcRecords, Issued
<1>29. CASE ReopenMilestone
  BY <1>29, IdleFields DEF ReopenMilestone, TodoIsOpen, Invoked, InvocationPcs, Publish, StopAt,
       durable, world, ProcRecords, Issued, WorkRecords
<1>30. CASE RecoverFailedReview
  BY <1>30, IdleFields DEF RecoverFailedReview, TodoIsOpen, Invoked, InvocationPcs, Publish,
       StopAt, durable, world, ProcRecords, Issued
<1>31. CASE RevalidateCorrection
  BY <1>31, IdleFields DEF RevalidateCorrection, TodoIsOpen, Invoked, InvocationPcs, Publish,
       StopAt, durable, world, ProcRecords, Issued
<1>32. CASE Crash
  BY <1>32, IdleFields DEF Crash, TodoIsOpen, Invoked, InvocationPcs, Publish, StopAt, durable,
       world, ProcRecords
<1>33. CASE ProviderEdits
  BY <1>33 DEF ProviderEdits, TodoIsOpen, Invoked, InvocationPcs, Publish, StopAt, durable,
       world, ProcRecords
<1>34. CASE OrphanEdits
  BY <1>34 DEF OrphanEdits, TodoIsOpen, Invoked, InvocationPcs, Publish, StopAt, durable, world,
       ProcRecords
<1>35. CASE UNCHANGED vars
  BY <1>35 DEF vars, durable, world, TodoIsOpen, Invoked, InvocationPcs
<1> QED
  BY <1>1, <1>2, <1>3, <1>4, <1>5, <1>6, <1>7, <1>8, <1>9, <1>10, <1>11, <1>12, <1>13,
     <1>14, <1>15, <1>16, <1>17, <1>18, <1>19, <1>20, <1>21, <1>22, <1>23, <1>24, <1>25,
     <1>26, <1>27, <1>28, <1>29, <1>30, <1>31, <1>32, <1>33, <1>34, <1>35
     DEF Next, RunnerStep, Command

\* A state that invokes tells the role.
LEMMA OriginByRole ==
    ASSUME NEW role \in Roles
    PROVE  /\ PROVIDER_ORIGIN[role] = "REVIEWING" => role = "REVIEW"
           /\ PROVIDER_ORIGIN[role] = "CORRECTING" => role = "CORRECTION"
           /\ PROVIDER_ORIGIN[role] \in {"IMPLEMENTING", "REVIEWING", "CORRECTING",
                                        "CLOSURE_VERIFYING"}
BY OriginValues DEF Roles

\* Which steps lead into a review, a correction, a closure, the finish of the plan
\* and the gate.
LEMMA PhaseMoves ==
    ASSUME TypeInv, [Next]_vars
    PROVE  /\ Reviewing' =>
                 \/ Reviewing
                 \/ FinalVerify
                 \/ RecoverFailedReview
                 \/ (LeaveExcursion /\ ProviderOrigin = "REVIEWING")
           /\ Correcting' =>
                 \/ Correcting
                 \/ JudgeReview /\ proc.outcome = "returned"
                 \/ (LeaveExcursion /\ ProviderOrigin = "CORRECTING")
           /\ Invoked("CLOSURE")' => Invoked("CLOSURE") \/ BeginClosure
           /\ Finishing' => Finishing \/ FocusVerify
           /\ workflow_state' \in Approvable =>
                 workflow_state \in Approvable \/ JudgeReview \/ JudgeClosure
<1> USE DEF TypeInv, TypeOK
<1>1. CASE Start
  BY <1>1, IdleFields DEF Start, Reviewing, Correcting, Invoked, InvocationPcs, Finishing,
       Approvable, Publish, StopAt, durable, world, ProcRecords
<1>2. CASE Preflight
  BY <1>2, IdleFields DEF Preflight, Reviewing, Correcting, Invoked, InvocationPcs, Finishing,
       Approvable, Publish, StopAt, durable, world, ProcRecords, BoundaryStop, Remaining
<1>3. CASE EnterImplementing
  BY <1>3 DEF EnterImplementing, Reviewing, Correcting, Invoked, InvocationPcs, Finishing,
       Approvable, Publish, StopAt, durable, world, ProcRecords
<1>4. CASE RefuseImplementing
  BY <1>4, IdleFields DEF RefuseImplementing, Reviewing, Correcting, Invoked, InvocationPcs,
       Finishing, Approvable, Publish, StopAt, durable, world, ProcRecords, BoundaryStop,
       Stopped
<1>5. CASE LeaveLoop
  BY <1>5, IdleFields DEF LeaveLoop, Reviewing, Correcting, Invoked, InvocationPcs, Finishing,
       Approvable, Publish, StopAt, durable, world, ProcRecords, HandBack, Remaining
<1>6. CASE FocusVerify
  BY <1>6, IdleFields DEF FocusVerify, Reviewing, Correcting, Invoked, InvocationPcs, Finishing,
       Approvable, Publish, StopAt, durable, world, ProcRecords, FailedNow
<1>7. CASE FinalVerify
  BY <1>7, IdleFields DEF FinalVerify, Reviewing, Correcting, Invoked, InvocationPcs, Finishing,
       Approvable, Publish, StopAt, durable, world, ProcRecords, FailedNow, VerifiedNow
<1>8. CASE BeginReview
  BY <1>8, IdleFields DEF BeginReview, Reviewing, Correcting, Invoked, InvocationPcs, Finishing,
       Approvable, Publish, StopAt, durable, world, ProcRecords
<1>9. CASE BeginCorrection
  BY <1>9, IdleFields DEF BeginCorrection, Reviewing, Correcting, Invoked, InvocationPcs,
       Finishing, Approvable, Publish, StopAt, durable, world, ProcRecords
<1>10. CASE BeginClosure
  BY <1>10, IdleFields DEF BeginClosure, Reviewing, Correcting, Invoked, InvocationPcs,
       Finishing, Approvable, Publish, StopAt, durable, world, ProcRecords, FailedNow,
       VerifiedNow
<1>11. CASE EnterWait
  BY <1>11, IdleFields DEF EnterWait, Reviewing, Correcting, Invoked, InvocationPcs, Finishing,
       Approvable, Publish, StopAt, durable, world, ProcRecords
<1>12. CASE RecordIntent
  BY <1>12 DEF RecordIntent, Reviewing, Correcting, Invoked, InvocationPcs, Finishing,
       Approvable, Publish, StopAt, durable, world, ProcRecords
<1>13. CASE PublishPending
  BY <1>13 DEF PublishPending, Reviewing, Correcting, Invoked, InvocationPcs, Finishing,
       Approvable, Publish, StopAt, durable, world, ProcRecords, PendingRow
<1>14. CASE ProviderRefused
  <2>1. /\ workflow_state' \in {PROVIDER_ORIGIN[proc.role], "PROVIDER_WAIT", "PROVIDER_RETRY_PENDING"}
        /\ proc'.role = proc.role /\ proc'.pc \in InvocationPcs /\ proc.pc \in InvocationPcs
    BY <1>14 DEF ProviderRefused, Publish, InvocationPcs, ProcRecords
  <2> QED BY <2>1, OriginByRole
         DEF Reviewing, Correcting, Invoked, InvocationPcs, Finishing, Approvable, ProcRecords
<1>15. CASE Spawn
  BY <1>15 DEF Spawn, Reviewing, Correcting, Invoked, InvocationPcs, Finishing, Approvable,
       Publish, StopAt, durable, world, ProcRecords
<1>16. CASE ProviderReturns
  <2>1. /\ workflow_state' \in {PROVIDER_ORIGIN[proc.role], "PROVIDER_WAIT", "PROVIDER_RETRY_PENDING"}
        /\ proc'.role = proc.role /\ proc'.pc \in InvocationPcs /\ proc.pc \in InvocationPcs
    BY <1>16 DEF ProviderReturns, Publish, InvocationPcs, ProcRecords
  <2> QED BY <2>1, OriginByRole
         DEF Reviewing, Correcting, Invoked, InvocationPcs, Finishing, Approvable, ProcRecords
<1>17. CASE SpawnFails
  <2>1. /\ workflow_state' \in {PROVIDER_ORIGIN[proc.role], "PROVIDER_WAIT", "PROVIDER_RETRY_PENDING"}
        /\ proc'.role = proc.role /\ proc'.pc \in InvocationPcs /\ proc.pc \in InvocationPcs
    BY <1>17 DEF SpawnFails, Publish, InvocationPcs, ProcRecords
  <2> QED BY <2>1, OriginByRole
         DEF Reviewing, Correcting, Invoked, InvocationPcs, Finishing, Approvable, ProcRecords
<1>18. CASE RetryThroughWait
  <2>1. /\ workflow_state' \in {PROVIDER_ORIGIN[proc.role], "PROVIDER_WAIT", "PROVIDER_RETRY_PENDING"}
        /\ proc'.role = proc.role /\ proc'.pc \in InvocationPcs /\ proc.pc \in InvocationPcs
    BY <1>18 DEF RetryThroughWait, Publish, InvocationPcs, ProcRecords
  <2> QED BY <2>1, OriginByRole
         DEF Reviewing, Correcting, Invoked, InvocationPcs, Finishing, Approvable, ProcRecords
<1>19. CASE JudgeImplementation
  BY <1>19, IdleFields DEF JudgeImplementation, Reviewing, Correcting, Invoked, InvocationPcs,
       Finishing, Approvable, Publish, StopAt, durable, world, ProcRecords, Judging
<1>20. CASE ProviderFailure
  BY <1>20, IdleFields DEF ProviderFailure, Reviewing, Correcting, Invoked, InvocationPcs,
       Finishing, Approvable, Publish, StopAt, durable, world, ProcRecords, CountFailure
<1>21. CASE JudgeReview
  BY <1>21, IdleFields DEF JudgeReview, Reviewing, Correcting, Invoked, InvocationPcs,
       Finishing, Approvable, Publish, StopAt, durable, world, ProcRecords, Judging, Raise
<1>22. CASE JudgeCorrection
  BY <1>22, IdleFields DEF JudgeCorrection, Reviewing, Correcting, Invoked, InvocationPcs,
       Finishing, Approvable, Publish, StopAt, durable, world, ProcRecords, Judging, Raise
<1>23. CASE JudgeClosure
  BY <1>23, IdleFields DEF JudgeClosure, Reviewing, Correcting, Invoked, InvocationPcs,
       Finishing, Approvable, Publish, StopAt, durable, world, ProcRecords, Judging, Raise
<1>24. CASE LeaveExcursion
  BY <1>24, ExcursionOrigin DEF LeaveExcursion, Reviewing, Correcting, Invoked, InvocationPcs,
       Finishing, Approvable, Publish, StopAt, durable, world, ProcRecords
<1>25. CASE ResumeStep
  BY ZenonT(60), <1>25, IdleFields DEF ResumeStep, Reviewing, Correcting, Invoked, InvocationPcs, Finishing,
       Approvable, Publish, StopAt, durable, world, ProcRecords
<1>26. CASE Resume
  BY <1>26, IdleFields DEF Resume, Reviewing, Correcting, Invoked, InvocationPcs, Finishing,
       Approvable, Publish, StopAt, durable, world, ProcRecords, Issued, BoundaryStop
<1>27. CASE Abort
  BY <1>27, IdleFields DEF Abort, Reviewing, Correcting, Invoked, InvocationPcs, Finishing,
       Approvable, Publish, StopAt, durable, world, ProcRecords
<1>28. CASE ReconcileMilestone
  BY <1>28, IdleFields DEF ReconcileMilestone, Reviewing, Correcting, Invoked, InvocationPcs,
       Finishing, Approvable, Publish, StopAt, durable, world, ProcRecords, Issued
<1>29. CASE ReopenMilestone
  BY <1>29, IdleFields DEF ReopenMilestone, Reviewing, Correcting, Invoked, InvocationPcs,
       Finishing, Approvable, Publish, StopAt, durable, world, ProcRecords, Issued
<1>30. CASE RecoverFailedReview
  BY <1>30, IdleFields DEF RecoverFailedReview, Reviewing, Correcting, Invoked, InvocationPcs,
       Finishing, Approvable, Publish, StopAt, durable, world, ProcRecords, Issued
<1>31. CASE RevalidateCorrection
  BY <1>31, IdleFields DEF RevalidateCorrection, Reviewing, Correcting, Invoked, InvocationPcs,
       Finishing, Approvable, Publish, StopAt, durable, world, ProcRecords, Issued
<1>32. CASE Crash
  BY <1>32, IdleFields DEF Crash, Reviewing, Correcting, Invoked, InvocationPcs, Finishing,
       Approvable, Publish, StopAt, durable, world, ProcRecords
<1>33. CASE ProviderEdits
  BY <1>33 DEF ProviderEdits, Reviewing, Correcting, Invoked, InvocationPcs, Finishing,
       Approvable, Publish, StopAt, durable, world, ProcRecords
<1>34. CASE OrphanEdits
  BY <1>34 DEF OrphanEdits, Reviewing, Correcting, Invoked, InvocationPcs, Finishing,
       Approvable, Publish, StopAt, durable, world, ProcRecords
<1>35. CASE UNCHANGED vars
  BY <1>35 DEF vars, durable, world, Reviewing, Correcting, Invoked, InvocationPcs, Finishing,
       Approvable
<1> QED
  BY <1>1, <1>2, <1>3, <1>4, <1>5, <1>6, <1>7, <1>8, <1>9, <1>10, <1>11, <1>12, <1>13,
     <1>14, <1>15, <1>16, <1>17, <1>18, <1>19, <1>20, <1>21, <1>22, <1>23, <1>24, <1>25,
     <1>26, <1>27, <1>28, <1>29, <1>30, <1>31, <1>32, <1>33, <1>34, <1>35
     DEF Next, RunnerStep, Command

\* Only an edit of the awaited process takes the evidence of the final set away.
LEMMA FreshStays ==
    ASSUME TypeInv, [Next]_vars, ~ProviderEdits
    PROVE  /\ Fresh => Fresh'
           /\ FinalVerify /\ workflow_state' = "REVIEWING" => Fresh'
           /\ BeginClosure /\ proc'.pc = "waiting" => Fresh'
<1> USE DEF TypeInv, TypeOK, WorkRecords
<1>1. ~OrphanEdits => worktree' = worktree
  BY Moves
     DEF InvocationStep, OutsideStep, RowStep, BeginReview, BeginClosure, EnterWait,
         RecordIntent, ProviderRefused, Spawn, PublishPending, ProviderReturns, SpawnFails,
         vars, world
<1>2. CASE FinalVerify \/ BeginClosure
  <2>1. ~OrphanEdits \/ worktree' = worktree
    BY <1>2 DEF FinalVerify, BeginClosure, OrphanEdits
  <2>2. worktree' = worktree
    BY <1>1, <2>1
  <2>3. CASE FinalSetPasses
    <3>1. work'.verified = worktree'
      BY <2>2, <2>3 DEF VerifiedNow
    <3> QED BY <3>1 DEF Fresh, ChangedSince
  <2>4. CASE FinalSetFails /\ ~FinalSetPasses
    <3>1. work'.verified = work.verified /\ strays' = strays
      BY <2>4 DEF FailedNow
    <3>2. Fresh => Fresh'
      BY <2>2, <3>1 DEF Fresh
    <3>3. workflow_state' = "HUMAN_INTERVENTION_REQUIRED" /\ proc' = Idle
      <4> HIDE DEF FinalSetFails, FinalSetPasses
      <4> QED BY <1>2, <2>4 DEF FinalVerify, BeginClosure, StopAt, Publish
    <3> QED BY <3>2, <3>3, IdleFields
  <2> QED BY <1>2, <2>3, <2>4 DEF FinalVerify, BeginClosure
<1>3. CASE ~FinalVerify /\ ~BeginClosure
  <2>1. work'.verified = work.verified
    <3>1. CASE EnterImplementing
      BY <3>1 DEF EnterImplementing
    <3>2. CASE FocusVerify
      BY <3>2 DEF FocusVerify, FailedNow
    <3>3. CASE JudgeImplementation
      BY <3>3 DEF JudgeImplementation
    <3>4. CASE ReopenMilestone
      BY <3>4 DEF ReopenMilestone
    <3>5. CASE ~EnterImplementing /\ ~FocusVerify /\ ~JudgeImplementation /\ ~ReopenMilestone
      BY <1>3, <3>5
         DEF Next, RunnerStep, Command, Start, Preflight, RefuseImplementing, LeaveLoop,
             BeginReview, BeginCorrection, EnterWait, RecordIntent, PublishPending,
             ProviderRefused, Spawn, ProviderReturns, SpawnFails, RetryThroughWait,
             ProviderFailure, JudgeReview, JudgeCorrection, JudgeClosure, LeaveExcursion,
             ResumeStep, Resume, Abort, ReconcileMilestone, RecoverFailedReview,
             RevalidateCorrection, Crash, OrphanEdits, durable, vars
    <3> QED BY <3>1, <3>2, <3>3, <3>4, <3>5
  <2>2. CASE OrphanEdits
    BY <1>3, <2>1, <2>2, StraysCover DEF Fresh
  <2>3. CASE ~OrphanEdits
    BY <1>1, <1>3, <2>1, <2>3, StraysStand DEF Fresh
  <2> QED BY <2>2, <2>3
<1> QED BY <1>2, <1>3

\* Before the first row no awaited process can have edited.
LEMMA UntouchedNext ==
    ASSUME TreeInv, Untouched, [Next]_vars
    PROVE  Untouched'
<1> USE DEF TreeInv, RowInv, TypeInv
<1>1. CASE ProviderEdits
  BY <1>1, EditsAreAwaited DEF RowAwaited, InFlight, Untouched
<1>2. CASE RowStep
  <2>1. CASE PublishPending
    <3>1. Len(provider_runs') = Len(provider_runs) + 1 /\ Len(provider_runs) \in Nat
      BY <2>1, PendingIsLast, LenProperties DEF TypeOK
    <3>2. Len(provider_runs') # 0
      BY <3>1
    <3> QED BY <3>2 DEF Untouched
  <2>2. CASE ProviderReturns \/ SpawnFails
    <3>1. Len(provider_runs) > 0
      BY <2>2 DEF ProviderReturns, SpawnFails, RowAwaited, InFlight
    <3>2. Len(provider_runs') = Len(provider_runs)
      BY <2>2, <3>1, SettledTyped DEF ProviderReturns, SpawnFails, FailureClasses
    <3> QED BY <3>1, <3>2 DEF Untouched
  <2> QED BY <1>2, <2>1, <2>2 DEF RowStep
<1>3. CASE ~RowStep /\ ~ProviderEdits
  BY <1>3, ResultsStand, FreshStays DEF Untouched
<1> QED BY <1>1, <1>2, <1>3

\* While a milestone remains nothing is reviewed, corrected or at the gate.
LEMMA EarlyIsFresh == EarlyInv /\ TypeOK => FreshWhere
<1> SUFFICES ASSUME EarlyInv, TypeOK PROVE FreshWhere
  OBVIOUS
<1>1. /\ ~Reviewing /\ ~Correcting /\ ~Invoked("CLOSURE")
      /\ workflow_state \notin Approvable
  BY DEF EarlyInv, CommandEarly, LateStates, LatePcs, Reviewing, Correcting, Invoked
<1>2. ~HasCorrection /\ ReviewRuns = {}
  BY DEF EarlyInv, HasCorrection, ReviewRuns
<1>3. Len(provider_runs) > 0 => LastRun.role = "IMPLEMENTATION"
  BY LenProperties DEF EarlyInv, LastRun, TypeOK
<1> QED BY <1>1, <1>2, <1>3 DEF FreshWhere, ReviewFailed, GateMeansVerified

\* After the last milestone is complete only corrections are still to be made.
LEMMA LateEdits ==
    ASSUME TypeInv, TodoIsOpen, PlanDone
    PROVE  ~Invoked("IMPLEMENTATION") /\ proc.pc # "focus"
BY DEF TypeInv, TypeOK, Aimed, TodoIsOpen, PlanDone, Invoked, InvocationPcs, ProcRecords,
       NoMilestone

\* A result that returned is no failed review, and it is the last one.
LEMMA ReturnedReview ==
    ASSUME TypeInv, ResultOnRecord, AtHand("REVIEW")
    PROVE  ~ReviewFailed
<1>1. LastRun.role = "REVIEW" /\ LastRun.failure = NoFailure /\ Len(provider_runs) > 0
  BY DEF ResultOnRecord, AtHand
<1>2. Len(provider_runs) \in ReviewRuns /\ \A i \in ReviewRuns : i <= Len(provider_runs)
  BY <1>1, LenProperties DEF TypeInv, TypeOK, ReviewRuns, LastRun
<1>3. ASSUME NEW i \in ReviewRuns, \A j \in ReviewRuns : j <= i
      PROVE  i = Len(provider_runs)
  <2>1. i <= Len(provider_runs) /\ Len(provider_runs) <= i
    BY <1>2, <1>3
  <2>2. i \in Nat /\ Len(provider_runs) \in Nat
    BY LenProperties DEF TypeInv, TypeOK, ReviewRuns
  <2> QED BY <2>1, <2>2
<1> QED BY <1>1, <1>3 DEF ReviewFailed, LastRun

\* An edit, once the plan is done, is one of a correction.
LEMMA FreshThroughEdits ==
    ASSUME FreshInv, PlanDone, ProviderEdits
    PROVE  FreshWhere'
<1> USE DEF FreshInv, TreeInv, RowInv, TypeInv, TypeOK
<1>1. /\ proc.pc = "spawned" /\ proc.role \in Editors
      /\ UNCHANGED <<workflow_state, work, provider_runs, proc>>
  BY EditsAreAwaited
<1>2. workflow_state = "PROVIDER_WAIT" /\ LastRun.role = proc.role
  BY <1>1 DEF WaitIsPublic, RowAwaited
<1>3. proc.role = "CORRECTION"
  BY <1>1, LateEdits DEF Invoked, InvocationPcs, Editors
<1>4. Correcting /\ ~ReviewFailed
  BY <1>1, <1>3 DEF FreshWhere, Correcting, Invoked, InvocationPcs
<1>5. ~ReviewFailed'
  BY <1>1, <1>4 DEF ReviewFailed, ReviewRuns
<1>6. ~Reviewing' /\ ~Invoked("CLOSURE")' /\ ~Finishing' /\ workflow_state' \notin Approvable
  BY <1>1, <1>2, <1>3 DEF Reviewing, Invoked, Finishing, Approvable
<1>7. LastRun'.role = "CORRECTION"
  BY <1>1, <1>2, <1>3, RowsStand
<1> QED BY <1>5, <1>6, <1>7 DEF FreshWhere, GateMeansVerified

\* A row is added or settled where the phase allows it.
LEMMA FreshThroughRows ==
    ASSUME FreshInv, PlanDone, RowStep, [Next]_vars
    PROVE  FreshWhere'
<1> USE DEF FreshInv, TreeInv, RowInv, TypeInv
<1>1. Fresh => Fresh'
  BY FreshStays DEF RowStep, ProviderEdits, PublishPending, ProviderReturns, SpawnFails, world, Fresh, durable
<1>2. Invoked(proc.role) /\ workflow_state = "PROVIDER_WAIT" /\ proc'.role = proc.role
  BY DEF RowStep, PublishPending, ProviderReturns, SpawnFails, WaitIsPublic, Invoked,
         InvocationPcs, TypeOK, ProcRecords
<1>3. /\ Reviewing' => Reviewing
      /\ Correcting' => Correcting
      /\ Invoked("CLOSURE")' => Invoked("CLOSURE")
      /\ ~Finishing'
      /\ workflow_state' \notin Approvable
  <2>1. /\ ~FinalVerify /\ ~RecoverFailedReview /\ ~LeaveExcursion /\ ~JudgeReview
        /\ ~BeginClosure /\ ~FocusVerify /\ ~JudgeClosure
    BY <1>2
       DEF Invoked, InvocationPcs, RowStep, PublishPending, ProviderReturns, SpawnFails,
           FinalVerify, RecoverFailedReview, Issued, LeaveExcursion, JudgeReview, Judging,
           BeginClosure, FocusVerify, JudgeClosure
  <2>2. ~Finishing /\ workflow_state \notin Approvable
    BY <1>2 DEF Finishing, Approvable, Invoked, InvocationPcs
  <2> QED BY <2>1, <2>2, PhaseMoves
<1>4. /\ proc.role = "REVIEW" => Reviewing /\ Fresh /\ ~HasCorrection
      /\ proc.role = "CORRECTION" => Correcting /\ ~Reviewing /\ ~ReviewFailed
  BY <1>2 DEF FreshWhere, Reviewing, Correcting, Invoked, InvocationPcs
<1>5. CASE PublishPending
  <2>1. LastRun' = PendingRow /\ PendingRow.role = proc.role /\ PendingRow.failure = NoFailure
    BY <1>5, PendingIsLast DEF PendingRow
  <2>2. HasCorrection' => HasCorrection \/ proc.role = "CORRECTION"
    BY <1>5, <2>1, PendingIsLast DEF HasCorrection
  <2>3. ReviewFailed' => ReviewFailed
    <3> SUFFICES ASSUME ReviewFailed' PROVE ReviewFailed
      OBVIOUS
    <3>1. PICK i \in ReviewRuns' :
             (\A j \in ReviewRuns' : j <= i) /\ provider_runs'[i].failure # NoFailure
      BY DEF ReviewFailed
    <3>2. i \in DOMAIN provider_runs /\ provider_runs'[i] = provider_runs[i]
      BY <1>5, <2>1, <3>1, PendingIsLast DEF ReviewRuns
    <3>3. ReviewRuns \subseteq ReviewRuns' /\ i \in ReviewRuns
      BY <1>5, <3>1, <3>2, PendingIsLast DEF ReviewRuns
    <3> QED BY <3>1, <3>2, <3>3 DEF ReviewFailed
  <2> QED BY <1>1, <1>3, <1>4, <2>1, <2>2, <2>3 DEF FreshWhere, GateMeansVerified
<1>6. CASE ProviderReturns \/ SpawnFails
  <2>1. PICK failure \in FailureClasses \union {NoFailure} : provider_runs' = Settled(failure)
    BY <1>6 DEF ProviderReturns, SpawnFails, FailureClasses
  <2>2. InFlight /\ LastRun.role = proc.role /\ Len(provider_runs) > 0
    BY <1>6 DEF ProviderReturns, SpawnFails, RowAwaited, InFlight
  <2>3. /\ DOMAIN provider_runs' = DOMAIN provider_runs
        /\ \A i \in DOMAIN provider_runs : provider_runs'[i].role = provider_runs[i].role
    BY <2>1, <2>2, SettledRoles
  <2>4. /\ HasCorrection' = HasCorrection /\ ReviewRuns' = ReviewRuns
        /\ LastRun'.role = proc.role
    <3>1. /\ LastRun' = [LastRun EXCEPT !.completed = TRUE, !.failure = failure]
          /\ LastRun \in RunRows
      BY <2>1, <2>2, SettledRow
    <3>2. LastRun'.role = proc.role
      BY <2>2, <3>1 DEF RunRows
    <3> QED BY <2>3, <3>2 DEF HasCorrection, ReviewRuns
  <2>5. ReviewFailed' => ReviewFailed \/ proc.role = "REVIEW"
    <3> SUFFICES ASSUME ReviewFailed', proc.role # "REVIEW" PROVE ReviewFailed
      OBVIOUS
    <3>1. PICK i \in ReviewRuns :
             (\A j \in ReviewRuns : j <= i) /\ provider_runs'[i].failure # NoFailure
      BY <2>4 DEF ReviewFailed
    <3>2. i # Len(provider_runs) /\ i \in DOMAIN provider_runs
      BY <2>2 DEF ReviewRuns, LastRun
    <3>3. provider_runs'[i] = provider_runs[i]
      BY <2>1, <2>2, <3>2, SettledRow
    <3> QED BY <3>1, <3>3 DEF ReviewFailed
  <2>6. proc.role = "REVIEW" => ~Correcting'
    <3>1. /\ workflow_state' \in {PROVIDER_ORIGIN[proc.role], "PROVIDER_RETRY_PENDING"}
          /\ proc'.pc \in {"judge", "retry"}
      BY <1>6 DEF ProviderReturns, SpawnFails, Publish, TypeOK, ProcRecords
    <3> QED BY <1>2, <3>1, OriginValues DEF Correcting, Invoked
  <2> QED BY <1>1, <1>3, <1>4, <2>2, <2>4, <2>5, <2>6 DEF FreshWhere, GateMeansVerified
<1> QED BY <1>5, <1>6 DEF RowStep

\* Every other step of a finished plan reviews, corrects and stops as the rows allow.
LEMMA FreshThroughSteps ==
    ASSUME FreshInv, PlanDone, ~RowStep, ~ProviderEdits, [Next]_vars
    PROVE  FreshWhere'
<1> USE DEF FreshInv, TreeInv, RowInv, TypeInv
<1>1. Fresh => Fresh'
  BY FreshStays
<1>2. UNCHANGED provider_runs
  BY ResultsStand
<1>3. /\ HasCorrection' = HasCorrection /\ ReviewFailed' = ReviewFailed
      /\ LastRun' = LastRun /\ Len(provider_runs') = Len(provider_runs)
  BY <1>2, RowsStand DEF HasCorrection, ReviewFailed, ReviewRuns
<1>4. Len(provider_runs) > 0 => (LastRun.role = "CORRECTION" => HasCorrection)
  BY LenProperties DEF TypeOK, HasCorrection, LastRun
<1>5. Len(provider_runs) = 0 => ~HasCorrection
  BY LenProperties DEF TypeOK, HasCorrection
<1>6. Reviewing' => Fresh' /\ ~HasCorrection
  <2>1. CASE Reviewing
    BY <1>1, <2>1 DEF FreshWhere
  <2>2. CASE FinalVerify /\ ~Reviewing
    <3>1. ~HasCorrection
      BY <2>2 DEF FinalVerify, FreshWhere, Finishing
    <3>2. Reviewing' => workflow_state' = "REVIEWING"
      BY <2>2, IdleFields
         DEF FinalVerify, Reviewing, Invoked, InvocationPcs, StopAt, Publish, TypeOK, ProcRecords
    <3> QED BY <2>2, <3>1, <3>2, FreshStays
  <2>3. CASE RecoverFailedReview
    <3>1. ReviewFailed
      BY <2>3 DEF RecoverFailedReview, ReviewFailed
    <3> QED BY <1>1, <3>1 DEF FreshWhere
  <2>4. CASE LeaveExcursion /\ ProviderOrigin = "REVIEWING"
    <3>1. CASE Len(provider_runs) > 0
      <4>1. LastRun \in RunRows
        BY <3>1, LenProperties, ElementOfSeq DEF TypeOK, LastRun
      <4>2. LastRun.role = "REVIEW"
        BY <2>4, <3>1, <4>1, OriginByRole DEF ProviderOrigin, RunRows
      <4> QED BY <1>1, <3>1, <4>2 DEF FreshWhere
    <3>2. CASE Len(provider_runs) = 0
      BY <1>1, <1>5, <3>2 DEF Untouched
    <3> QED BY <3>1, <3>2, LenProperties DEF TypeOK
  <2> QED BY <2>1, <2>2, <2>3, <2>4, PhaseMoves
<1>7. ReviewFailed => ~Correcting'
  <2>1. JudgeReview /\ proc.outcome = "returned" => ~ReviewFailed
    BY ReturnedReview DEF JudgeReview, Judging, AtHand
  <2>2. LeaveExcursion /\ ProviderOrigin = "CORRECTING" => HasCorrection
    <3> SUFFICES ASSUME ProviderOrigin = "CORRECTING" PROVE HasCorrection
      OBVIOUS
    <3>1. Len(provider_runs) > 0
      BY DEF ProviderOrigin
    <3>2. LastRun \in RunRows
      BY <3>1, LenProperties, ElementOfSeq DEF TypeOK, LastRun
    <3>3. LastRun.role = "CORRECTION"
      BY <3>1, <3>2, OriginByRole DEF ProviderOrigin, RunRows
    <3> QED BY <1>4, <3>1, <3>3
  <2> QED BY <2>1, <2>2, PhaseMoves DEF FreshWhere
<1>8. Invoked("CLOSURE")' => Fresh'
  <2>1. CASE BeginClosure
    <3>1. Invoked("CLOSURE")' => proc'.pc = "waiting"
      BY <2>1, IdleFields
         DEF BeginClosure, Invoked, InvocationPcs, StopAt, TypeOK, ProcRecords
    <3> QED BY <2>1, <3>1, FreshStays
  <2> QED BY <1>1, <2>1, PhaseMoves DEF FreshWhere
<1>9. Finishing' => ~HasCorrection
  <2>1. ~FocusVerify
    BY LateEdits DEF FocusVerify
  <2> QED BY <2>1, PhaseMoves DEF FreshWhere
<1>10. GateMeansVerified'
  <2>1. JudgeReview => Fresh
    BY DEF JudgeReview, Judging, FreshWhere, Reviewing, Invoked, InvocationPcs
  <2>2. JudgeClosure => Fresh
    BY DEF JudgeClosure, Judging, FreshWhere, Invoked, InvocationPcs
  <2> QED BY <1>1, <2>1, <2>2, PhaseMoves DEF FreshWhere, GateMeansVerified, Fresh
<1> QED BY <1>1, <1>3, <1>6, <1>7, <1>8, <1>9, <1>10 DEF FreshWhere

\* A new run is where nothing was verified and nothing needs to be.
LEMMA FreshInit == Init => FreshInv
<1> SUFFICES ASSUME Init PROVE FreshInv
  OBVIOUS
<1>1. GateInv /\ TreeInv
  BY GateInit, TreeInit
<1>2. proc = Idle /\ work.completed = {} /\ ChangedSince(worktree, work.verified) = {}
  BY DEF Init, ChangedSince
<1>3. ~PlanDone
  BY <1>2, PlanAssumption DEF PlanDone, Milestones
<1>4. FreshWhere
  BY <1>1, <1>3, EarlyIsFresh DEF GateInv, TypeInv
<1> QED BY <1>1, <1>2, <1>4, IdleFields
           DEF FreshInv, ResultOnRecord, TodoIsOpen, Invoked, InvocationPcs, Untouched, Fresh

\* Each step of an ungoverned run keeps what was verified where it is relied on.
LEMMA FreshNext == ~PolicyGoverned /\ FreshInv /\ [Next]_vars => FreshInv'
<1> SUFFICES ASSUME ~PolicyGoverned, FreshInv, [Next]_vars PROVE FreshInv'
  OBVIOUS
<1> USE DEF FreshInv
<1>1. GateInv' /\ TreeInv' /\ ResultOnRecord' /\ TodoIsOpen' /\ Untouched'
  BY GateStep, TreeNext, ResultNext, TodoNext, UntouchedNext DEF TreeInv, RowInv
<1>2. CASE ~PlanDone'
  <2>1. EarlyInv' /\ TypeOK'
    BY <1>1, <1>2 DEF GateInv, TypeInv
  <2>2. FreshWhere'
    BY <2>1, EarlyIsFresh, PTL
  <2> QED BY <1>1, <2>2
<1>3. CASE PlanDone
  BY <1>1, <1>3, FreshThroughEdits, FreshThroughRows, FreshThroughSteps
<1>4. CASE ~PlanDone /\ PlanDone'
  <2>1. EarlyInv
    BY <1>4 DEF GateInv
  <2>2. FocusVerify
    <3>1. work'.completed # work.completed
      BY <1>4 DEF PlanDone
    <3> QED BY <3>1, Unseen
               DEF GateInv, Seen, JudgeReview, JudgeClosure, Abort, durable
  <2>3. /\ UNCHANGED provider_runs
        /\ workflow_state' \in {"MILESTONE_FAILED", "MILESTONE_COMPLETE"}
        /\ proc'.pc \in {"idle", "drive"}
    BY <2>2, IdleFields
       DEF FocusVerify, StopAt, Publish, GateInv, TypeInv, TypeOK, ProcRecords
  <2>4. /\ ~Reviewing' /\ ~Correcting' /\ ~Invoked("CLOSURE")'
        /\ workflow_state' \notin Approvable
    BY <2>3 DEF Reviewing, Correcting, Invoked, InvocationPcs, Approvable
  <2>5. ~HasCorrection' /\ ReviewRuns' = {}
    BY <2>1, <2>3 DEF EarlyInv, HasCorrection, ReviewRuns
  <2>6. Len(provider_runs) > 0 => LastRun.role = "IMPLEMENTATION"
    BY <2>1, LenProperties DEF EarlyInv, LastRun, GateInv, TypeInv, TypeOK
  <2>7. FreshWhere'
    BY <2>3, <2>4, <2>5, <2>6, RowsStand DEF FreshWhere, ReviewFailed, GateMeansVerified
  <2> QED BY <1>1, <2>7
<1> QED BY <1>2, <1>3, <1>4

\* What is approved is the tree the final set passed on, but for the paths that
\* providers left behind changed since, if no stage policy governs the run: whatever
\* crashes, resumes and recoveries came before, no awaited edit slips in between.
THEOREM GateVerified ==
    ASSUME ~PolicyGoverned
    PROVE  Spec => []GateMeansVerified
<1>1. FreshInv => GateMeansVerified
  BY DEF FreshInv, FreshWhere
<1>2. FreshInv /\ [Next]_vars => FreshInv'
  BY FreshNext
<1> QED BY <1>1, <1>2, FreshInit, PTL DEF Spec

-----------------------------------------------------------------------------
(* What may be repeated.  A crash leaves the last row in flight and the         *)
(* fingerprint beside it.  A resume goes on from a state that could have        *)
(* invoked a provider only if the fingerprint is that row's and describes the   *)
(* tree, and before the next fingerprint is recorded nothing happens to row or  *)
(* fingerprint, and to the tree only what providers left behind do to it.  The other ways to an invocation must then be those *)
(* on which nothing is in flight, or something else is invoked.                 *)

Matched == intent.sequence = LastRun.sequence /\ Covered

\* The program points of an invocation before its fingerprint.
Approaching(role) == proc.pc \in {"invoke", "waiting"} /\ proc.role = role
ToCorrect == proc.pc = "correct" \/ Approaching("CORRECTION")
NotBegun == workflow_state \in {"IDLE", "PREFLIGHT"} \/ proc.pc = "preflight"
Retrying == workflow_state = "PROVIDER_RETRY_PENDING" \/ proc.pc = "retry"

RowsAimed ==
    \A i \in DOMAIN provider_runs :
        provider_runs[i].role = "IMPLEMENTATION" => provider_runs[i].milestone # NoMilestone
NoRowsYet == NotBegun => Len(provider_runs) = 0
CurrentInvoked == Invoked("IMPLEMENTATION") => work.current = proc.milestone
RetryIsSettled == Retrying => ~InFlight
CorrectsReview ==
    workflow_state = "NEEDS_CORRECTION" => Len(provider_runs) > 0 /\ LastRun.role = "REVIEW"

ResumeMatched ==
    /\ proc.pc = "resume" /\ InFlight
    /\ workflow_state \in {"PROVIDER_WAIT", "IMPLEMENTING", "CORRECTING", "REVIEWING"}
    => Matched

CorrectionMatched == ToCorrect /\ InFlight /\ LastRun.role = "CORRECTION" => Matched

\* An implementation a crash left in flight, and that is still to be repeated.
Abandoned ==
    /\ InFlight /\ LastRun.role = "IMPLEMENTATION"
    /\ LastRun.milestone \notin work.completed
    /\ \A r \in reopenings : r.after # Len(provider_runs)

ImplementationMatched ==
    Abandoned =>
        /\ work.current = LastRun.milestone
        /\ workflow_state # "MILESTONE_COMPLETE"
        /\ proc.pc = "drive" => proc.todo = {LastRun.milestone} /\ Matched
        /\ proc.pc = "focus" => proc.milestone = LastRun.milestone
        /\ Approaching("IMPLEMENTATION") => Matched

RoutesInv ==
    /\ TreeInv /\ ResultOnRecord /\ TodoIsOpen
    /\ RowsAimed /\ NoRowsYet /\ CurrentInvoked /\ RetryIsSettled /\ CorrectsReview

FlightInv ==
    RoutesInv /\ ResumeMatched /\ CorrectionMatched /\ ImplementationMatched

\* Rows and fingerprint are changed by two kinds of step.
LEMMA WorldStands ==
    ASSUME TypeInv, [Next]_vars, ~RecordIntent, ~RowStep
    PROVE  /\ UNCHANGED <<provider_runs, intent>>
           /\ LastRun' = LastRun /\ InFlight' = InFlight
<1>1. UNCHANGED <<provider_runs, intent>>
  BY Moves
     DEF InvocationStep, OutsideStep, BeginReview, BeginClosure, EnterWait, ProviderRefused,
         Spawn, ProviderEdits, OrphanEdits, durable, world, vars
<1> QED BY <1>1, RowsStand

\* Away from the middle of an invocation nothing happens to them, and what matches
\* goes on to match.
LEMMA QuietPoints ==
    ASSUME TypeInv, [Next]_vars,
           proc'.pc \notin {"intended", "started", "spawned", "retry", "judge"}
    PROVE  /\ UNCHANGED <<provider_runs, intent>>
           /\ LastRun' = LastRun /\ InFlight' = InFlight
           /\ proc.pc = "resume" \/ proc'.pc \notin {"idle", "resume"} =>
                 (Matched => Matched')
<1>1. ~RecordIntent /\ ~RowStep
  BY DEF RecordIntent, RowStep, PublishPending, ProviderReturns, SpawnFails, TypeInv, TypeOK,
         ProcRecords
<1>2. ~ProviderEdits
  BY EditsAreAwaited
<1>3. /\ UNCHANGED <<provider_runs, intent>>
      /\ LastRun' = LastRun /\ InFlight' = InFlight
  BY <1>1, WorldStands
<1>4. Resume => proc.pc = "idle" /\ proc'.pc \in {"idle", "resume"}
  BY IdleFields DEF Resume, Issued, StopAt, ProcRecords
<1> QED BY <1>1, <1>2, <1>3, <1>4, CoveredStays DEF Matched

\* How the rows change, and where the command is then.
LEMMA RowChanges ==
    ASSUME RowInv, [Next]_vars
    PROVE  \/ UNCHANGED provider_runs /\ LastRun' = LastRun /\ InFlight' = InFlight
           \/ /\ PublishPending /\ LastRun' = PendingRow
              /\ workflow_state' = "PROVIDER_WAIT" /\ proc'.pc = "started"
              /\ proc.pc = "intended" /\ proc'.role = proc.role
              /\ UNCHANGED <<work, reopenings, intent>>
           \/ /\ ProviderReturns \/ SpawnFails
              /\ ~InFlight'
              /\ DOMAIN provider_runs' = DOMAIN provider_runs
              /\ \A i \in DOMAIN provider_runs :
                    /\ provider_runs'[i].role = provider_runs[i].role
                    /\ provider_runs'[i].milestone = provider_runs[i].milestone
<1> USE DEF RowInv, TypeInv, TypeOK
<1>1. CASE PublishPending
  BY <1>1, PendingIsLast DEF PublishPending, WaitIsPublic, world, ProcRecords
<1>2. CASE ProviderReturns \/ SpawnFails
  <2>1. /\ Len(provider_runs) > 0
        /\ \E failure \in FailureClasses \union {NoFailure} : provider_runs' = Settled(failure)
    BY <1>2 DEF ProviderReturns, SpawnFails, AwaitedRow, FailureClasses
  <2>2. PICK failure \in FailureClasses \union {NoFailure} : provider_runs' = Settled(failure)
    BY <2>1
  <2>3. /\ LastRun \in RunRows /\ LastRun' \in RunRows
        /\ LastRun' = [LastRun EXCEPT !.completed = TRUE, !.failure = failure]
        /\ DOMAIN provider_runs' = DOMAIN provider_runs
        /\ Len(provider_runs') = Len(provider_runs)
        /\ \A i \in DOMAIN provider_runs :
              i # Len(provider_runs) => provider_runs'[i] = provider_runs[i]
    BY <2>1, <2>2, SettledRow
  <2>4. /\ LastRun'.completed
        /\ LastRun'.role = LastRun.role /\ LastRun'.milestone = LastRun.milestone
    BY <2>3 DEF RunRows
  <2>5. \A i \in DOMAIN provider_runs :
           /\ provider_runs'[i].role = provider_runs[i].role
           /\ provider_runs'[i].milestone = provider_runs[i].milestone
    BY <2>3, <2>4 DEF LastRun
  <2> QED BY <1>2, <2>3, <2>4, <2>5 DEF InFlight
<1>3. CASE ~RowStep
  <2>1. UNCHANGED provider_runs
    BY <1>3, WorldStands DEF RecordIntent, durable
  <2> QED BY <2>1, RowsStand
<1> QED BY <1>1, <1>2, <1>3 DEF RowStep

\* Which steps lead to a correction, a retry, the first states and the end of a
\* milestone.
LEMMA RouteMoves ==
    ASSUME TypeInv, [Next]_vars
    PROVE  /\ NotBegun' => NotBegun
           /\ Retrying' => Retrying \/ SpawnFails
           /\ workflow_state' = "NEEDS_CORRECTION" =>
                 \/ workflow_state = "NEEDS_CORRECTION"
                 \/ JudgeReview /\ proc.outcome = "returned"
           /\ workflow_state' = "MILESTONE_COMPLETE" =>
                 workflow_state = "MILESTONE_COMPLETE" \/ FocusVerify
           /\ ToCorrect' =>
                 \/ ToCorrect
                 \/ JudgeReview /\ proc.outcome = "returned"
                 \/ ResumeStep /\ workflow_state \in {"NEEDS_CORRECTION", "CORRECTING"}
                 \/ RetryThroughWait
           /\ Approaching("IMPLEMENTATION")' =>
                 Approaching("IMPLEMENTATION") \/ EnterImplementing \/ RetryThroughWait
<1> USE DEF TypeInv, TypeOK
<1>1. CASE Start
  BY <1>1, IdleFields DEF Start, NotBegun, Retrying, ToCorrect, Approaching, Publish, StopAt,
       durable, world, ProcRecords
<1>2. CASE Preflight
  BY <1>2, IdleFields DEF Preflight, NotBegun, Retrying, ToCorrect, Approaching, Publish,
       StopAt, durable, world, ProcRecords, BoundaryStop, Remaining
<1>3. CASE EnterImplementing
  BY <1>3 DEF EnterImplementing, NotBegun, Retrying, ToCorrect, Approaching, Publish, StopAt,
       durable, world, ProcRecords
<1>4. CASE RefuseImplementing
  BY <1>4, IdleFields DEF RefuseImplementing, NotBegun, Retrying, ToCorrect, Approaching,
       Publish, StopAt, durable, world, ProcRecords, BoundaryStop, Stopped, Approvable
<1>5. CASE LeaveLoop
  BY <1>5, IdleFields DEF LeaveLoop, NotBegun, Retrying, ToCorrect, Approaching, Publish,
       StopAt, durable, world, ProcRecords, HandBack, Remaining
<1>6. CASE FocusVerify
  BY <1>6, IdleFields DEF FocusVerify, NotBegun, Retrying, ToCorrect, Approaching, Publish,
       StopAt, durable, world, ProcRecords, FailedNow
<1>7. CASE FinalVerify
  BY <1>7, IdleFields DEF FinalVerify, NotBegun, Retrying, ToCorrect, Approaching, Publish,
       StopAt, durable, world, ProcRecords, FailedNow, VerifiedNow
<1>8. CASE BeginReview
  BY <1>8, IdleFields DEF BeginReview, NotBegun, Retrying, ToCorrect, Approaching, Publish,
       StopAt, durable, world, ProcRecords
<1>9. CASE BeginCorrection
  BY <1>9, IdleFields DEF BeginCorrection, NotBegun, Retrying, ToCorrect, Approaching, Publish,
       StopAt, durable, world, ProcRecords
<1>10. CASE BeginClosure
  BY <1>10, IdleFields DEF BeginClosure, NotBegun, Retrying, ToCorrect, Approaching, Publish,
       StopAt, durable, world, ProcRecords, FailedNow, VerifiedNow
<1>11. CASE EnterWait
  BY <1>11, IdleFields DEF EnterWait, NotBegun, Retrying, ToCorrect, Approaching, Publish,
       StopAt, durable, world, ProcRecords
<1>12. CASE RecordIntent
  BY <1>12 DEF RecordIntent, NotBegun, Retrying, ToCorrect, Approaching, Publish, StopAt,
       durable, world, ProcRecords
<1>13. CASE PublishPending
  BY <1>13 DEF PublishPending, NotBegun, Retrying, ToCorrect, Approaching, Publish, StopAt,
       durable, world, ProcRecords, PendingRow
<1>14. CASE ProviderRefused
  <2>1. /\ workflow_state' \in {PROVIDER_ORIGIN[proc.role], "PROVIDER_WAIT", "PROVIDER_RETRY_PENDING"}
        /\ proc'.pc \in {"judge", "retry", "invoke"}
        /\ proc'.pc = "judge" /\ workflow_state' = PROVIDER_ORIGIN[proc.role]
    BY <1>14 DEF ProviderRefused, Publish, ProcRecords
  <2> QED BY <1>14, <2>1, OriginByRole
         DEF NotBegun, Retrying, ToCorrect, Approaching, ProcRecords
<1>15. CASE Spawn
  BY <1>15 DEF Spawn, NotBegun, Retrying, ToCorrect, Approaching, Publish, StopAt, durable,
       world, ProcRecords
<1>16. CASE ProviderReturns
  <2>1. /\ workflow_state' \in {PROVIDER_ORIGIN[proc.role], "PROVIDER_WAIT", "PROVIDER_RETRY_PENDING"}
        /\ proc'.pc \in {"judge", "retry", "invoke"}
        /\ proc'.pc = "judge" /\ workflow_state' = PROVIDER_ORIGIN[proc.role]
    BY <1>16 DEF ProviderReturns, Publish, ProcRecords
  <2> QED BY <1>16, <2>1, OriginByRole
         DEF NotBegun, Retrying, ToCorrect, Approaching, ProcRecords
<1>17. CASE SpawnFails
  <2>1. /\ workflow_state' \in {PROVIDER_ORIGIN[proc.role], "PROVIDER_RETRY_PENDING"}
        /\ proc'.pc \in {"judge", "retry"}
    BY <1>17 DEF SpawnFails, Publish, ProcRecords
  <2> QED BY <1>17, <2>1, OriginByRole DEF NotBegun, Retrying, ToCorrect, Approaching, ProcRecords
<1>18. CASE RetryThroughWait
  <2>1. /\ workflow_state' \in {PROVIDER_ORIGIN[proc.role], "PROVIDER_WAIT"}
        /\ proc'.pc \in {"retry", "invoke"} /\ proc.pc = "retry"
    BY <1>18 DEF RetryThroughWait, Publish, ProcRecords
  <2> QED BY <1>18, <2>1, OriginByRole DEF NotBegun, Retrying, ToCorrect, Approaching, ProcRecords
<1>19. CASE JudgeImplementation
  BY <1>19, IdleFields DEF JudgeImplementation, NotBegun, Retrying, ToCorrect, Approaching,
       Publish, StopAt, durable, world, ProcRecords, Judging
<1>20. CASE ProviderFailure
  BY <1>20, IdleFields DEF ProviderFailure, NotBegun, Retrying, ToCorrect, Approaching, Publish,
       StopAt, durable, world, ProcRecords, CountFailure
<1>21. CASE JudgeReview
  BY <1>21, IdleFields DEF JudgeReview, NotBegun, Retrying, ToCorrect, Approaching, Publish,
       StopAt, durable, world, ProcRecords, Judging, Raise
<1>22. CASE JudgeCorrection
  BY <1>22, IdleFields DEF JudgeCorrection, NotBegun, Retrying, ToCorrect, Approaching, Publish,
       StopAt, durable, world, ProcRecords, Judging, Raise
<1>23. CASE JudgeClosure
  BY <1>23, IdleFields DEF JudgeClosure, NotBegun, Retrying, ToCorrect, Approaching, Publish,
       StopAt, durable, world, ProcRecords, Judging, Raise
<1>24. CASE LeaveExcursion
  BY <1>24, ExcursionOrigin DEF LeaveExcursion, NotBegun, Retrying, ToCorrect, Approaching,
       Publish, StopAt, durable, world, ProcRecords
<1>25. CASE ResumeStep
  BY ZenonT(60), <1>25, IdleFields DEF ResumeStep, NotBegun, Retrying, ToCorrect, Approaching, Publish,
       StopAt, durable, world, ProcRecords
<1>26. CASE Resume
  BY <1>26, IdleFields DEF Resume, NotBegun, Retrying, ToCorrect, Approaching, Publish, StopAt,
       durable, world, ProcRecords, Issued, BoundaryStop
<1>27. CASE Abort
  BY <1>27, IdleFields DEF Abort, NotBegun, Retrying, ToCorrect, Approaching, Publish, StopAt,
       durable, world, ProcRecords
<1>28. CASE ReconcileMilestone
  BY <1>28, IdleFields DEF ReconcileMilestone, NotBegun, Retrying, ToCorrect, Approaching,
       Publish, StopAt, durable, world, ProcRecords, Issued
<1>29. CASE ReopenMilestone
  BY <1>29, IdleFields DEF ReopenMilestone, NotBegun, Retrying, ToCorrect, Approaching, Publish,
       StopAt, durable, world, ProcRecords, Issued
<1>30. CASE RecoverFailedReview
  BY <1>30, IdleFields DEF RecoverFailedReview, NotBegun, Retrying, ToCorrect, Approaching,
       Publish, StopAt, durable, world, ProcRecords, Issued
<1>31. CASE RevalidateCorrection
  BY <1>31, IdleFields DEF RevalidateCorrection, NotBegun, Retrying, ToCorrect, Approaching,
       Publish, StopAt, durable, world, ProcRecords, Issued
<1>32. CASE Crash
  BY <1>32, IdleFields DEF Crash, NotBegun, Retrying, ToCorrect, Approaching, Publish, StopAt,
       durable, world, ProcRecords
<1>33. CASE ProviderEdits
  BY <1>33 DEF ProviderEdits, NotBegun, Retrying, ToCorrect, Approaching, Publish, StopAt,
       durable, world, ProcRecords
<1>34. CASE OrphanEdits
  BY <1>34 DEF OrphanEdits, NotBegun, Retrying, ToCorrect, Approaching, Publish, StopAt,
       durable, world, ProcRecords
<1>35. CASE UNCHANGED vars
  BY <1>35 DEF vars, durable, world, NotBegun, Retrying, ToCorrect, Approaching
<1> QED
  BY <1>1, <1>2, <1>3, <1>4, <1>5, <1>6, <1>7, <1>8, <1>9, <1>10, <1>11, <1>12, <1>13,
     <1>14, <1>15, <1>16, <1>17, <1>18, <1>19, <1>20, <1>21, <1>22, <1>23, <1>24, <1>25,
     <1>26, <1>27, <1>28, <1>29, <1>30, <1>31, <1>32, <1>33, <1>34, <1>35
     DEF Next, RunnerStep, Command

\* Which steps lead to a resumed step, into the loop over the milestones and to the
\* invocation of an implementation.
LEMMA LoopMoves ==
    ASSUME TypeInv, [Next]_vars
    PROVE  /\ proc'.pc = "resume" =>
                 \/ proc.pc = "resume" /\ workflow_state' = workflow_state
                 \/ proc.pc = "resume" /\ LeaveExcursion
                 \/ /\ Resume /\ ~ReconcileRequired
                    /\ workflow_state' = workflow_state
           /\ proc'.pc = "drive" =>
                 \/ proc.pc = "drive" /\ proc' = proc
                 \/ Preflight
                 \/ RefuseImplementing /\ workflow_state = "PREFLIGHT"
                 \/ LeaveLoop
                 \/ FocusVerify
                 \/ ResumeStep
           /\ proc'.pc = "focus" =>
                 \/ proc.pc = "focus" /\ proc' = proc
                 \/ JudgeImplementation /\ proc.outcome = "returned"
                 \/ ResumeStep
           /\ Invoked("IMPLEMENTATION")' =>
                 \/ EnterImplementing
                 \/ /\ Invoked("IMPLEMENTATION") /\ proc'.milestone = proc.milestone
                    /\ work'.current = work.current
           /\ work'.current # work.current =>
                 EnterImplementing \/ FocusVerify \/ ReopenMilestone
           /\ work.completed \subseteq work'.completed /\ reopenings \subseteq reopenings'
<1> USE DEF TypeInv, TypeOK
<1>1. CASE Start
  BY <1>1, IdleFields DEF Start, Invoked, InvocationPcs, Publish, StopAt, durable, world,
       ProcRecords
<1>2. CASE Preflight
  BY <1>2, IdleFields DEF Preflight, Invoked, InvocationPcs, Publish, StopAt, durable, world,
       ProcRecords, BoundaryStop, Remaining
<1>3. CASE EnterImplementing
  BY <1>3 DEF EnterImplementing, Invoked, InvocationPcs, Publish, StopAt, durable, world,
       ProcRecords, WorkRecords
<1>4. CASE RefuseImplementing
  BY <1>4, IdleFields DEF RefuseImplementing, Invoked, InvocationPcs, Publish, StopAt, durable,
       world, ProcRecords, BoundaryStop, Stopped, Approvable
<1>5. CASE LeaveLoop
  BY <1>5, IdleFields DEF LeaveLoop, Invoked, InvocationPcs, Publish, StopAt, durable, world,
       ProcRecords, HandBack, Remaining
<1>6. CASE FocusVerify
  <2>1. UNCHANGED reopenings
    BY <1>6 DEF FocusVerify
  <2>2. work.completed \subseteq work'.completed
    <3>1. CASE work' = FailedNow
      BY <3>1 DEF FailedNow, WorkRecords
    <3>2. CASE work' = [work EXCEPT !.current = NoMilestone, !.checkpoint = worktree,
                                    !.completed = @ \union {proc.milestone}]
      BY <3>2 DEF WorkRecords
    <3> QED BY <1>6, <3>1, <3>2 DEF FocusVerify
  <2>3. proc'.pc \in {"idle", "drive"}
    BY <1>6, IdleFields DEF FocusVerify, StopAt, ProcRecords
  <2> QED BY <1>6, <2>1, <2>2, <2>3 DEF Invoked, InvocationPcs
<1>7. CASE FinalVerify
  BY <1>7, IdleFields DEF FinalVerify, Invoked, InvocationPcs, Publish, StopAt, durable, world,
       ProcRecords, FailedNow, VerifiedNow, WorkRecords
<1>8. CASE BeginReview
  BY <1>8, IdleFields DEF BeginReview, Invoked, InvocationPcs, Publish, StopAt, durable, world,
       ProcRecords
<1>9. CASE BeginCorrection
  BY <1>9, IdleFields DEF BeginCorrection, Invoked, InvocationPcs, Publish, StopAt, durable,
       world, ProcRecords
<1>10. CASE BeginClosure
  BY <1>10, IdleFields DEF BeginClosure, Invoked, InvocationPcs, Publish, StopAt, durable,
       world, ProcRecords, FailedNow, VerifiedNow, WorkRecords
<1>11. CASE EnterWait
  BY <1>11, IdleFields DEF EnterWait, Invoked, InvocationPcs, Publish, StopAt, durable, world,
       ProcRecords
<1>12. CASE RecordIntent
  BY <1>12 DEF RecordIntent, Invoked, InvocationPcs, Publish, StopAt, durable, world,
       ProcRecords
<1>13. CASE PublishPending
  BY <1>13 DEF PublishPending, Invoked, InvocationPcs, Publish, StopAt, durable, world,
       ProcRecords, PendingRow
<1>14. CASE ProviderRefused
  BY <1>14 DEF ProviderRefused, Invoked, InvocationPcs, Publish, StopAt, durable, world,
       ProcRecords
<1>15. CASE Spawn
  BY <1>15 DEF Spawn, Invoked, InvocationPcs, Publish, StopAt, durable, world, ProcRecords
<1>16. CASE ProviderReturns
  BY <1>16 DEF ProviderReturns, Invoked, InvocationPcs, Publish, StopAt, durable, world,
       ProcRecords, Settled
<1>17. CASE SpawnFails
  BY <1>17 DEF SpawnFails, Invoked, InvocationPcs, Publish, StopAt, durable, world, ProcRecords,
       Settled
<1>18. CASE RetryThroughWait
  BY <1>18 DEF RetryThroughWait, Invoked, InvocationPcs, Publish, StopAt, durable, world,
       ProcRecords
<1>19. CASE JudgeImplementation
  BY <1>19, IdleFields DEF JudgeImplementation, Invoked, InvocationPcs, Publish, StopAt,
       durable, world, ProcRecords, Judging, WorkRecords
<1>20. CASE ProviderFailure
  BY <1>20, IdleFields DEF ProviderFailure, Invoked, InvocationPcs, Publish, StopAt, durable,
       world, ProcRecords, CountFailure
<1>21. CASE JudgeReview
  BY <1>21, IdleFields DEF JudgeReview, Invoked, InvocationPcs, Publish, StopAt, durable, world,
       ProcRecords, Judging, Raise
<1>22. CASE JudgeCorrection
  BY <1>22, IdleFields DEF JudgeCorrection, Invoked, InvocationPcs, Publish, StopAt, durable,
       world, ProcRecords, Judging, Raise
<1>23. CASE JudgeClosure
  BY <1>23, IdleFields DEF JudgeClosure, Invoked, InvocationPcs, Publish, StopAt, durable,
       world, ProcRecords, Judging, Raise
<1>24. CASE LeaveExcursion
  BY <1>24 DEF LeaveExcursion, Invoked, InvocationPcs, Publish, StopAt, durable, world,
       ProcRecords
<1>25. CASE ResumeStep
  BY ZenonT(60), <1>25, IdleFields DEF ResumeStep, Invoked, InvocationPcs, Publish, StopAt, durable, world,
       ProcRecords
<1>26. CASE Resume
  BY <1>26, IdleFields DEF Resume, Invoked, InvocationPcs, Publish, StopAt, durable, world,
       ProcRecords, Issued, BoundaryStop
<1>27. CASE Abort
  BY <1>27, IdleFields DEF Abort, Invoked, InvocationPcs, Publish, StopAt, durable, world,
       ProcRecords
<1>28. CASE ReconcileMilestone
  BY <1>28, IdleFields DEF ReconcileMilestone, Invoked, InvocationPcs, Publish, StopAt, durable,
       world, ProcRecords, Issued
<1>29. CASE ReopenMilestone
  BY <1>29, IdleFields DEF ReopenMilestone, Invoked, InvocationPcs, Publish, StopAt, durable,
       world, ProcRecords, Issued, WorkRecords
<1>30. CASE RecoverFailedReview
  BY <1>30, IdleFields DEF RecoverFailedReview, Invoked, InvocationPcs, Publish, StopAt,
       durable, world, ProcRecords, Issued
<1>31. CASE RevalidateCorrection
  BY <1>31, IdleFields DEF RevalidateCorrection, Invoked, InvocationPcs, Publish, StopAt,
       durable, world, ProcRecords, Issued
<1>32. CASE Crash
  BY <1>32, IdleFields DEF Crash, Invoked, InvocationPcs, Publish, StopAt, durable, world,
       ProcRecords
<1>33. CASE ProviderEdits
  BY <1>33 DEF ProviderEdits, Invoked, InvocationPcs, Publish, StopAt, durable, world,
       ProcRecords
<1>34. CASE OrphanEdits
  BY <1>34 DEF OrphanEdits, Invoked, InvocationPcs, Publish, StopAt, durable, world, ProcRecords
<1>35. CASE UNCHANGED vars
  BY <1>35 DEF vars, durable, world, Invoked, InvocationPcs
<1> QED
  BY <1>1, <1>2, <1>3, <1>4, <1>5, <1>6, <1>7, <1>8, <1>9, <1>10, <1>11, <1>12, <1>13,
     <1>14, <1>15, <1>16, <1>17, <1>18, <1>19, <1>20, <1>21, <1>22, <1>23, <1>24, <1>25,
     <1>26, <1>27, <1>28, <1>29, <1>30, <1>31, <1>32, <1>33, <1>34, <1>35
     DEF Next, RunnerStep, Command

\* Each step keeps what is known of the ways to an invocation: a run not begun has no
\* rows, a retry follows a settled row, and a correction first follows a review.
LEMMA RoutesNext == RoutesInv /\ [Next]_vars => RoutesInv'
<1> SUFFICES ASSUME RoutesInv, [Next]_vars PROVE RoutesInv'
  OBVIOUS
<1> USE DEF RoutesInv, TreeInv, RowInv
<1>1. TreeInv' /\ ResultOnRecord' /\ TodoIsOpen'
  BY TreeNext, ResultNext, TodoNext
<1>2. CurrentInvoked'
  <2>1. CASE EnterImplementing
    BY <2>1 DEF EnterImplementing, CurrentInvoked, TypeInv, TypeOK, ProcRecords, WorkRecords
  <2>2. CASE ~EnterImplementing
    BY <2>2, LoopMoves DEF CurrentInvoked
  <2> QED BY <2>1, <2>2
<1>3. CASE UNCHANGED provider_runs /\ LastRun' = LastRun /\ InFlight' = InFlight
  <2>1. RowsAimed'
    BY <1>3 DEF RowsAimed
  <2>2. NoRowsYet'
    BY <1>3, RouteMoves DEF NoRowsYet
  <2>3. RetryIsSettled'
    <3>1. CASE SpawnFails
      <4>1. ~PublishPending
        BY <3>1 DEF SpawnFails, PublishPending
      <4>2. Len(provider_runs) > 0 /\ provider_runs' = Settled("SPAWN_FAILED")
        BY <3>1 DEF SpawnFails, TypeInv, AwaitedRow
      <4>3. /\ LastRun' = [LastRun EXCEPT !.completed = TRUE, !.failure = "SPAWN_FAILED"]
            /\ LastRun \in RunRows
        BY <4>2, SettledRow DEF FailureClasses, TypeInv
      <4>4. LastRun'.completed
        BY <4>3 DEF RunRows
      <4> QED BY <4>4 DEF RetryIsSettled, InFlight
    <3>2. CASE ~SpawnFails
      BY <1>3, <3>2, RouteMoves DEF RetryIsSettled
    <3> QED BY <3>1, <3>2
  <2>4. CorrectsReview'
    <3>1. CASE JudgeReview /\ proc.outcome = "returned"
      <4>1. proc.pc = "judge" /\ proc.role = "REVIEW"
        BY <3>1 DEF JudgeReview, Judging
      <4> QED BY <1>3, <3>1, <4>1 DEF ResultOnRecord, CorrectsReview
    <3>2. CASE ~(JudgeReview /\ proc.outcome = "returned")
      BY <1>3, <3>2, RouteMoves DEF CorrectsReview
    <3> QED BY <3>1, <3>2
  <2> QED BY <1>1, <1>2, <2>1, <2>2, <2>3, <2>4
<1>4. CASE /\ PublishPending /\ LastRun' = PendingRow
           /\ workflow_state' = "PROVIDER_WAIT" /\ proc'.pc = "started"
           /\ proc.pc = "intended"
  <2>1. RowsAimed'
    <3>1. /\ provider_runs'[Len(provider_runs) + 1] = PendingRow
          /\ DOMAIN provider_runs' = DOMAIN provider_runs \union {Len(provider_runs) + 1}
          /\ \A i \in DOMAIN provider_runs : provider_runs'[i] = provider_runs[i]
      BY <1>4, PendingIsLast DEF TypeInv
    <3>2. PendingRow.role = "IMPLEMENTATION" => PendingRow.milestone # NoMilestone
      BY <1>4 DEF PendingRow, TypeInv, Aimed, InvocationPcs
    <3> QED BY <3>1, <3>2 DEF RowsAimed
  <2>2. ~NotBegun' /\ ~Retrying' /\ workflow_state' # "NEEDS_CORRECTION"
    BY <1>4 DEF NotBegun, Retrying
  <2> QED BY <1>1, <1>2, <2>1, <2>2 DEF NoRowsYet, RetryIsSettled, CorrectsReview
<1>5. CASE /\ ProviderReturns \/ SpawnFails
           /\ ~InFlight'
           /\ DOMAIN provider_runs' = DOMAIN provider_runs
           /\ \A i \in DOMAIN provider_runs :
                 /\ provider_runs'[i].role = provider_runs[i].role
                 /\ provider_runs'[i].milestone = provider_runs[i].milestone
  <2>1. RowsAimed'
    BY <1>5 DEF RowsAimed
  <2>2. workflow_state' \notin {"IDLE", "PREFLIGHT", "NEEDS_CORRECTION"}
        /\ proc'.pc # "preflight"
    <3>1. /\ workflow_state' \in {PROVIDER_ORIGIN[proc.role], "PROVIDER_RETRY_PENDING"}
          /\ proc'.pc \in {"judge", "retry"} /\ proc.role \in Roles
      BY <1>5 DEF ProviderReturns, SpawnFails, Publish, TypeInv, TypeOK, ProcRecords
    <3> QED BY <3>1, OriginByRole
  <2> QED BY <1>1, <1>2, <1>5, <2>1, <2>2
             DEF NoRowsYet, NotBegun, RetryIsSettled, CorrectsReview
<1> QED BY <1>3, <1>4, <1>5, RowChanges

\* A command goes on after a crash only from what matches.
LEMMA ResumeMatchedNext ==
    ASSUME RoutesInv, ResumeMatched, [Next]_vars
    PROVE  ResumeMatched'
<1> SUFFICES ASSUME proc'.pc = "resume", InFlight',
                    workflow_state' \in {"PROVIDER_WAIT", "IMPLEMENTING", "CORRECTING", "REVIEWING"}
             PROVE  Matched'
  BY DEF ResumeMatched
<1> USE DEF RoutesInv, TreeInv, RowInv
<1>1. /\ UNCHANGED <<provider_runs, intent>>
      /\ LastRun' = LastRun /\ InFlight
      /\ proc.pc = "resume" /\ Matched => Matched'
  BY QuietPoints
<1>2. CASE proc.pc = "resume" /\ workflow_state' = workflow_state
  BY <1>1, <1>2 DEF ResumeMatched
<1>3. CASE proc.pc = "resume" /\ LeaveExcursion
  BY <1>1, <1>3 DEF ResumeMatched, LeaveExcursion, RetryIsSettled, Retrying
<1>4. CASE Resume /\ ~ReconcileRequired /\ workflow_state' = workflow_state
  <2>1. worktree' = worktree
    BY <1>4 DEF Resume
  <2>2. intent.sequence = LastRun.sequence /\ intent.tree = worktree
    BY <1>1, <1>4 DEF ReconcileRequired
  <2> QED BY <1>1, <2>1, <2>2 DEF Matched, Covered, ChangedSince
<1> QED BY <1>2, <1>3, <1>4, LoopMoves

\* A correction in flight is repeated only from what matches.
LEMMA CorrectionMatchedNext ==
    ASSUME RoutesInv, ResumeMatched, CorrectionMatched, [Next]_vars
    PROVE  CorrectionMatched'
<1> SUFFICES ASSUME ToCorrect', InFlight', LastRun'.role = "CORRECTION"
             PROVE  Matched'
  BY DEF CorrectionMatched
<1> USE DEF RoutesInv, TreeInv, RowInv
<1>1. /\ LastRun' = LastRun /\ InFlight
      /\ Matched => Matched'
  BY QuietPoints DEF ToCorrect, Approaching
<1>2. Matched
  <2>1. CASE ToCorrect
    BY <1>1, <2>1 DEF CorrectionMatched
  <2>2. CASE JudgeReview /\ proc.outcome = "returned"
    BY <1>1, <2>2 DEF JudgeReview, Judging, ResultOnRecord
  <2>3. CASE ResumeStep /\ workflow_state \in {"NEEDS_CORRECTION", "CORRECTING"}
    <3>1. proc.pc = "resume"
      BY <2>3 DEF ResumeStep
    <3> QED BY <1>1, <2>3, <3>1 DEF CorrectsReview, ResumeMatched
  <2>4. CASE RetryThroughWait
    BY <1>1, <2>4 DEF RetryThroughWait, RetryIsSettled, Retrying
  <2> QED BY <2>1, <2>2, <2>3, <2>4, RouteMoves
<1> QED BY <1>1, <1>2

\* The interrupted milestone is the one the record would go on with.
LEMMA AbandonedIsCurrent ==
    ASSUME TypeOK, RowsAimed, Abandoned, work.current = LastRun.milestone
    PROVE  CurrentMilestone = LastRun.milestone
<1>1. LastRun \in RunRows /\ Len(provider_runs) \in DOMAIN provider_runs
  BY LenProperties, ElementOfSeq DEF TypeOK, Abandoned, InFlight, LastRun
<1>2. LastRun.milestone \in Milestones
  BY <1>1 DEF RunRows, RowsAimed, Abandoned, LastRun
<1> QED BY <1>2 DEF CurrentMilestone, Remaining, Abandoned

\* While an implementation is in flight the record names its milestone, and the loop
\* goes on with it.
LEMMA AbandonedStands ==
    ASSUME RoutesInv, ImplementationMatched, ResumeMatched, [Next]_vars, Abandoned, Abandoned',
           UNCHANGED provider_runs, LastRun' = LastRun, InFlight' = InFlight
    PROVE  ImplementationMatched'
<1> USE DEF RoutesInv, TreeInv, RowInv, TypeInv
<1>1. /\ work.current = LastRun.milestone /\ workflow_state # "MILESTONE_COMPLETE"
      /\ proc.pc = "drive" => proc.todo = {LastRun.milestone} /\ Matched
      /\ proc.pc = "focus" => proc.milestone = LastRun.milestone
      /\ Approaching("IMPLEMENTATION") => Matched
  BY DEF ImplementationMatched
<1>2. ~NotBegun /\ ~Retrying
  BY DEF NoRowsYet, RetryIsSettled, Abandoned, InFlight
<1>3. FocusVerify =>
        workflow_state' = "MILESTONE_FAILED" /\ work'.current = work.current /\ proc' = Idle
  <2>1. SUFFICES ASSUME FocusVerify,
                        work' = [work EXCEPT !.current = NoMilestone, !.checkpoint = worktree,
                                             !.completed = @ \union {proc.milestone}]
                 PROVE  FALSE
    BY DEF FocusVerify, StopAt, Publish, FailedNow, TypeOK, WorkRecords
  <2>2. proc.milestone \in work'.completed
    BY <2>1 DEF TypeOK, WorkRecords
  <2> QED BY <1>1, <2>1, <2>2 DEF FocusVerify, Abandoned
<1>4. ~ReopenMilestone
  <2> SUFFICES ASSUME ReopenMilestone PROVE FALSE
    OBVIOUS
  <2>1. PICK m \in (Milestones \union {Unplanned}) \ work.completed :
           reopenings' = reopenings \union {LedgerEntry(m)}
    BY DEF ReopenMilestone
  <2>2. LedgerEntry(m) \in reopenings' /\ LedgerEntry(m).after = Len(provider_runs)
    BY <2>1
  <2> QED BY <2>2 DEF Abandoned
<1>5. EnterImplementing =>
        /\ proc.pc = "drive" /\ work'.current = LastRun.milestone
        /\ proc'.pc = "invoke" /\ proc'.milestone = LastRun.milestone
  <2>1. SUFFICES ASSUME EnterImplementing PROVE First(proc.todo) = LastRun.milestone
    BY DEF EnterImplementing, TypeOK, ProcRecords, WorkRecords
  <2>2. proc.todo = {LastRun.milestone} /\ proc.todo \subseteq Milestones
    BY <1>1, <2>1 DEF EnterImplementing, TypeOK, ProcRecords
  <2> QED BY <2>2, FirstIsLeast
<1>6. ResumeStep =>
        /\ proc.pc = "resume"
        /\ proc'.pc = "drive" => proc'.todo = {LastRun.milestone} /\ Matched
        /\ proc'.pc = "focus" => proc'.milestone = LastRun.milestone
  <2> SUFFICES ASSUME ResumeStep PROVE
        /\ proc.pc = "resume"
        /\ proc'.pc = "drive" => proc'.todo = {LastRun.milestone} /\ Matched
        /\ proc'.pc = "focus" => proc'.milestone = LastRun.milestone
    OBVIOUS
  <2>1. CurrentMilestone = LastRun.milestone
    BY <1>1, AbandonedIsCurrent
  <2>2. workflow_state \notin {"PREFLIGHT", "MILESTONE_COMPLETE"} /\ proc.pc = "resume" /\ InFlight
    BY <1>1, <1>2 DEF NotBegun, ResumeStep, Abandoned
  <2>3. proc'.pc = "drive" =>
          workflow_state = "IMPLEMENTING" /\ proc'.todo = {CurrentMilestone}
    BY <2>2, IdleFields DEF ResumeStep, StopAt, TypeOK, ProcRecords
  <2>4. proc'.pc = "focus" => proc'.milestone = CurrentMilestone
    BY <2>2, IdleFields DEF ResumeStep, StopAt, TypeOK, ProcRecords
  <2> QED BY <2>1, <2>2, <2>3, <2>4 DEF ResumeMatched
<1>7. work'.current = LastRun'.milestone
  BY <1>1, <1>3, <1>4, <1>5, LoopMoves
<1>8. workflow_state' # "MILESTONE_COMPLETE"
  BY <1>1, <1>3, RouteMoves
<1>9. proc'.pc = "drive" => proc'.todo = {LastRun'.milestone} /\ Matched'
  <2> SUFFICES ASSUME proc'.pc = "drive" PROVE proc'.todo = {LastRun.milestone} /\ Matched
    BY QuietPoints
  <2>1. CASE proc.pc = "drive" /\ proc' = proc
    BY <1>1, <2>1
  <2>2. ~Preflight /\ ~(RefuseImplementing /\ workflow_state = "PREFLIGHT")
    BY <1>2 DEF NotBegun, Preflight
  <2>3. ~LeaveLoop
    BY <1>1 DEF LeaveLoop
  <2>4. ~FocusVerify
    BY <1>3, IdleFields
  <2>5. CASE ResumeStep
    BY <1>6, <2>5
  <2> QED BY <2>1, <2>2, <2>3, <2>4, <2>5, LoopMoves
<1>10. proc'.pc = "focus" => proc'.milestone = LastRun'.milestone
  <2>1. ~(JudgeImplementation /\ proc.outcome = "returned")
    BY DEF JudgeImplementation, Judging, ResultOnRecord, Abandoned, InFlight
  <2> QED BY <1>1, <1>6, <2>1, LoopMoves
<1>11. Approaching("IMPLEMENTATION")' => Matched'
  <2> SUFFICES ASSUME Approaching("IMPLEMENTATION")' PROVE Matched
    BY QuietPoints DEF Approaching
  <2>1. ~RetryThroughWait
    BY <1>2 DEF Retrying, RetryThroughWait
  <2> QED BY <1>1, <1>5, <2>1, RouteMoves
<1> QED BY <1>7, <1>8, <1>9, <1>10, <1>11 DEF ImplementationMatched

\* An implementation in flight is repeated only from what matches.
LEMMA ImplementationMatchedNext ==
    ASSUME RoutesInv, ResumeMatched, ImplementationMatched, [Next]_vars
    PROVE  ImplementationMatched'
<1> SUFFICES ASSUME Abandoned' PROVE ImplementationMatched'
  BY DEF ImplementationMatched
<1> USE DEF RoutesInv, TreeInv, RowInv
<1>1. CASE UNCHANGED provider_runs /\ LastRun' = LastRun /\ InFlight' = InFlight
  <2>1. work.completed \subseteq work'.completed /\ reopenings \subseteq reopenings'
    BY LoopMoves
  <2>2. Abandoned
    BY <1>1, <2>1 DEF Abandoned
  <2> QED BY <1>1, <2>2, AbandonedStands
<1>2. CASE /\ PublishPending /\ LastRun' = PendingRow
           /\ workflow_state' = "PROVIDER_WAIT" /\ proc'.pc = "started"
           /\ proc.pc = "intended" /\ proc'.role = proc.role
           /\ UNCHANGED <<work, reopenings, intent>>
  <2>1. PendingRow.role = proc.role /\ PendingRow.milestone = proc.milestone
    BY DEF PendingRow
  <2>2. work.current = proc.milestone
    BY <1>2, <2>1 DEF CurrentInvoked, Invoked, InvocationPcs, Abandoned
  <2> QED BY <1>2, <2>1, <2>2 DEF ImplementationMatched, Approaching
<1>3. CASE ~InFlight'
  BY <1>3 DEF Abandoned
<1> QED BY <1>1, <1>2, <1>3, RowChanges

\* A new run repeats nothing.
LEMMA FlightInit == Init => FlightInv
<1> SUFFICES ASSUME Init PROVE FlightInv
  OBVIOUS
<1>1. TreeInv /\ Len(provider_runs) = 0 /\ ~InFlight /\ DOMAIN provider_runs = {}
  BY TreeInit DEF Init, InFlight
<1>2. ResultOnRecord /\ TodoIsOpen /\ CurrentInvoked
  BY IdleFields DEF Init, ResultOnRecord, TodoIsOpen, CurrentInvoked, Invoked, InvocationPcs
<1>3. CorrectsReview
  BY DEF Init, CorrectsReview
<1> QED BY <1>1, <1>2, <1>3
           DEF FlightInv, RoutesInv, RowsAimed, NoRowsYet, RetryIsSettled, ResumeMatched,
               CorrectionMatched, ImplementationMatched, Abandoned

\* Each step keeps what can be repeated matched.
LEMMA FlightNext == FlightInv /\ [Next]_vars => FlightInv'
BY RoutesNext, ResumeMatchedNext, CorrectionMatchedNext, ImplementationMatchedNext
   DEF FlightInv, RoutesInv

\* An invocation of a role that edits, abandoned by a crash, is repeated only if the
\* fingerprint is its own and still describes the worktree, but for the paths that
\* providers left behind changed since the command was issued, unless an operator
\* reopened a milestone since: for any number of crashes and commands.
THEOREM AbandonedReconciled == Spec => AbandonedEffectsReconciled
<1>1. FlightInv /\ [Next]_vars =>
        [Repeats /\ proc.role \in Editors
         => /\ intent.sequence = LastRun.sequence
            /\ ChangedSince(worktree, intent.tree) \subseteq strays.command]_vars
  <2> SUFFICES ASSUME FlightInv, [Next]_vars, Repeats, proc.role \in Editors
               PROVE  /\ intent.sequence = LastRun.sequence
                      /\ ChangedSince(worktree, intent.tree) \subseteq strays.command
    OBVIOUS
  <2> USE DEF FlightInv, RoutesInv, TreeInv, RowInv, Repeats
  <2>1. proc.pc = "waiting"
    BY WorldStands
       DEF RecordIntent, RowStep, PublishPending, ProviderReturns, SpawnFails, world
  <2>2. CASE proc.role = "IMPLEMENTATION"
    <3>1. proc.milestone \notin work.completed
      BY <2>1, <2>2 DEF TodoIsOpen, Invoked, InvocationPcs
    <3>2. Abandoned /\ Approaching("IMPLEMENTATION")
      BY <2>1, <2>2, <3>1 DEF Abandoned, Approaching
    <3> QED BY <3>2 DEF ImplementationMatched, Matched, Covered
  <2>3. CASE proc.role = "CORRECTION"
    BY <2>1, <2>3 DEF CorrectionMatched, ToCorrect, Approaching, Matched, Covered
  <2> QED BY <2>2, <2>3 DEF Editors
<1>2. FlightInv /\ [Next]_vars => FlightInv'
  BY FlightNext
<1> QED BY <1>1, <1>2, FlightInit, PTL DEF Spec, AbandonedEffectsReconciled
=============================================================================
