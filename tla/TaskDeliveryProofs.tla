-------------------------- MODULE TaskDeliveryProofs --------------------------
(***************************************************************************)
(* Proofs about TaskDelivery for every set of contents, deciders, answers  *)
(* and configurations, and for every limit of attempts and repairs.        *)
(***************************************************************************)
EXTENDS TaskDelivery, FiniteSetTheorems, SequenceTheorems, WellFoundedInduction, TLAPS

-----------------------------------------------------------------------------
(* The table of edges. *)

\* The states by name.
LEMMA StateNames ==
    WorkflowState =
        {"CREATED", "AUTHORIZED", "PRECONDITIONS_CHECKED", "BRANCH_CREATED", "IMPLEMENTING",
         "VALIDATING", "QA_RUNNING", "READY_TO_COMMIT", "COMMITTED", "PUSHED", "PR_OPEN",
         "AUTO_MERGE_ENABLED", "WAITING_FOR_CHECKS", "MERGED", "CLOSING", "DONE",
         "REPAIRING", "FAILED", "CANCELLED"}
<1>1. Len(Progress) = 16
  BY DEF Progress
<1>2. /\ Progress[1] = "CREATED" /\ Progress[2] = "AUTHORIZED"
      /\ Progress[3] = "PRECONDITIONS_CHECKED" /\ Progress[4] = "BRANCH_CREATED"
      /\ Progress[5] = "IMPLEMENTING" /\ Progress[6] = "VALIDATING"
      /\ Progress[7] = "QA_RUNNING" /\ Progress[8] = "READY_TO_COMMIT"
      /\ Progress[9] = "COMMITTED" /\ Progress[10] = "PUSHED" /\ Progress[11] = "PR_OPEN"
      /\ Progress[12] = "AUTO_MERGE_ENABLED" /\ Progress[13] = "WAITING_FOR_CHECKS"
      /\ Progress[14] = "MERGED" /\ Progress[15] = "CLOSING" /\ Progress[16] = "DONE"
  BY DEF Progress
<1>3. 1 .. 16 = {1, 2, 3, 4, 5, 6, 7, 8, 9, 10, 11, 12, 13, 14, 15, 16}
  OBVIOUS
<1> HIDE DEF Progress
<1> QED BY <1>1, <1>2, <1>3 DEF WorkflowState, TERMINAL_STATES

EdgeTable(from, to) ==
    \/ from = "CREATED" /\ to = "AUTHORIZED"
    \/ from = "AUTHORIZED" /\ to = "PRECONDITIONS_CHECKED"
    \/ from = "PRECONDITIONS_CHECKED" /\ to = "BRANCH_CREATED"
    \/ from = "BRANCH_CREATED" /\ to = "IMPLEMENTING"
    \/ from \in {"IMPLEMENTING", "REPAIRING"} /\ to = "VALIDATING"
    \/ from = "VALIDATING" /\ to = "QA_RUNNING"
    \/ from = "QA_RUNNING" /\ to = "READY_TO_COMMIT"
    \/ from \in {"VALIDATING", "QA_RUNNING"} /\ to = "REPAIRING"
    \/ from = "READY_TO_COMMIT" /\ to = "COMMITTED"
    \/ from = "COMMITTED" /\ to = "PUSHED"
    \/ from = "PUSHED" /\ to = "PR_OPEN"
    \/ from = "PR_OPEN" /\ to = "AUTO_MERGE_ENABLED"
    \/ from = "AUTO_MERGE_ENABLED" /\ to = "WAITING_FOR_CHECKS"
    \/ from = "WAITING_FOR_CHECKS" /\ to = "MERGED"
    \/ from = "MERGED" /\ to = "CLOSING"
    \/ from = "CLOSING" /\ to = "DONE"
    \/ from \notin TERMINAL_STATES \cup {"CREATED"} /\ to = "FAILED"
    \/ from \in CANCELLABLE /\ to = "CANCELLED"

\* Every allowed edge is one of the table's, and joins two states.
LEMMA EdgeFacts ==
    ASSUME NEW from, NEW to, validate_transition(from, to)
    PROVE  /\ EdgeTable(from, to)
           /\ from \in WorkflowState \ TERMINAL_STATES /\ to \in WorkflowState
<1>1. Len(Progress) = 16
  BY DEF Progress
<1>2. /\ Progress[1] = "CREATED" /\ Progress[2] = "AUTHORIZED"
      /\ Progress[3] = "PRECONDITIONS_CHECKED" /\ Progress[4] = "BRANCH_CREATED"
      /\ Progress[5] = "IMPLEMENTING" /\ Progress[6] = "VALIDATING"
      /\ Progress[7] = "QA_RUNNING" /\ Progress[8] = "READY_TO_COMMIT"
      /\ Progress[9] = "COMMITTED" /\ Progress[10] = "PUSHED" /\ Progress[11] = "PR_OPEN"
      /\ Progress[12] = "AUTO_MERGE_ENABLED" /\ Progress[13] = "WAITING_FOR_CHECKS"
      /\ Progress[14] = "MERGED" /\ Progress[15] = "CLOSING" /\ Progress[16] = "DONE"
  BY DEF Progress
<1>3. 1 .. 15 = {1, 2, 3, 4, 5, 6, 7, 8, 9, 10, 11, 12, 13, 14, 15}
  OBVIOUS
<1>e. <<from, to>> \in ALLOWED_TRANSITIONS
  BY DEF validate_transition
<1>4. CASE \E i \in 1 .. 15 : <<from, to>> = <<Progress[i], Progress[i + 1]>>
  <2>1. PICK i \in 1 .. 15 : from = Progress[i] /\ to = Progress[i + 1]
    BY <1>4
  <2> QED BY <2>1, <1>2, <1>3, StateNames DEF EdgeTable, TERMINAL_STATES
<1>5. CASE \E s \in WorkflowState \ (TERMINAL_STATES \cup {"CREATED"}) : <<from, to>> = <<s, "FAILED">>
  BY <1>5, StateNames DEF EdgeTable, TERMINAL_STATES
<1>6. CASE <<from, to>> \in {<<"VALIDATING", "REPAIRING">>, <<"QA_RUNNING", "REPAIRING">>,
                            <<"REPAIRING", "VALIDATING">>}
  BY <1>6, StateNames DEF EdgeTable, TERMINAL_STATES
<1>7. CASE \E s \in CANCELLABLE : <<from, to>> = <<s, "CANCELLED">>
  BY <1>7, StateNames DEF EdgeTable, TERMINAL_STATES, CANCELLABLE
<1> HIDE DEF Progress
<1> QED BY <1>e, <1>1, <1>4, <1>5, <1>6, <1>7 DEF ALLOWED_TRANSITIONS

-----------------------------------------------------------------------------
(* The history and the machine. *)

HistoryInv ==
    /\ transitions \in Seq(Transition)
    /\ mode \in {"none", "implementer", "closeout"}
    /\ machine \in WorkflowState \ TERMINAL_STATES
    /\ HistoryIsSound

\* A history that goes on: from where it ended, along an edge its actor may record.
LEMMA RecordFacts ==
    ASSUME HistoryIsConsistent(transitions), HistoryReplays(transitions),
           transitions \in Seq(Transition),
           NEW to, NEW actor \in Actors, validate_transition(State, to),
           validate_actor_for_transition(State, to, actor), RecordTransition(State, to, actor)
    PROVE  /\ transitions' \in Seq(Transition)
           /\ HistoryIsConsistent(transitions)' /\ HistoryReplays(transitions)'
           /\ State' = to
<1> DEFINE r == [from_state |-> State, to_state |-> to, actor |-> actor]
<1>1. State \in WorkflowState \ TERMINAL_STATES /\ to \in WorkflowState
  BY EdgeFacts
<1>2. r \in Transition
  BY <1>1 DEF Transition
<1>3. transitions' = Append(transitions, r)
  BY DEF RecordTransition
<1>f. r.from_state = State /\ r.to_state = to /\ r.actor = actor
  OBVIOUS
<1> HIDE DEF r
<1>4. /\ transitions' \in Seq(Transition) /\ Len(transitions') = Len(transitions) + 1
      /\ transitions'[Len(transitions) + 1] = r
      /\ \A i \in 1 .. Len(transitions) : transitions'[i] = transitions[i]
      /\ Len(transitions) \in Nat
  BY <1>2, <1>3
<1>5. transitions' # <<>>
  BY <1>4
<1>6. State' = to
  BY <1>4, <1>5, <1>f DEF State, StateAfter
<1>7. transitions = <<>> => State = "CREATED" /\ Len(transitions) = 0
  BY DEF State, StateAfter
<1>8. transitions # <<>> => State = transitions[Len(transitions)].to_state /\ Len(transitions) > 0
  BY EmptySeq DEF State, StateAfter
<1>9. transitions'[1].from_state = "CREATED"
  <2>1. CASE transitions = <<>>
    BY <2>1, <1>4, <1>7, <1>f
  <2>2. CASE transitions # <<>>
    BY <2>2, <1>4, <1>8 DEF HistoryIsConsistent
  <2> QED BY <2>1, <2>2
<1>10. ASSUME NEW i \in 1 .. Len(transitions') - 1
       PROVE  /\ transitions'[i + 1].from_state = transitions'[i].to_state
              /\ transitions'[i].to_state \notin TERMINAL_STATES
  <2>1. CASE i = Len(transitions)
    BY <2>1, <1>1, <1>4, <1>7, <1>8, <1>f
  <2>2. CASE i # Len(transitions)
    BY <2>2, <1>4 DEF HistoryIsConsistent
  <2> QED BY <2>1, <2>2
<1>11. HistoryIsConsistent(transitions)'
  BY <1>9, <1>10 DEF HistoryIsConsistent
<1>12. HistoryReplays(transitions)'
  <2>1. SUFFICES ASSUME NEW i \in 1 .. Len(transitions')
                 PROVE  /\ validate_transition(transitions'[i].from_state, transitions'[i].to_state)
                        /\ validate_actor_for_transition(transitions'[i].from_state,
                               transitions'[i].to_state, transitions'[i].actor)
    BY DEF HistoryReplays
  <2>2. CASE i = Len(transitions) + 1
    BY <2>2, <1>4, <1>f
  <2>3. CASE i \in 1 .. Len(transitions)
    BY <2>3, <1>4 DEF HistoryReplays
  <2> QED BY <2>2, <2>3, <1>4
<1> QED BY <1>4, <1>6, <1>11, <1>12

\* A driver records an edge from where its machine stands.
Records == mode # "none" /\ \E to \in WorkflowState, actor \in Actors : TransitionTo(to, actor)

\* A session that goes on, ends or begins records nothing.
Rests ==
    /\ transitions' = transitions
    /\ \/ mode' = mode /\ machine' = machine
       \/ SessionEnds
       \/ mode = "none" /\ mode' \in {"implementer", "closeout"} /\ machine' = State
          /\ (transitions = <<>> \/ State \notin TERMINAL_STATES)

\* What a step does to the history: a driver's record, a drift's, or nothing.
LEMMA HistoryStep ==
    ASSUME [Next]_taskVars
    PROVE  Records \/ ResumeDrifts \/ Rests
<1>a. \A to, actor : mode # "none" /\ actor \in Actors /\ TransitionTo(to, actor) => Records
  BY EdgeFacts DEF Records, TransitionTo
<1>b. Actors = {"human", "orchestrator"}
  BY DEF Actors

<1>1. CASE Start
  BY <1>1, <1>a, <1>b DEF Start, StartSession, approvalVars, repository, bounds, Rests,
     State, StateAfter
<1>2. CASE Implement
  BY <1>2, <1>a, <1>b DEF Implement, ResumeImplementer, Unaffected, durable, repository,
     bounds, approvalVars, Rests, CanResume, Resumable
<1>3. CASE CloseOut
  BY <1>3, <1>a, <1>b DEF CloseOut, ResumeCloseout, Unaffected, durable, repository, bounds,
     approvalVars, Rests, CanResume, Resumable
<1>4. CASE DriftOnResume
  BY <1>4, <1>a, <1>b DEF DriftOnResume, Unaffected, approvalVars
<1>5. CASE Authorize
  BY <1>5, <1>a, <1>b DEF Authorize, RecordAuthorization, approvalVars, At, repository,
     bounds, Rests
<1>6. CASE CheckPreconditions
  BY <1>6, <1>a, <1>b DEF CheckPreconditions, At, Advance, Fail, records, world, bounds,
     approvalVars, repository, Rests
<1>7. CASE CreateStageBranch
  BY <1>7, <1>a, <1>b DEF CreateStageBranch, At, Continue, Fail, records, bounds,
     approvalVars, Goto, Rests
<1>8. CASE CheckoutStageBranch
  BY <1>8, <1>a, <1>b DEF CheckoutStageBranch, At, Continue, Fail, records, bounds,
     approvalVars, Goto, Rests
<1>9. CASE BranchReady
  BY <1>9, <1>a, <1>b DEF BranchReady, At, Advance, records, world, bounds, approvalVars,
     repository, Rests
<1>10. CASE HandOff
  BY <1>10, <1>a, <1>b DEF HandOff, At, Advance, records, world, bounds, approvalVars,
     repository, Rests
<1>11. CASE ReconcileImplementation
  BY <1>11, <1>a, <1>b DEF ReconcileImplementation, At, Continue, Raised, world, bounds,
     approvalVars, Goto, repository, Rests
<1>12. CASE JudgeReconciled
  BY <1>12, <1>a, <1>b DEF JudgeReconciled, At, Advance, Continue, Fail, records, world,
     bounds, approvalVars, Goto, repository, Rests
<1>13. CASE AbandonRepair
  BY <1>13, <1>a, <1>b DEF AbandonRepair, At, Fail, records, world, bounds, approvalVars,
     repository, Rests
<1>14. CASE StartAttempt
  BY <1>14, <1>a, <1>b DEF StartAttempt, Continue, Raised, world, bounds, approvalVars,
     Goto, repository, Rests
<1>15. CASE RunProvider
  BY <1>15, <1>a, <1>b DEF RunProvider, Goto, records, bounds, approvalVars, Rests
<1>16. CASE CompleteAttempt
  BY <1>16, <1>a, <1>b DEF CompleteAttempt, Continue, Raised, world, bounds, approvalVars,
     Goto, repository, Rests
<1>17. CASE WriteStageReport
  BY <1>17, <1>a, <1>b DEF WriteStageReport, Raised, Continue, world, bounds, approvalVars,
     Goto, repository, Rests
<1>18. CASE AttemptFailed
  BY <1>18, <1>a, <1>b DEF AttemptFailed, Continue, Fail, records, world, bounds,
     approvalVars, Goto, repository, Rests
<1>19. CASE Validate
  BY <1>19, <1>a, <1>b DEF Validate, At, Raised, Advance, Fail, EnterRepairOrFail, world,
     bounds, approvalVars, Continue, repository, Goto, Rests
<1>20. CASE RunQa
  BY <1>20, <1>a, <1>b DEF RunQa, At, Continue, world, bounds, approvalVars, Goto,
     repository, Rests
<1>21. CASE JudgeQa
  BY <1>21, <1>a, <1>b DEF JudgeQa, At, EnterRepairOrFail, Advance, world, bounds,
     approvalVars, Raised, Continue, Fail, repository, Goto, Rests
<1>22. CASE BeginRepair
  BY <1>22, <1>a, <1>b DEF BeginRepair, Advance, records, world, bounds, approvalVars,
     repository, Rests
<1>23. CASE GateChecksums
  BY <1>23, <1>a, <1>b DEF GateChecksums, At, Raised, Goto, records, world, bounds,
     approvalVars, repository, Rests
<1>24. CASE GateRequests
  BY <1>24, <1>a, <1>b DEF GateRequests, At, Continue, Raised, approvalVars, records, world,
     bounds, Goto, repository, Rests
<1>25. CASE GateEvaluates
  BY <1>25, <1>a, <1>b DEF GateEvaluates, At, GateDecides, records, world, bounds, Continue,
     Raised, Fail, repository, Goto, Rests
<1>26. CASE GateCompares
  BY <1>26, <1>a, <1>b DEF GateCompares, At, Raised, Continue, records, world, bounds,
     approvalVars, Goto, repository, Rests
<1>27. CASE GateSpends
  BY <1>27, <1>a, <1>b DEF GateSpends, At, Continue, records, world, bounds, Goto,
     repository, Rests
<1>28. CASE GateInvalidates
  BY <1>28, <1>a, <1>b DEF GateInvalidates, At, Continue, records, world, bounds, Goto,
     repository, Rests
<1>29. CASE StartEffect
  BY <1>29, <1>a, <1>b DEF StartEffect, InEffect, Fail, Continue, Raised, world, bounds,
     approvalVars, Goto, repository, Rests
<1>30. CASE create_commit
  BY <1>30, <1>a, <1>b DEF create_commit, InEffect, Sees, Goto, records, bounds,
     approvalVars, Rests
<1>31. CASE push_stage_branch
  BY <1>31, <1>a, <1>b DEF push_stage_branch, InEffect, Sees, repository, Goto, records,
     bounds, approvalVars, Rests
<1>32. CASE create_pull_request
  BY <1>32, <1>a, <1>b DEF create_pull_request, InEffect, Sees, repository, Goto, records,
     bounds, approvalVars, Rests
<1>33. CASE CompleteEffect
  BY <1>33, <1>a, <1>b DEF CompleteEffect, InEffect, Continue, Raised, world, bounds,
     approvalVars, Goto, repository, Rests
<1>34. CASE Forward
  BY <1>34, <1>a, <1>b DEF Forward, Advance, records, world, bounds, approvalVars,
     repository, Rests
<1>35. CASE Surrender
  BY <1>35, <1>a, <1>b DEF Surrender, Fail, records, world, bounds, approvalVars,
     repository, Rests
<1>36. CASE RunEnds
  BY <1>36, <1>a, <1>b DEF RunEnds, Raised, records, world, bounds, approvalVars,
     repository, Rests
<1>37. CASE EnableAutoMerge
  BY <1>37, <1>a, <1>b DEF EnableAutoMerge, Closing, Advance, Continue, Fail, records,
     repository, bounds, approvalVars, Goto, Rests
<1>38. CASE AutoMergeEnabled
  BY <1>38, <1>a, <1>b DEF AutoMergeEnabled, Closing, Advance, records, world, bounds,
     approvalVars, repository, Rests
<1>39. CASE ObserveAutoMerge
  BY <1>39, <1>a, <1>b DEF ObserveAutoMerge, Closing, Advance, Fail, records, world, bounds,
     approvalVars, repository, Rests
<1>40. CASE WaitMore
  BY <1>40, <1>a, <1>b DEF WaitMore, Closing, session, Raised, records, world, bounds,
     approvalVars, repository, Rests
<1>41. CASE ObserveMerge
  BY <1>41, <1>a, <1>b DEF ObserveMerge, Closing, Advance, Fail, records, world, bounds,
     approvalVars, repository, Rests
<1>42. CASE ObservationRefused
  BY <1>42, <1>a, <1>b DEF ObservationRefused, Closing, Fail, records, world, bounds,
     approvalVars, repository, Rests
<1>43. CASE HandOffToCloseout
  BY <1>43, <1>a, <1>b DEF HandOffToCloseout, Closing, Advance, records, world, bounds,
     approvalVars, repository, Rests
<1>44. CASE AlreadyClosed
  BY <1>44, <1>a, <1>b DEF AlreadyClosed, Closing, Advance, records, world, bounds,
     approvalVars, repository, Rests
<1>45. CASE CheckoutBaseline
  BY <1>45, <1>a, <1>b DEF CheckoutBaseline, Closing, Continue, Fail, repository, records,
     bounds, approvalVars, Goto, Rests
<1>46. CASE FastForwardPull
  BY <1>46, <1>a, <1>b DEF FastForwardPull, Closing, Continue, Fail, records, bounds,
     approvalVars, Goto, Rests
<1>47. CASE DeleteBothBranches
  BY <1>47, <1>a, <1>b DEF DeleteBothBranches, Closing, Continue, Fail, records, bounds,
     approvalVars, Goto, Rests
<1>48. CASE WriteCloseoutReport
  BY <1>48, <1>a, <1>b DEF WriteCloseoutReport, Closing, Continue, Fail, world, bounds,
     approvalVars, Goto, repository, Rests
<1>49. CASE ClosedOut
  BY <1>49, <1>a, <1>b DEF ClosedOut, Closing, Advance, records, world, bounds,
     approvalVars, repository, Rests
<1>50. CASE Abort
  BY <1>50, <1>a, <1>b DEF Abort, Cancel, approvalVars, repository, bounds, Rests
<1>51. CASE Die
  BY <1>51, <1>a, <1>b DEF Die, Unaffected, approvalVars, Rests, Crash, durable
<1>52. CASE Meddle
  BY <1>52, <1>a, <1>b DEF Meddle, EditTree, MoveBinding, Unaffected, durable, session,
     approvalVars, Rests
<1>53. CASE Others
  BY <1>53, <1>a, <1>b DEF Others, durable, repository, session, bounds, Rests
<1>54. CASE ChecksFinish
  BY <1>54, <1>a, <1>b DEF ChecksFinish, durable, repository, session, bounds, approvalVars,
     Rests
<1>55. CASE AutoMerges
  BY <1>55, <1>a, <1>b DEF AutoMerges, durable, repository, session, bounds, approvalVars,
     Rests
<1>56. CASE PersonSettles
  BY <1>56, <1>a, <1>b DEF PersonSettles, durable, repository, session, approvalVars, Rests
<1>57. CASE UNCHANGED taskVars
  BY <1>57, <1>a, <1>b DEF taskVars, durable, repository, session, bounds, approvalVars,
     Rests
<1> QED
  BY <1>1, <1>2, <1>3, <1>4, <1>5, <1>6, <1>7, <1>8, <1>9, <1>10, <1>11, <1>12, <1>13,
     <1>14, <1>15, <1>16, <1>17, <1>18, <1>19, <1>20, <1>21, <1>22, <1>23, <1>24, <1>25,
     <1>26, <1>27, <1>28, <1>29, <1>30, <1>31, <1>32, <1>33, <1>34, <1>35, <1>36, <1>37,
     <1>38, <1>39, <1>40, <1>41, <1>42, <1>43, <1>44, <1>45, <1>46, <1>47, <1>48, <1>49,
     <1>50, <1>51, <1>52, <1>53, <1>54, <1>55, <1>56, <1>57 DEF Next, DriverStep,
     ImplementerStep, CloseoutStep, GitHub

\* A driver's record goes on from where the history ends.
LEMMA RecordsFacts ==
    ASSUME HistoryInv, Records
    PROVE  /\ machine = State /\ EdgeTable(State, State')
           /\ transitions' \in Seq(Transition) /\ HistoryIsConsistent(transitions)'
           /\ HistoryReplays(transitions)'
           /\ State' \in TERMINAL_STATES => SessionEnds
           /\ State' \notin TERMINAL_STATES =>
                  mode' = mode /\ machine' = State' /\ pc' = "step"
<1>1. PICK to \in WorkflowState, actor \in Actors : TransitionTo(to, actor)
  BY DEF Records
<1>2. machine = State
  BY DEF Records, HistoryInv, HistoryIsSound
<1>3. /\ validate_transition(State, to) /\ validate_actor_for_transition(State, to, actor)
      /\ RecordTransition(State, to, actor)
      /\ IF to \in TERMINAL_STATES THEN SessionEnds
         ELSE machine' = to /\ pc' = "step" /\ UNCHANGED mode
  BY <1>1, <1>2 DEF TransitionTo
<1>4. State' = to /\ transitions' \in Seq(Transition) /\ HistoryIsConsistent(transitions)'
      /\ HistoryReplays(transitions)'
  BY <1>3, RecordFacts DEF HistoryInv, HistoryIsSound
<1>5. EdgeTable(State, to)
  BY <1>3, EdgeFacts
<1> QED BY <1>2, <1>3, <1>4, <1>5

\* A drift ends the task of a session that did not begin.
LEMMA DriftFacts ==
    ASSUME HistoryInv, ResumeDrifts
    PROVE  /\ EdgeTable(State, State') /\ State' = "FAILED"
           /\ transitions' \in Seq(Transition) /\ HistoryIsConsistent(transitions)'
           /\ HistoryReplays(transitions)'
           /\ mode = "none" /\ mode' = mode /\ machine' = machine
<1>1. /\ validate_transition(State, "FAILED") /\ RecordTransition(State, "FAILED", "orchestrator")
      /\ HistoryIsConsistent(transitions) /\ HistoryReplays(transitions)
      /\ mode = "none" /\ mode' = mode /\ machine' = machine
  BY DEF ResumeDrifts, Resumable, PersistDrift, session
<1>2. "orchestrator" \in Actors /\ validate_actor_for_transition(State, "FAILED", "orchestrator")
  BY DEF Actors, validate_actor_for_transition
<1>3. State' = "FAILED" /\ transitions' \in Seq(Transition) /\ HistoryIsConsistent(transitions)'
      /\ HistoryReplays(transitions)'
  BY <1>1, <1>2, RecordFacts DEF HistoryInv
<1> QED BY <1>1, <1>3, EdgeFacts

\* The task's history is sound at the start.
LEMMA HistoryInit == Init => HistoryInv
<1> SUFFICES ASSUME Init PROVE HistoryInv
  OBVIOUS
<1>1. transitions = <<>> /\ mode = "none" /\ machine = "CREATED"
  BY DEF Init, SessionInit
<1>2. Len(transitions) = 0 /\ transitions \in Seq(Transition)
  BY <1>1
<1>3. HistoryIsConsistent(transitions) /\ HistoryReplays(transitions)
  BY <1>1, <1>2 DEF HistoryIsConsistent, HistoryReplays
<1> QED BY <1>1, <1>2, <1>3, StateNames DEF HistoryInv, HistoryIsSound, TERMINAL_STATES

\* Every step keeps the history sound and the machine where the history ends.
LEMMA HistoryStepKeeps == HistoryInv /\ [Next]_taskVars => HistoryInv'
<1> SUFFICES ASSUME HistoryInv, [Next]_taskVars PROVE HistoryInv'
  OBVIOUS
<1>0. "CREATED" \in WorkflowState \ TERMINAL_STATES
  BY StateNames DEF TERMINAL_STATES
<1>1. CASE Records
  <2>1. EdgeTable(State, State') /\ State' \in WorkflowState
    BY <1>1, RecordsFacts, StateNames DEF EdgeTable
  <2> QED BY <1>0, <1>1, <2>1, RecordsFacts DEF HistoryInv, HistoryIsSound, SessionEnds
<1>2. CASE ResumeDrifts
  BY <1>2, DriftFacts DEF HistoryInv, HistoryIsSound
<1>3. CASE Rests
  <2>1. State' = State /\ HistoryIsConsistent(transitions)' /\ HistoryReplays(transitions)'
        /\ transitions' \in Seq(Transition)
    BY <1>3 DEF Rests, State, HistoryInv, HistoryIsSound
  <2>2. CASE mode = "none" /\ mode' \in {"implementer", "closeout"} /\ machine' = State
             /\ (transitions = <<>> \/ State \notin TERMINAL_STATES)
    <3>1. transitions = <<>> => State = "CREATED"
      BY DEF State, StateAfter
    <3>2. transitions # <<>> => State \in WorkflowState
      <4>1. ASSUME transitions # <<>>
            PROVE  /\ State = transitions[Len(transitions)].to_state
                   /\ Len(transitions) \in 1 .. Len(transitions)
        BY <4>1, EmptySeq DEF HistoryInv, State, StateAfter
      <4>2. ASSUME transitions # <<>> PROVE transitions[Len(transitions)] \in Transition
        BY <4>1, <4>2 DEF HistoryInv
      <4> QED BY <4>1, <4>2 DEF Transition
    <3> QED BY <1>0, <2>1, <2>2, <3>1, <3>2 DEF HistoryInv, HistoryIsSound
  <2> QED BY <1>0, <1>3, <2>1, <2>2 DEF Rests, HistoryInv, HistoryIsSound, SessionEnds
<1> QED BY <1>1, <1>2, <1>3, HistoryStep

\* Whatever crashes, resumes and drifts have done, the history is one that resume accepts,
\* and a running driver's machine stands where it ends.
THEOREM HistoryAlwaysSound == Spec => []HistoryIsSound
<1>1. HistoryInv => HistoryIsSound
  BY DEF HistoryInv
<1> QED BY <1>1, HistoryInit, HistoryStepKeeps, PTL DEF Spec

-----------------------------------------------------------------------------
(* The attempts. *)

\* Completed from one without a gap, and at most one more started, within the limit.
Numbered(c) ==
    \E k \in 0 .. Limit(c) :
        /\ CompletedNumbers(c) = 1 .. k
        /\ \/ StartedNumbers(c) = 1 .. k
           \/ StartedNumbers(c) = 1 .. k + 1 /\ k < Limit(c)

AttemptInv ==
    /\ attempts \in [Counters -> [started : SUBSET Nat, completed : SUBSET Nat]]
    /\ \A c \in Counters : Numbered(c)

\* A limit is a positive number.
LEMMA LimitFacts == \A c : Limit(c) \in Nat \ {0}
  BY LimitAssumption DEF Limit

\* The counters, by name.
LEMMA CounterNames ==
    /\ Counters = {"IMPLEMENTING", "READY_TO_COMMIT", "COMMITTED", "PUSHED", "REPAIRING"}
    /\ EDITING_STATES \subseteq Counters /\ EFFECT_STATES \subseteq Counters
  BY DEF Counters, INITIAL_EXECUTION_RETRYABLE_STATES, EDITING_STATES, EFFECT_STATES

\* What counting the completed attempts tells of the numbers.
LEMMA CountFacts ==
    ASSUME AttemptInv, NEW c \in Counters
    PROVE  /\ CompletedCount(c) \in 0 .. Limit(c) /\ NextNumber(c) \in Nat \ {0}
           /\ CompletedNumbers(c) = 1 .. CompletedCount(c)
           /\ \/ StartedNumbers(c) = 1 .. CompletedCount(c)
              \/ /\ StartedNumbers(c) = 1 .. CompletedCount(c) + 1
                 /\ CompletedCount(c) < Limit(c)
<1>1. PICK k \in 0 .. Limit(c) :
          /\ CompletedNumbers(c) = 1 .. k
          /\ \/ StartedNumbers(c) = 1 .. k
             \/ StartedNumbers(c) = 1 .. k + 1 /\ k < Limit(c)
  BY DEF AttemptInv, Numbered
<1>2. k \in Nat /\ Limit(c) \in Nat
  BY LimitFacts
<1>3. Cardinality(1 .. k) = k
  BY <1>2, FS_Interval
<1>4. CompletedCount(c) = k
  BY <1>1, <1>3 DEF CompletedCount
<1> QED BY <1>1, <1>2, <1>4 DEF NextNumber

\* The next number is reserved, or the open one completed.
Reserves(c) == MayStart(c, NextNumber(c)) /\ RecordStarted(c, NextNumber(c))
Completes(c) == MayComplete(c, NextNumber(c)) /\ RecordCompleted(c, NextNumber(c))

\* What a step does to the attempts: their row grows by one, or nothing.
LEMMA AttemptStep ==
    ASSUME [Next]_taskVars
    PROVE  attempts' = attempts \/ \E c \in Counters : Reserves(c) \/ Completes(c)

<1>1. CASE Start
  BY <1>1 DEF Start, StartSession, approvalVars, repository, bounds
<1>2. CASE Implement
  BY <1>2 DEF Implement, ResumeImplementer, Unaffected, CanResume, durable, repository,
     bounds, approvalVars, Resumable
<1>3. CASE CloseOut
  BY <1>3 DEF CloseOut, ResumeCloseout, Unaffected, CanResume, durable, repository, bounds,
     approvalVars, Resumable
<1>4. CASE DriftOnResume
  BY <1>4 DEF DriftOnResume, ResumeDrifts, Unaffected, Resumable, repository, session,
     bounds, approvalVars
<1>5. CASE Authorize
  BY <1>5 DEF Authorize, RecordAuthorization, approvalVars, At, repository, bounds
<1>6. CASE CheckPreconditions
  BY <1>6 DEF CheckPreconditions, At, records, world, bounds, approvalVars, repository
<1>7. CASE CreateStageBranch
  BY <1>7 DEF CreateStageBranch, At, records, bounds, approvalVars
<1>8. CASE CheckoutStageBranch
  BY <1>8 DEF CheckoutStageBranch, At, records, bounds, approvalVars
<1>9. CASE BranchReady
  BY <1>9 DEF BranchReady, At, records, world, bounds, approvalVars, repository
<1>10. CASE HandOff
  BY <1>10 DEF HandOff, At, records, world, bounds, approvalVars, repository
<1>11. CASE ReconcileImplementation
  BY <1>11, CounterNames DEF ReconcileImplementation, At, world, bounds, approvalVars,
     repository, Completes
<1>12. CASE JudgeReconciled
  BY <1>12 DEF JudgeReconciled, At, records, world, bounds, approvalVars, repository
<1>13. CASE AbandonRepair
  BY <1>13 DEF AbandonRepair, At, records, world, bounds, approvalVars, repository
<1>14. CASE StartAttempt
  BY <1>14, CounterNames DEF StartAttempt, world, bounds, approvalVars, repository, Reserves
<1>15. CASE RunProvider
  BY <1>15 DEF RunProvider, records, bounds, approvalVars
<1>16. CASE CompleteAttempt
  BY <1>16, CounterNames DEF CompleteAttempt, world, bounds, approvalVars, repository,
     Completes
<1>17. CASE WriteStageReport
  BY <1>17 DEF WriteStageReport, world, bounds, approvalVars, repository
<1>18. CASE AttemptFailed
  BY <1>18 DEF AttemptFailed, records, world, bounds, approvalVars, repository
<1>19. CASE Validate
  BY <1>19 DEF Validate, At, EnterRepairOrFail, world, bounds, approvalVars, repository
<1>20. CASE RunQa
  BY <1>20 DEF RunQa, At, world, bounds, approvalVars, repository
<1>21. CASE JudgeQa
  BY <1>21 DEF JudgeQa, At, EnterRepairOrFail, world, bounds, approvalVars, repository
<1>22. CASE BeginRepair
  BY <1>22 DEF BeginRepair, records, world, bounds, approvalVars, repository
<1>23. CASE GateChecksums
  BY <1>23 DEF GateChecksums, At, records, world, bounds, approvalVars, repository
<1>24. CASE GateRequests
  BY <1>24 DEF GateRequests, At, approvalVars, records, world, bounds, repository
<1>25. CASE GateEvaluates
  BY <1>25 DEF GateEvaluates, At, records, world, bounds, repository
<1>26. CASE GateCompares
  BY <1>26 DEF GateCompares, At, records, world, bounds, approvalVars, repository
<1>27. CASE GateSpends
  BY <1>27 DEF GateSpends, At, records, world, bounds, repository
<1>28. CASE GateInvalidates
  BY <1>28 DEF GateInvalidates, At, records, world, bounds, repository
<1>29. CASE StartEffect
  BY <1>29, CounterNames DEF StartEffect, InEffect, world, bounds, approvalVars, repository,
     Reserves
<1>30. CASE create_commit
  BY <1>30 DEF create_commit, InEffect, Sees, records, bounds, approvalVars
<1>31. CASE push_stage_branch
  BY <1>31 DEF push_stage_branch, InEffect, Sees, repository, records, bounds, approvalVars
<1>32. CASE create_pull_request
  BY <1>32 DEF create_pull_request, InEffect, Sees, repository, records, bounds,
     approvalVars
<1>33. CASE CompleteEffect
  BY <1>33, CounterNames DEF CompleteEffect, InEffect, world, bounds, approvalVars,
     repository, Completes
<1>34. CASE Forward
  BY <1>34 DEF Forward, records, world, bounds, approvalVars, repository
<1>35. CASE Surrender
  BY <1>35 DEF Surrender, records, world, bounds, approvalVars, repository
<1>36. CASE RunEnds
  BY <1>36 DEF RunEnds, records, world, bounds, approvalVars, repository
<1>37. CASE EnableAutoMerge
  BY <1>37 DEF EnableAutoMerge, Closing, records, repository, bounds, approvalVars
<1>38. CASE AutoMergeEnabled
  BY <1>38 DEF AutoMergeEnabled, Closing, records, world, bounds, approvalVars, repository
<1>39. CASE ObserveAutoMerge
  BY <1>39 DEF ObserveAutoMerge, Closing, records, world, bounds, approvalVars, repository
<1>40. CASE WaitMore
  BY <1>40 DEF WaitMore, Closing, session, records, world, bounds, approvalVars, repository
<1>41. CASE ObserveMerge
  BY <1>41 DEF ObserveMerge, Closing, records, world, bounds, approvalVars, repository
<1>42. CASE ObservationRefused
  BY <1>42 DEF ObservationRefused, Closing, records, world, bounds, approvalVars, repository
<1>43. CASE HandOffToCloseout
  BY <1>43 DEF HandOffToCloseout, Closing, records, world, bounds, approvalVars, repository
<1>44. CASE AlreadyClosed
  BY <1>44 DEF AlreadyClosed, Closing, records, world, bounds, approvalVars, repository
<1>45. CASE CheckoutBaseline
  BY <1>45 DEF CheckoutBaseline, Closing, repository, records, bounds, approvalVars
<1>46. CASE FastForwardPull
  BY <1>46 DEF FastForwardPull, Closing, records, bounds, approvalVars
<1>47. CASE DeleteBothBranches
  BY <1>47 DEF DeleteBothBranches, Closing, records, bounds, approvalVars
<1>48. CASE WriteCloseoutReport
  BY <1>48 DEF WriteCloseoutReport, Closing, world, bounds, approvalVars, repository
<1>49. CASE ClosedOut
  BY <1>49 DEF ClosedOut, Closing, records, world, bounds, approvalVars, repository
<1>50. CASE Abort
  BY <1>50 DEF Abort, Cancel, approvalVars, repository, bounds
<1>51. CASE Die
  BY <1>51 DEF Die, Crash, Unaffected, durable, repository, approvalVars
<1>52. CASE Meddle
  BY <1>52 DEF Meddle, EditTree, MoveBinding, Unaffected, durable, session, approvalVars
<1>53. CASE Others
  BY <1>53 DEF Others, durable, repository, session, bounds
<1>54. CASE ChecksFinish
  BY <1>54 DEF ChecksFinish, durable, repository, session, bounds, approvalVars
<1>55. CASE AutoMerges
  BY <1>55 DEF AutoMerges, durable, repository, session, bounds, approvalVars
<1>56. CASE PersonSettles
  BY <1>56 DEF PersonSettles, durable, repository, session, approvalVars
<1>57. CASE UNCHANGED taskVars
  BY <1>57 DEF taskVars, durable, repository, session, bounds, approvalVars
<1> QED
  BY <1>1, <1>2, <1>3, <1>4, <1>5, <1>6, <1>7, <1>8, <1>9, <1>10, <1>11, <1>12, <1>13,
     <1>14, <1>15, <1>16, <1>17, <1>18, <1>19, <1>20, <1>21, <1>22, <1>23, <1>24, <1>25,
     <1>26, <1>27, <1>28, <1>29, <1>30, <1>31, <1>32, <1>33, <1>34, <1>35, <1>36, <1>37,
     <1>38, <1>39, <1>40, <1>41, <1>42, <1>43, <1>44, <1>45, <1>46, <1>47, <1>48, <1>49,
     <1>50, <1>51, <1>52, <1>53, <1>54, <1>55, <1>56, <1>57 DEF Next, DriverStep,
     ImplementerStep, CloseoutStep, GitHub

\* Every step keeps the numbers without a gap and within the limits.
LEMMA AttemptStepKeeps == AttemptInv /\ [Next]_taskVars => AttemptInv'
<1> SUFFICES ASSUME AttemptInv, [Next]_taskVars PROVE AttemptInv'
  OBVIOUS
<1>1. CASE attempts' = attempts
  BY <1>1 DEF AttemptInv, Numbered, StartedNumbers, CompletedNumbers
<1>2. ASSUME NEW c \in Counters, Reserves(c) \/ Completes(c)
      PROVE  AttemptInv'
  <2> DEFINE k == CompletedCount(c)
             n == NextNumber(c)
             kind == IF Reserves(c) THEN "started" ELSE "completed"
             row == [attempts[c] EXCEPT ![kind] = @ \cup {n}]
  <2>0. /\ k \in Nat /\ Limit(c) \in Nat /\ k <= Limit(c) /\ n = k + 1
        /\ attempts[c].completed = 1 .. k
        /\ \/ attempts[c].started = 1 .. k
           \/ attempts[c].started = 1 .. k + 1 /\ k < Limit(c)
    BY CountFacts, LimitFacts DEF NextNumber, StartedNumbers, CompletedNumbers
  <2>1. attempts' = [attempts EXCEPT ![c][kind] = @ \cup {n}]
    BY <1>2 DEF Reserves, Completes, RecordStarted, RecordCompleted, AppendAttempt
  <2>2. attempts' = [attempts EXCEPT ![c] = row]
    BY <2>1
  <2>3. attempts[c] \in [started : SUBSET Nat, completed : SUBSET Nat]
    BY DEF AttemptInv
  <2>5. kind \in {"started", "completed"} /\ n \in Nat
    BY <2>0
  <2>4. /\ kind = "started" =>
               row.started = attempts[c].started \cup {n} /\ row.completed = attempts[c].completed
        /\ kind = "completed" =>
               row.started = attempts[c].started /\ row.completed = attempts[c].completed \cup {n}
    <3>1. "started" \in DOMAIN attempts[c] /\ "completed" \in DOMAIN attempts[c]
      BY <2>3
    <3> HIDE DEF kind, n
    <3> QED BY <3>1
  <2>6. row \in [started : SUBSET Nat, completed : SUBSET Nat]
    <3>1. ASSUME NEW a \in [started : SUBSET Nat, completed : SUBSET Nat],
                 NEW f \in {"started", "completed"}, NEW m \in Nat
          PROVE  [a EXCEPT ![f] = @ \cup {m}] \in [started : SUBSET Nat, completed : SUBSET Nat]
      OBVIOUS
    <3> HIDE DEF kind, n
    <3> QED BY <3>1, <2>3, <2>5
  <2>7. attempts' \in [Counters -> [started : SUBSET Nat, completed : SUBSET Nat]]
    BY <2>2, <2>6 DEF AttemptInv
  <2>8. attempts'[c] = row /\ \A d \in Counters : d # c => attempts'[d] = attempts[d]
    BY <2>2 DEF AttemptInv
  <2>9. (1 .. k) \cup {k + 1} = 1 .. k + 1
    BY <2>0
  <2>10. Numbered(c)'
    <3>1. CASE Reserves(c)
      <4>1. n \notin attempts[c].started /\ n <= Limit(c)
        BY <3>1 DEF Reserves, MayStart, StartedNumbers
      <4>2. attempts[c].started = 1 .. k
        BY <4>1, <2>0
      <4>3. attempts'[c].started = 1 .. k + 1 /\ attempts'[c].completed = 1 .. k
        BY <3>1, <4>2, <2>0, <2>4, <2>8, <2>9
      <4> HIDE DEF k, n, row
      <4> QED BY <4>1, <4>3, <2>0 DEF Numbered, StartedNumbers, CompletedNumbers, Limit
    <3>2. CASE ~ Reserves(c)
      <4>1. n \in attempts[c].started
        BY <1>2, <3>2 DEF Completes, MayComplete, StartedNumbers
      <4>2. attempts[c].started = 1 .. k + 1 /\ k < Limit(c)
        BY <4>1, <2>0
      <4>3. attempts'[c].started = 1 .. k + 1 /\ attempts'[c].completed = 1 .. k + 1
        BY <3>2, <4>2, <2>0, <2>4, <2>8, <2>9
      <4> HIDE DEF k, n, row
      <4>4. k + 1 \in 0 .. Limit(c)
        BY <4>2, <2>0
      <4> QED BY <4>3, <4>4 DEF Numbered, StartedNumbers, CompletedNumbers, Limit
    <3> QED BY <3>1, <3>2
  <2>11. ASSUME NEW d \in Counters, d # c PROVE Numbered(d)'
    BY <2>8, <2>11 DEF AttemptInv, Numbered, StartedNumbers, CompletedNumbers, Limit
  <2> QED BY <2>7, <2>10, <2>11 DEF AttemptInv
<1> QED BY <1>1, <1>2, AttemptStep

\* Nothing is started or completed at the start.
LEMMA AttemptInit == Init => AttemptInv
<1> SUFFICES ASSUME Init PROVE AttemptInv
  OBVIOUS
<1>1. attempts = [c \in Counters |-> [started |-> {}, completed |-> {}]]
  BY DEF Init, SessionInit
<1>2. ASSUME NEW c \in Counters PROVE Numbered(c)
  <2>1. StartedNumbers(c) = {} /\ CompletedNumbers(c) = {}
    BY <1>1 DEF StartedNumbers, CompletedNumbers
  <2>2. 1 .. 0 = {} /\ 0 \in 0 .. Limit(c)
    BY LimitFacts
  <2> QED BY <2>1, <2>2 DEF Numbered
<1> QED BY <1>1, <1>2 DEF AttemptInv

\* Numbers without a gap are as bounded as the property asks.
LEMMA NumberedIsBounded == AttemptInv => AttemptsAreBounded
<1> SUFFICES ASSUME AttemptInv, NEW c \in Counters
             PROVE  /\ StartedNumbers(c) = 1 .. Cardinality(StartedNumbers(c))
                    /\ Cardinality(StartedNumbers(c)) <= Limit(c)
                    /\ CompletedNumbers(c) \subseteq StartedNumbers(c)
                    /\ Cardinality(StartedNumbers(c) \ CompletedNumbers(c)) <= 1
  BY DEF AttemptsAreBounded
<1> DEFINE k == CompletedCount(c)
<1>1. /\ k \in Nat /\ Limit(c) \in Nat /\ k <= Limit(c)
      /\ CompletedNumbers(c) = 1 .. k
      /\ \/ StartedNumbers(c) = 1 .. k
         \/ StartedNumbers(c) = 1 .. k + 1 /\ k < Limit(c)
  BY CountFacts, LimitFacts
<1> HIDE DEF k
<1>2. Cardinality(1 .. k) = k /\ Cardinality(1 .. k + 1) = k + 1
  <2>1. \A m \in Nat : Cardinality(1 .. m) = m
    <3>1. \A m \in Nat : 1 .. m = {} \/ 1 <= m
      OBVIOUS
    <3>2. \A m \in Nat : Cardinality(1 .. m) = IF 1 > m THEN 0 ELSE m - 1 + 1
      BY FS_Interval
    <3> QED BY <3>2
  <2> QED BY <2>1, <1>1
<1>3. (1 .. k) \ (1 .. k) = {} /\ (1 .. k + 1) \ (1 .. k) = {k + 1}
  BY <1>1
<1>4. Cardinality({}) = 0 /\ Cardinality({k + 1}) = 1
  BY FS_EmptySet, FS_Singleton
<1>5. CASE StartedNumbers(c) = 1 .. k
  <2>1. Cardinality(StartedNumbers(c)) = k /\ StartedNumbers(c) \ CompletedNumbers(c) = {}
    BY <1>1, <1>2, <1>5
  <2>2. Cardinality(StartedNumbers(c) \ CompletedNumbers(c)) <= 1
    BY <1>4, <2>1
  <2>3. CompletedNumbers(c) \subseteq StartedNumbers(c)
    BY <1>1, <1>5
  <2> QED BY <1>1, <1>5, <2>1, <2>2, <2>3
<1>6. CASE StartedNumbers(c) = 1 .. k + 1 /\ k < Limit(c)
  <2>1. /\ Cardinality(StartedNumbers(c)) = k + 1
        /\ StartedNumbers(c) \ CompletedNumbers(c) = {k + 1}
        /\ CompletedNumbers(c) \subseteq StartedNumbers(c)
    BY <1>1, <1>2, <1>3, <1>6
  <2> QED BY <1>1, <1>4, <1>6, <2>1
<1> QED BY <1>1, <1>5, <1>6

\* The attempts of every operation stay within their limit, without a gap and with at most one
\* of them open, across every crash.
THEOREM AttemptsAlwaysBounded == Spec => []AttemptsAreBounded
BY AttemptInit, AttemptStepKeeps, NumberedIsBounded, PTL DEF Spec

-----------------------------------------------------------------------------
(* The world and what is written of it. *)

Git == [planned : BOOLEAN, commits : Seq(Trees), current : {"baseline", "stage"},
        baseline : {"bound", "moved", "merged"}, contract : {"bound", "changed"}]
Remote == [commits : Seq(Trees), pr : {"none", "open", "closed", "merged"}, auto : BOOLEAN,
           checks : {"pending", "passed", "failed"}]
Verdicts == {"approved", "rejected"}
QaReports == UNION {[D -> Verdicts] : D \in SUBSET (1 .. RepairLimit + 1)}
Reports == [stage : SUBSET (0 .. RepairLimit), failure : SUBSET (1 .. RepairLimit),
            qa : QaReports, closeout : BOOLEAN]

WorldInv ==
    /\ git \in Git /\ tree \in Trees /\ remote \in Remote /\ reports \in Reports
    /\ crashes \in 0 .. MaxCrashes /\ meddling \in 0 .. MaxMeddling
    /\ authorized \in BOOLEAN

\* A baseline is a tree, and so is what a branch ends with.
LEMMA TreeFacts == Base \in Trees /\ (git \in Git => HeadContent \in Trees)
<1>1. Base \in Trees
  BY DEF Trees
<1>2. ASSUME git \in Git, git.commits # <<>> PROVE git.commits[Len(git.commits)] \in Trees
  <2>1. git.commits \in Seq(Trees)
    BY <1>2 DEF Git
  <2>2. Len(git.commits) \in 1 .. Len(git.commits)
    BY <1>2, <2>1, EmptySeq
  <2> QED BY <2>1, <2>2
<1> QED BY <1>1, <1>2 DEF HeadContent

\* The repository stays one of its kind.
LEMMA GitStep ==
    ASSUME WorldInv, [Next]_taskVars
    PROVE  git' \in Git /\ tree' \in Trees
<1>a. git \in Git /\ tree \in Trees /\ Base \in Trees
  BY TreeFacts DEF WorldInv
<1>b. git.commits \in Seq(Trees) /\ <<>> \in Seq(Trees) /\ Append(git.commits, tree) \in Seq(Trees)
  BY <1>a DEF Git

<1>1. CASE Start
  BY <1>1, <1>a DEF Start, StartSession, repository, bounds
<1>2. CASE Implement
  BY <1>2, <1>a DEF Implement, ResumeImplementer, Unaffected, CanResume, durable,
     repository, bounds, Resumable
<1>3. CASE CloseOut
  BY <1>3, <1>a DEF CloseOut, ResumeCloseout, Unaffected, CanResume, durable, repository,
     bounds, Resumable
<1>4. CASE DriftOnResume
  BY <1>4, <1>a DEF DriftOnResume, ResumeDrifts, Unaffected, Resumable, repository, session,
     bounds
<1>5. CASE Authorize
  BY <1>5, <1>a DEF Authorize, RecordAuthorization, repository, bounds
<1>6. CASE CheckPreconditions
  BY <1>6, <1>a DEF CheckPreconditions, world, bounds, repository
<1>7. CASE CreateStageBranch
  BY <1>7, <1>a, <1>b DEF CreateStageBranch, bounds, Git
<1>8. CASE CheckoutStageBranch
  BY <1>8, <1>a, <1>b DEF CheckoutStageBranch, bounds, Git
<1>9. CASE BranchReady
  BY <1>9, <1>a DEF BranchReady, world, bounds, repository
<1>10. CASE HandOff
  BY <1>10, <1>a DEF HandOff, world, bounds, repository
<1>11. CASE ReconcileImplementation
  BY <1>11, <1>a DEF ReconcileImplementation, world, bounds, repository
<1>12. CASE JudgeReconciled
  BY <1>12, <1>a DEF JudgeReconciled, world, bounds, repository
<1>13. CASE AbandonRepair
  BY <1>13, <1>a DEF AbandonRepair, world, bounds, repository
<1>14. CASE StartAttempt
  BY <1>14, <1>a DEF StartAttempt, world, bounds, repository
<1>15. CASE RunProvider
  BY <1>15, <1>a, <1>b DEF RunProvider, bounds, Git
<1>16. CASE CompleteAttempt
  BY <1>16, <1>a DEF CompleteAttempt, world, bounds, repository
<1>17. CASE WriteStageReport
  BY <1>17, <1>a DEF WriteStageReport, world, bounds, repository
<1>18. CASE AttemptFailed
  BY <1>18, <1>a DEF AttemptFailed, world, bounds, repository
<1>19. CASE Validate
  BY <1>19, <1>a DEF Validate, world, bounds, repository
<1>20. CASE RunQa
  BY <1>20, <1>a DEF RunQa, world, bounds, repository
<1>21. CASE JudgeQa
  BY <1>21, <1>a DEF JudgeQa, world, bounds, repository
<1>22. CASE BeginRepair
  BY <1>22, <1>a DEF BeginRepair, world, bounds, repository
<1>23. CASE GateChecksums
  BY <1>23, <1>a DEF GateChecksums, world, bounds, repository
<1>24. CASE GateRequests
  BY <1>24, <1>a DEF GateRequests, world, bounds, repository
<1>25. CASE GateEvaluates
  BY <1>25, <1>a DEF GateEvaluates, world, bounds, repository
<1>26. CASE GateCompares
  BY <1>26, <1>a DEF GateCompares, world, bounds, repository
<1>27. CASE GateSpends
  BY <1>27, <1>a DEF GateSpends, world, bounds, repository
<1>28. CASE GateInvalidates
  BY <1>28, <1>a DEF GateInvalidates, world, bounds, repository
<1>29. CASE StartEffect
  BY <1>29, <1>a DEF StartEffect, world, bounds, repository
<1>30. CASE create_commit
  BY <1>30, <1>a, <1>b DEF create_commit, Git
<1>31. CASE push_stage_branch
  BY <1>31, <1>a DEF push_stage_branch, repository
<1>32. CASE create_pull_request
  BY <1>32, <1>a DEF create_pull_request, repository
<1>33. CASE CompleteEffect
  BY <1>33, <1>a DEF CompleteEffect, world, bounds, repository
<1>34. CASE Forward
  BY <1>34, <1>a DEF Forward, world, bounds, repository
<1>35. CASE Surrender
  BY <1>35, <1>a DEF Surrender, world, bounds, repository
<1>36. CASE RunEnds
  BY <1>36, <1>a DEF RunEnds, world, bounds, repository
<1>37. CASE EnableAutoMerge
  BY <1>37, <1>a DEF EnableAutoMerge, repository, bounds
<1>38. CASE AutoMergeEnabled
  BY <1>38, <1>a DEF AutoMergeEnabled, world, bounds, repository
<1>39. CASE ObserveAutoMerge
  BY <1>39, <1>a DEF ObserveAutoMerge, world, bounds, repository
<1>40. CASE WaitMore
  BY <1>40, <1>a DEF WaitMore, session, world, bounds, repository
<1>41. CASE ObserveMerge
  BY <1>41, <1>a DEF ObserveMerge, world, bounds, repository
<1>42. CASE ObservationRefused
  BY <1>42, <1>a DEF ObservationRefused, world, bounds, repository
<1>43. CASE HandOffToCloseout
  BY <1>43, <1>a DEF HandOffToCloseout, world, bounds, repository
<1>44. CASE AlreadyClosed
  BY <1>44, <1>a DEF AlreadyClosed, world, bounds, repository
<1>45. CASE CheckoutBaseline
  BY <1>45, <1>a, <1>b DEF CheckoutBaseline, checkout_baseline, repository, bounds, Git
<1>46. CASE FastForwardPull
  BY <1>46, <1>a, <1>b DEF FastForwardPull, fast_forward_pull, bounds, Git
<1>47. CASE DeleteBothBranches
  BY <1>47, <1>a, <1>b DEF DeleteBothBranches, bounds, Git
<1>48. CASE WriteCloseoutReport
  BY <1>48, <1>a DEF WriteCloseoutReport, world, bounds, repository
<1>49. CASE ClosedOut
  BY <1>49, <1>a DEF ClosedOut, world, bounds, repository
<1>50. CASE Abort
  BY <1>50, <1>a DEF Abort, Cancel, repository, bounds
<1>51. CASE Die
  BY <1>51, <1>a DEF Die, Crash, Unaffected, durable, repository
<1>52. CASE Meddle
  BY <1>52, <1>a, <1>b DEF Meddle, EditTree, MoveBinding, Unaffected, durable, session, Git
<1>53. CASE Others
  BY <1>53, <1>a DEF Others, durable, repository, session, bounds
<1>54. CASE ChecksFinish
  BY <1>54, <1>a DEF ChecksFinish, durable, repository, session, bounds
<1>55. CASE AutoMerges
  BY <1>55, <1>a DEF AutoMerges, durable, repository, session, bounds
<1>56. CASE PersonSettles
  BY <1>56, <1>a DEF PersonSettles, durable, repository, session
<1>57. CASE UNCHANGED taskVars
  BY <1>57, <1>a DEF taskVars, durable, repository, session, bounds, approvalVars
<1> QED
  BY <1>1, <1>2, <1>3, <1>4, <1>5, <1>6, <1>7, <1>8, <1>9, <1>10, <1>11, <1>12, <1>13,
     <1>14, <1>15, <1>16, <1>17, <1>18, <1>19, <1>20, <1>21, <1>22, <1>23, <1>24, <1>25,
     <1>26, <1>27, <1>28, <1>29, <1>30, <1>31, <1>32, <1>33, <1>34, <1>35, <1>36, <1>37,
     <1>38, <1>39, <1>40, <1>41, <1>42, <1>43, <1>44, <1>45, <1>46, <1>47, <1>48, <1>49,
     <1>50, <1>51, <1>52, <1>53, <1>54, <1>55, <1>56, <1>57 DEF Next, DriverStep,
     ImplementerStep, CloseoutStep, GitHub

\* The remote stays one of its kind.
LEMMA RemoteStep ==
    ASSUME WorldInv, [Next]_taskVars
    PROVE  remote' \in Remote
<1>a. remote \in Remote
  BY DEF WorldInv
<1>b. git.commits \in Seq(Trees) /\ <<>> \in Seq(Trees)
  BY DEF WorldInv, Git

<1>1. CASE Start
  BY <1>1, <1>a DEF Start, StartSession, repository, bounds
<1>2. CASE Implement
  BY <1>2, <1>a DEF Implement, ResumeImplementer, Unaffected, CanResume, durable,
     repository, bounds, Resumable
<1>3. CASE CloseOut
  BY <1>3, <1>a DEF CloseOut, ResumeCloseout, Unaffected, CanResume, durable, repository,
     bounds, Resumable
<1>4. CASE DriftOnResume
  BY <1>4, <1>a DEF DriftOnResume, ResumeDrifts, Unaffected, Resumable, repository, session,
     bounds
<1>5. CASE Authorize
  BY <1>5, <1>a DEF Authorize, RecordAuthorization, repository, bounds
<1>6. CASE CheckPreconditions
  BY <1>6, <1>a DEF CheckPreconditions, world, bounds, repository
<1>7. CASE CreateStageBranch
  BY <1>7, <1>a DEF CreateStageBranch, bounds
<1>8. CASE CheckoutStageBranch
  BY <1>8, <1>a DEF CheckoutStageBranch, bounds
<1>9. CASE BranchReady
  BY <1>9, <1>a DEF BranchReady, world, bounds, repository
<1>10. CASE HandOff
  BY <1>10, <1>a DEF HandOff, world, bounds, repository
<1>11. CASE ReconcileImplementation
  BY <1>11, <1>a DEF ReconcileImplementation, world, bounds, repository
<1>12. CASE JudgeReconciled
  BY <1>12, <1>a DEF JudgeReconciled, world, bounds, repository
<1>13. CASE AbandonRepair
  BY <1>13, <1>a DEF AbandonRepair, world, bounds, repository
<1>14. CASE StartAttempt
  BY <1>14, <1>a DEF StartAttempt, world, bounds, repository
<1>15. CASE RunProvider
  BY <1>15, <1>a DEF RunProvider, bounds
<1>16. CASE CompleteAttempt
  BY <1>16, <1>a DEF CompleteAttempt, world, bounds, repository
<1>17. CASE WriteStageReport
  BY <1>17, <1>a DEF WriteStageReport, world, bounds, repository
<1>18. CASE AttemptFailed
  BY <1>18, <1>a DEF AttemptFailed, world, bounds, repository
<1>19. CASE Validate
  BY <1>19, <1>a DEF Validate, world, bounds, repository
<1>20. CASE RunQa
  BY <1>20, <1>a DEF RunQa, world, bounds, repository
<1>21. CASE JudgeQa
  BY <1>21, <1>a DEF JudgeQa, world, bounds, repository
<1>22. CASE BeginRepair
  BY <1>22, <1>a DEF BeginRepair, world, bounds, repository
<1>23. CASE GateChecksums
  BY <1>23, <1>a DEF GateChecksums, world, bounds, repository
<1>24. CASE GateRequests
  BY <1>24, <1>a DEF GateRequests, world, bounds, repository
<1>25. CASE GateEvaluates
  BY <1>25, <1>a DEF GateEvaluates, world, bounds, repository
<1>26. CASE GateCompares
  BY <1>26, <1>a DEF GateCompares, world, bounds, repository
<1>27. CASE GateSpends
  BY <1>27, <1>a DEF GateSpends, world, bounds, repository
<1>28. CASE GateInvalidates
  BY <1>28, <1>a DEF GateInvalidates, world, bounds, repository
<1>29. CASE StartEffect
  BY <1>29, <1>a DEF StartEffect, world, bounds, repository
<1>30. CASE create_commit
  BY <1>30, <1>a DEF create_commit
<1>31. CASE push_stage_branch
  BY <1>31, <1>a, <1>b DEF push_stage_branch, repository, Remote
<1>32. CASE create_pull_request
  BY <1>32, <1>a, <1>b DEF create_pull_request, repository, Remote
<1>33. CASE CompleteEffect
  BY <1>33, <1>a DEF CompleteEffect, world, bounds, repository
<1>34. CASE Forward
  BY <1>34, <1>a DEF Forward, world, bounds, repository
<1>35. CASE Surrender
  BY <1>35, <1>a DEF Surrender, world, bounds, repository
<1>36. CASE RunEnds
  BY <1>36, <1>a DEF RunEnds, world, bounds, repository
<1>37. CASE EnableAutoMerge
  BY <1>37, <1>a, <1>b DEF EnableAutoMerge, EnableAutomaticSquashMerge, repository, bounds,
     Remote
<1>38. CASE AutoMergeEnabled
  BY <1>38, <1>a DEF AutoMergeEnabled, world, bounds, repository
<1>39. CASE ObserveAutoMerge
  BY <1>39, <1>a DEF ObserveAutoMerge, world, bounds, repository
<1>40. CASE WaitMore
  BY <1>40, <1>a DEF WaitMore, session, world, bounds, repository
<1>41. CASE ObserveMerge
  BY <1>41, <1>a DEF ObserveMerge, world, bounds, repository
<1>42. CASE ObservationRefused
  BY <1>42, <1>a DEF ObservationRefused, world, bounds, repository
<1>43. CASE HandOffToCloseout
  BY <1>43, <1>a DEF HandOffToCloseout, world, bounds, repository
<1>44. CASE AlreadyClosed
  BY <1>44, <1>a DEF AlreadyClosed, world, bounds, repository
<1>45. CASE CheckoutBaseline
  BY <1>45, <1>a DEF CheckoutBaseline, repository, bounds
<1>46. CASE FastForwardPull
  BY <1>46, <1>a DEF FastForwardPull, bounds
<1>47. CASE DeleteBothBranches
  BY <1>47, <1>a, <1>b DEF DeleteBothBranches, bounds, Remote
<1>48. CASE WriteCloseoutReport
  BY <1>48, <1>a DEF WriteCloseoutReport, world, bounds, repository
<1>49. CASE ClosedOut
  BY <1>49, <1>a DEF ClosedOut, world, bounds, repository
<1>50. CASE Abort
  BY <1>50, <1>a DEF Abort, Cancel, repository, bounds
<1>51. CASE Die
  BY <1>51, <1>a DEF Die, Crash, Unaffected, durable, repository
<1>52. CASE Meddle
  BY <1>52, <1>a DEF Meddle, EditTree, MoveBinding, Unaffected, durable, session
<1>53. CASE Others
  BY <1>53, <1>a DEF Others, durable, repository, session, bounds
<1>54. CASE ChecksFinish
  BY <1>54, <1>a, <1>b DEF ChecksFinish, durable, repository, session, bounds, Remote
<1>55. CASE AutoMerges
  BY <1>55, <1>a, <1>b DEF AutoMerges, durable, repository, session, bounds, Remote
<1>56. CASE PersonSettles
  BY <1>56, <1>a, <1>b DEF PersonSettles, durable, repository, session, Remote
<1>57. CASE UNCHANGED taskVars
  BY <1>57, <1>a DEF taskVars, durable, repository, session, bounds, approvalVars
<1> QED
  BY <1>1, <1>2, <1>3, <1>4, <1>5, <1>6, <1>7, <1>8, <1>9, <1>10, <1>11, <1>12, <1>13,
     <1>14, <1>15, <1>16, <1>17, <1>18, <1>19, <1>20, <1>21, <1>22, <1>23, <1>24, <1>25,
     <1>26, <1>27, <1>28, <1>29, <1>30, <1>31, <1>32, <1>33, <1>34, <1>35, <1>36, <1>37,
     <1>38, <1>39, <1>40, <1>41, <1>42, <1>43, <1>44, <1>45, <1>46, <1>47, <1>48, <1>49,
     <1>50, <1>51, <1>52, <1>53, <1>54, <1>55, <1>56, <1>57 DEF Next, DriverStep,
     ImplementerStep, CloseoutStep, GitHub

\* The reports are numbered by the repairs.
LEMMA ReportsStep ==
    ASSUME WorldInv, AttemptInv, [Next]_taskVars
    PROVE  reports' \in Reports
<1>a. reports \in Reports
  BY DEF WorldInv
<1>b. /\ "REPAIRING" \in Counters /\ Limit("REPAIRING") = RepairLimit /\ RepairLimit \in Nat
      /\ CompletedCount("REPAIRING") \in 0 .. RepairLimit
      /\ NextNumber("REPAIRING") = CompletedCount("REPAIRING") + 1
  BY CounterNames, CountFacts, LimitAssumption DEF Limit, NextNumber
<1>c. ReportNumber \in 0 .. RepairLimit
  BY <1>b DEF ReportNumber
<1>d. RetryAllowed("REPAIRING") => NextNumber("REPAIRING") \in 1 .. RepairLimit
  BY <1>b DEF RetryAllowed
<1>e. QaRound \in 1 .. RepairLimit + 1
  BY <1>b DEF QaRound
<1>f. ASSUME NEW verdict \in Verdicts
      PROVE  [r \in DOMAIN reports.qa \cup {QaRound} |->
                 IF r = QaRound THEN verdict ELSE reports.qa[r]] \in QaReports
  <2>1. reports.qa \in QaReports
    BY <1>a DEF Reports
  <2>2. PICK D \in SUBSET (1 .. RepairLimit + 1) : reports.qa \in [D -> Verdicts]
    BY <2>1 DEF QaReports
  <2>3. D \cup {QaRound} \in SUBSET (1 .. RepairLimit + 1)
    BY <1>e
  <2>4. [r \in DOMAIN reports.qa \cup {QaRound} |->
            IF r = QaRound THEN verdict ELSE reports.qa[r]] \in [D \cup {QaRound} -> Verdicts]
    BY <2>2
  <2> QED BY <2>3, <2>4 DEF QaReports

<1>1. CASE Start
  BY <1>1, <1>a DEF Start, StartSession, repository, bounds
<1>2. CASE Implement
  BY <1>2, <1>a DEF Implement, ResumeImplementer, Unaffected, CanResume, durable,
     repository, bounds, Resumable
<1>3. CASE CloseOut
  BY <1>3, <1>a DEF CloseOut, ResumeCloseout, Unaffected, CanResume, durable, repository,
     bounds, Resumable
<1>4. CASE DriftOnResume
  BY <1>4, <1>a DEF DriftOnResume, ResumeDrifts, Unaffected, Resumable, repository, session,
     bounds
<1>5. CASE Authorize
  BY <1>5, <1>a DEF Authorize, RecordAuthorization, repository, bounds
<1>6. CASE CheckPreconditions
  BY <1>6, <1>a DEF CheckPreconditions, records, world, bounds, repository
<1>7. CASE CreateStageBranch
  BY <1>7, <1>a DEF CreateStageBranch, records, bounds
<1>8. CASE CheckoutStageBranch
  BY <1>8, <1>a DEF CheckoutStageBranch, records, bounds
<1>9. CASE BranchReady
  BY <1>9, <1>a DEF BranchReady, records, world, bounds, repository
<1>10. CASE HandOff
  BY <1>10, <1>a DEF HandOff, records, world, bounds, repository
<1>11. CASE ReconcileImplementation
  BY <1>11, <1>a DEF ReconcileImplementation, world, bounds, repository
<1>12. CASE JudgeReconciled
  BY <1>12, <1>a DEF JudgeReconciled, records, world, bounds, repository
<1>13. CASE AbandonRepair
  BY <1>13, <1>a DEF AbandonRepair, records, world, bounds, repository
<1>14. CASE StartAttempt
  BY <1>14, <1>a DEF StartAttempt, world, bounds, repository
<1>15. CASE RunProvider
  BY <1>15, <1>a DEF RunProvider, records, bounds
<1>16. CASE CompleteAttempt
  BY <1>16, <1>a DEF CompleteAttempt, world, bounds, repository
<1>17. CASE WriteStageReport
  BY <1>17, <1>a, <1>c DEF WriteStageReport, world, bounds, repository, Reports
<1>18. CASE AttemptFailed
  BY <1>18, <1>a DEF AttemptFailed, records, world, bounds, repository
<1>19. CASE Validate
  BY <1>19, <1>a, <1>d DEF Validate, EnterRepairOrFail, world, bounds, repository, Reports
<1>20. CASE RunQa
  <2>1. PICK verdict \in Verdicts : reports' = [reports EXCEPT !.qa =
            [r \in DOMAIN @ \cup {QaRound} |-> IF r = QaRound THEN verdict ELSE @[r]]]
    BY <1>20 DEF RunQa, Verdicts
  <2>2. ASSUME NEW q \in QaReports PROVE [reports EXCEPT !.qa = q] \in Reports
    BY <1>a, <2>2 DEF Reports
  <2> QED BY <2>1, <2>2, <1>f
<1>21. CASE JudgeQa
  BY <1>21, <1>a, <1>d DEF JudgeQa, EnterRepairOrFail, world, bounds, repository, Reports
<1>22. CASE BeginRepair
  BY <1>22, <1>a DEF BeginRepair, records, world, bounds, repository
<1>23. CASE GateChecksums
  BY <1>23, <1>a DEF GateChecksums, records, world, bounds, repository
<1>24. CASE GateRequests
  BY <1>24, <1>a DEF GateRequests, records, world, bounds, repository
<1>25. CASE GateEvaluates
  BY <1>25, <1>a DEF GateEvaluates, records, world, bounds, repository
<1>26. CASE GateCompares
  BY <1>26, <1>a DEF GateCompares, records, world, bounds, repository
<1>27. CASE GateSpends
  BY <1>27, <1>a DEF GateSpends, records, world, bounds, repository
<1>28. CASE GateInvalidates
  BY <1>28, <1>a DEF GateInvalidates, records, world, bounds, repository
<1>29. CASE StartEffect
  BY <1>29, <1>a DEF StartEffect, world, bounds, repository
<1>30. CASE create_commit
  BY <1>30, <1>a DEF create_commit, Sees, records, bounds
<1>31. CASE push_stage_branch
  BY <1>31, <1>a DEF push_stage_branch, Sees, repository, records, bounds
<1>32. CASE create_pull_request
  BY <1>32, <1>a DEF create_pull_request, Sees, repository, records, bounds
<1>33. CASE CompleteEffect
  BY <1>33, <1>a DEF CompleteEffect, world, bounds, repository
<1>34. CASE Forward
  BY <1>34, <1>a DEF Forward, records, world, bounds, repository
<1>35. CASE Surrender
  BY <1>35, <1>a DEF Surrender, records, world, bounds, repository
<1>36. CASE RunEnds
  BY <1>36, <1>a DEF RunEnds, records, world, bounds, repository
<1>37. CASE EnableAutoMerge
  BY <1>37, <1>a DEF EnableAutoMerge, EnableAutomaticSquashMerge, records, repository,
     bounds
<1>38. CASE AutoMergeEnabled
  BY <1>38, <1>a DEF AutoMergeEnabled, records, world, bounds, repository
<1>39. CASE ObserveAutoMerge
  BY <1>39, <1>a DEF ObserveAutoMerge, records, world, bounds, repository
<1>40. CASE WaitMore
  BY <1>40, <1>a DEF WaitMore, session, records, world, bounds, repository
<1>41. CASE ObserveMerge
  BY <1>41, <1>a DEF ObserveMerge, records, world, bounds, repository
<1>42. CASE ObservationRefused
  BY <1>42, <1>a DEF ObservationRefused, records, world, bounds, repository
<1>43. CASE HandOffToCloseout
  BY <1>43, <1>a DEF HandOffToCloseout, records, world, bounds, repository
<1>44. CASE AlreadyClosed
  BY <1>44, <1>a DEF AlreadyClosed, records, world, bounds, repository
<1>45. CASE CheckoutBaseline
  BY <1>45, <1>a DEF CheckoutBaseline, repository, records, bounds
<1>46. CASE FastForwardPull
  BY <1>46, <1>a DEF FastForwardPull, records, bounds
<1>47. CASE DeleteBothBranches
  BY <1>47, <1>a DEF DeleteBothBranches, records, bounds
<1>48. CASE WriteCloseoutReport
  BY <1>48, <1>a DEF WriteCloseoutReport, world, bounds, repository, Reports
<1>49. CASE ClosedOut
  BY <1>49, <1>a DEF ClosedOut, records, world, bounds, repository
<1>50. CASE Abort
  BY <1>50, <1>a DEF Abort, Cancel, repository, bounds
<1>51. CASE Die
  BY <1>51, <1>a DEF Die, Crash, Unaffected, durable, repository
<1>52. CASE Meddle
  BY <1>52, <1>a DEF Meddle, EditTree, MoveBinding, Unaffected, durable, session
<1>53. CASE Others
  BY <1>53, <1>a DEF Others, durable, repository, session, bounds
<1>54. CASE ChecksFinish
  BY <1>54, <1>a DEF ChecksFinish, durable, repository, session, bounds
<1>55. CASE AutoMerges
  BY <1>55, <1>a DEF AutoMerges, durable, repository, session, bounds
<1>56. CASE PersonSettles
  BY <1>56, <1>a DEF PersonSettles, durable, repository, session
<1>57. CASE UNCHANGED taskVars
  BY <1>57, <1>a DEF taskVars, durable, repository, session, bounds, approvalVars
<1> QED
  BY <1>1, <1>2, <1>3, <1>4, <1>5, <1>6, <1>7, <1>8, <1>9, <1>10, <1>11, <1>12, <1>13,
     <1>14, <1>15, <1>16, <1>17, <1>18, <1>19, <1>20, <1>21, <1>22, <1>23, <1>24, <1>25,
     <1>26, <1>27, <1>28, <1>29, <1>30, <1>31, <1>32, <1>33, <1>34, <1>35, <1>36, <1>37,
     <1>38, <1>39, <1>40, <1>41, <1>42, <1>43, <1>44, <1>45, <1>46, <1>47, <1>48, <1>49,
     <1>50, <1>51, <1>52, <1>53, <1>54, <1>55, <1>56, <1>57 DEF Next, DriverStep,
     ImplementerStep, CloseoutStep, GitHub

\* The bounds are kept, and what was authorized stays so.
LEMMA BoundsStep ==
    ASSUME WorldInv, [Next]_taskVars
    PROVE  crashes' \in 0 .. MaxCrashes /\ meddling' \in 0 .. MaxMeddling /\ authorized' \in BOOLEAN
<1>a. crashes \in 0 .. MaxCrashes /\ meddling \in 0 .. MaxMeddling /\ authorized \in BOOLEAN
  BY DEF WorldInv

<1>1. CASE Start
  BY <1>1, <1>a DEF Start, StartSession, PersistAuthorization, repository, bounds
<1>2. CASE Implement
  BY <1>2, <1>a DEF Implement, ResumeImplementer, Unaffected, CanResume, durable,
     repository, bounds, Resumable
<1>3. CASE CloseOut
  BY <1>3, <1>a DEF CloseOut, ResumeCloseout, Unaffected, CanResume, durable, repository,
     bounds, Resumable
<1>4. CASE DriftOnResume
  BY <1>4, <1>a DEF DriftOnResume, ResumeDrifts, Unaffected, Resumable, repository, session,
     bounds
<1>5. CASE Authorize
  BY <1>5, <1>a DEF Authorize, RecordAuthorization, repository, bounds
<1>6. CASE CheckPreconditions
  BY <1>6, <1>a DEF CheckPreconditions, records, world, bounds, repository
<1>7. CASE CreateStageBranch
  BY <1>7, <1>a DEF CreateStageBranch, records, bounds
<1>8. CASE CheckoutStageBranch
  BY <1>8, <1>a DEF CheckoutStageBranch, records, bounds
<1>9. CASE BranchReady
  BY <1>9, <1>a DEF BranchReady, records, world, bounds, repository
<1>10. CASE HandOff
  BY <1>10, <1>a DEF HandOff, records, world, bounds, repository
<1>11. CASE ReconcileImplementation
  BY <1>11, <1>a DEF ReconcileImplementation, world, bounds, repository
<1>12. CASE JudgeReconciled
  BY <1>12, <1>a DEF JudgeReconciled, records, world, bounds, repository
<1>13. CASE AbandonRepair
  BY <1>13, <1>a DEF AbandonRepair, records, world, bounds, repository
<1>14. CASE StartAttempt
  BY <1>14, <1>a DEF StartAttempt, world, bounds, repository
<1>15. CASE RunProvider
  BY <1>15, <1>a DEF RunProvider, records, bounds
<1>16. CASE CompleteAttempt
  BY <1>16, <1>a DEF CompleteAttempt, world, bounds, repository
<1>17. CASE WriteStageReport
  BY <1>17, <1>a DEF WriteStageReport, world, bounds, repository
<1>18. CASE AttemptFailed
  BY <1>18, <1>a DEF AttemptFailed, records, world, bounds, repository
<1>19. CASE Validate
  BY <1>19, <1>a DEF Validate, world, bounds, repository
<1>20. CASE RunQa
  BY <1>20, <1>a DEF RunQa, world, bounds, repository
<1>21. CASE JudgeQa
  BY <1>21, <1>a DEF JudgeQa, world, bounds, repository
<1>22. CASE BeginRepair
  BY <1>22, <1>a DEF BeginRepair, records, world, bounds, repository
<1>23. CASE GateChecksums
  BY <1>23, <1>a DEF GateChecksums, records, world, bounds, repository
<1>24. CASE GateRequests
  BY <1>24, <1>a DEF GateRequests, records, world, bounds, repository
<1>25. CASE GateEvaluates
  BY <1>25, <1>a DEF GateEvaluates, records, world, bounds, repository
<1>26. CASE GateCompares
  BY <1>26, <1>a DEF GateCompares, records, world, bounds, repository
<1>27. CASE GateSpends
  BY <1>27, <1>a DEF GateSpends, records, world, bounds, repository
<1>28. CASE GateInvalidates
  BY <1>28, <1>a DEF GateInvalidates, records, world, bounds, repository
<1>29. CASE StartEffect
  BY <1>29, <1>a DEF StartEffect, world, bounds, repository
<1>30. CASE create_commit
  BY <1>30, <1>a DEF create_commit, Sees, records, bounds
<1>31. CASE push_stage_branch
  BY <1>31, <1>a DEF push_stage_branch, Sees, repository, records, bounds
<1>32. CASE create_pull_request
  BY <1>32, <1>a DEF create_pull_request, Sees, repository, records, bounds
<1>33. CASE CompleteEffect
  BY <1>33, <1>a DEF CompleteEffect, world, bounds, repository
<1>34. CASE Forward
  BY <1>34, <1>a DEF Forward, records, world, bounds, repository
<1>35. CASE Surrender
  BY <1>35, <1>a DEF Surrender, records, world, bounds, repository
<1>36. CASE RunEnds
  BY <1>36, <1>a DEF RunEnds, records, world, bounds, repository
<1>37. CASE EnableAutoMerge
  BY <1>37, <1>a DEF EnableAutoMerge, records, repository, bounds
<1>38. CASE AutoMergeEnabled
  BY <1>38, <1>a DEF AutoMergeEnabled, records, world, bounds, repository
<1>39. CASE ObserveAutoMerge
  BY <1>39, <1>a DEF ObserveAutoMerge, records, world, bounds, repository
<1>40. CASE WaitMore
  BY <1>40, <1>a DEF WaitMore, session, records, world, bounds, repository
<1>41. CASE ObserveMerge
  BY <1>41, <1>a DEF ObserveMerge, records, world, bounds, repository
<1>42. CASE ObservationRefused
  BY <1>42, <1>a DEF ObservationRefused, records, world, bounds, repository
<1>43. CASE HandOffToCloseout
  BY <1>43, <1>a DEF HandOffToCloseout, records, world, bounds, repository
<1>44. CASE AlreadyClosed
  BY <1>44, <1>a DEF AlreadyClosed, records, world, bounds, repository
<1>45. CASE CheckoutBaseline
  BY <1>45, <1>a DEF CheckoutBaseline, repository, records, bounds
<1>46. CASE FastForwardPull
  BY <1>46, <1>a DEF FastForwardPull, records, bounds
<1>47. CASE DeleteBothBranches
  BY <1>47, <1>a DEF DeleteBothBranches, records, bounds
<1>48. CASE WriteCloseoutReport
  BY <1>48, <1>a DEF WriteCloseoutReport, world, bounds, repository
<1>49. CASE ClosedOut
  BY <1>49, <1>a DEF ClosedOut, records, world, bounds, repository
<1>50. CASE Abort
  BY <1>50, <1>a DEF Abort, Cancel, repository, bounds
<1>51. CASE Die
  BY <1>51, <1>a, BoundAssumption DEF Die, Crash, Unaffected, durable, repository
<1>52. CASE Meddle
  BY <1>52, <1>a, BoundAssumption DEF Meddle, EditTree, MoveBinding, Unaffected, MayMeddle,
     durable, session
<1>53. CASE Others
  BY <1>53, <1>a DEF Others, durable, repository, session, bounds
<1>54. CASE ChecksFinish
  BY <1>54, <1>a DEF ChecksFinish, durable, repository, session, bounds
<1>55. CASE AutoMerges
  BY <1>55, <1>a DEF AutoMerges, durable, repository, session, bounds
<1>56. CASE PersonSettles
  BY <1>56, <1>a, BoundAssumption DEF PersonSettles, MayMeddle, durable, repository, session
<1>57. CASE UNCHANGED taskVars
  BY <1>57, <1>a DEF taskVars, durable, repository, session, bounds, approvalVars
<1> QED
  BY <1>1, <1>2, <1>3, <1>4, <1>5, <1>6, <1>7, <1>8, <1>9, <1>10, <1>11, <1>12, <1>13,
     <1>14, <1>15, <1>16, <1>17, <1>18, <1>19, <1>20, <1>21, <1>22, <1>23, <1>24, <1>25,
     <1>26, <1>27, <1>28, <1>29, <1>30, <1>31, <1>32, <1>33, <1>34, <1>35, <1>36, <1>37,
     <1>38, <1>39, <1>40, <1>41, <1>42, <1>43, <1>44, <1>45, <1>46, <1>47, <1>48, <1>49,
     <1>50, <1>51, <1>52, <1>53, <1>54, <1>55, <1>56, <1>57 DEF Next, DriverStep,
     ImplementerStep, CloseoutStep, GitHub

\* Every step keeps the world one of its kind.
LEMMA WorldStepKeeps == WorldInv /\ AttemptInv /\ [Next]_taskVars => WorldInv'
BY GitStep, RemoteStep, ReportsStep, BoundsStep DEF WorldInv

\* The world of a task not yet begun.
LEMMA WorldInit == Init => WorldInv
<1> SUFFICES ASSUME Init PROVE WorldInv
  OBVIOUS
<1>1. git \in Git /\ tree \in Trees
  BY TreeFacts DEF Init, SessionInit, Git
<1>2. remote \in Remote
  BY DEF Init, Remote
<1>3. [r \in {} |-> "missing"] \in QaReports
  <2>1. [r \in {} |-> "missing"] \in [{} -> Verdicts]
    OBVIOUS
  <2> QED BY <2>1 DEF QaReports
<1>4. reports \in Reports
  BY <1>3 DEF Init, Reports
<1>5. 0 \in 0 .. MaxCrashes /\ 0 \in 0 .. MaxMeddling
  BY BoundAssumption
<1>6. crashes = 0 /\ meddling = 0 /\ authorized = FALSE
  BY DEF Init, SessionInit
<1> QED BY <1>1, <1>2, <1>4, <1>5, <1>6 DEF WorldInv

-----------------------------------------------------------------------------
(* What a driver remembers. *)

LocalRecords == [qa : BOOLEAN, ok : BOOLEAN, polls : 0 .. MaxObservations - 1,
                 checksums : Checksums]
LocalInv == local \in LocalRecords

\* A set of numbers up to a bound that is not empty has a greatest one.
LEMMA GreatestExists ==
    ASSUME NEW N \in Nat, NEW S, S \subseteq 0 .. N, S # {}
    PROVE  \E k \in S : \A m \in S : m <= k
<1> DEFINE T == {N - n : n \in S}
<1>0. \A n \in S : n \in 0 .. N
  OBVIOUS
<1>1. T \subseteq Nat /\ T # {}
  <2>1. \A n \in S : N - n \in Nat
    BY <1>0
  <2>2. T \subseteq Nat
    BY <2>1
  <2>3. PICK n \in S : TRUE
    OBVIOUS
  <2>4. N - n \in T
    OBVIOUS
  <2> QED BY <2>2, <2>4
<1>2. PICK x \in T : \A y \in T : ~ (<<y, x>> \in OpToRel(<, Nat))
  BY <1>1, WFMin, NatLessThanWellFounded, Zenon
<1>3. \A y \in T : ~ (y < x)
  <2> SUFFICES ASSUME NEW y \in T, y < x PROVE FALSE
    OBVIOUS
  <2>1. y \in Nat /\ x \in Nat
    BY <1>1
  <2>2. <<y, x>> \in OpToRel(<, Nat)
    BY <2>1, Zenon DEF OpToRel
  <2> QED BY <1>2, <2>2, Zenon
<1>4. PICK n \in S : x = N - n
  OBVIOUS
<1>5. \A m \in S : m <= n
  <2>1. SUFFICES ASSUME NEW m \in S PROVE m <= n
    OBVIOUS
  <2>2. N - m \in T /\ ~ (N - m < N - n)
    BY <1>3, <1>4
  <2>3. m \in 0 .. N /\ n \in 0 .. N
    BY <1>0, <1>4
  <2> QED BY <2>2, <2>3
<1> QED BY <1>5

\* The latest of some stage reports is one of them.
LEMMA LatestFacts ==
    ASSUME reports \in Reports, reports.stage # {}
    PROVE  LatestStageReport \in reports.stage /\ LatestStageReport \in Nat
<1>1. RepairLimit \in Nat /\ reports.stage \subseteq 0 .. RepairLimit
  BY LimitAssumption DEF Reports
<1>2. \E k \in reports.stage : \A m \in reports.stage : m <= k
  BY <1>1, GreatestExists
<1>3. LatestStageReport \in reports.stage
  BY <1>2 DEF LatestStageReport
<1> QED BY <1>1, <1>3

\* What an observer sees are names of paths.
LEMMA PathFacts ==
    ASSUME WorldInv
    PROVE  WorkingTreePaths \in SUBSET UNION {NamesOf[c] : c \in Trees}
<1>1. tree \in Trees /\ HeadContent \in Trees
  BY TreeFacts DEF WorldInv
<1> QED BY <1>1 DEF WorkingTreePaths

\* The driver's locals are records of their fields at the start.
LEMMA NoLocalsFacts ==
    /\ NoLocals \in LocalRecords
    /\ \A qa \in IndependentQa : [NoLocals EXCEPT !.qa = qa] \in LocalRecords
<1>1. NoChecksums \in Checksums
  BY DEF NoChecksums, Checksums
<1>2. 0 \in 0 .. MaxObservations - 1
  BY DriverAssumption
<1>3. NoLocals \in LocalRecords
  BY <1>1, <1>2 DEF NoLocals, LocalRecords
<1>4. \A qa \in BOOLEAN : [NoLocals EXCEPT !.qa = qa] \in LocalRecords
  BY <1>3 DEF LocalRecords
<1> QED BY <1>3, <1>4, DriverAssumption

\* Every step keeps what a driver remembers of its kind.
LEMMA LocalStepKeeps ==
    ASSUME LocalInv, WorldInv, [Next]_taskVars
    PROVE  LocalInv'
<1>a. local \in LocalRecords
  BY DEF LocalInv
<1>k. Keep => local' \in LocalRecords
  BY <1>a, NoLocalsFacts DEF Keep, Locals
<1>u. local' = local => local' \in LocalRecords
  BY <1>a

<1>c. reports.stage # {} => CurrentChecksums \in Checksums
  <2>0. reports \in Reports /\ git \in Git
    BY DEF WorldInv
  <2>1. ASSUME reports.stage # {} PROVE LatestStageReport \in Nat
    BY <2>0, <2>1, LatestFacts
  <2>2. Len(git.commits) \in Nat
    BY <2>0 DEF Git
  <2>3. Verdict(QaRound) \in {"approved", "rejected", "missing"}
    <3>1. PICK D \in SUBSET (1 .. RepairLimit + 1) : reports.qa \in [D -> Verdicts]
      BY <2>0 DEF Reports, QaReports
    <3> QED BY <3>1 DEF Verdict, Verdicts
  <2> QED BY <2>1, <2>2, <2>3, PathFacts DEF CurrentChecksums, Checksums

<1>1. CASE Start
  BY <1>1, <1>k, <1>u, NoLocalsFacts DEF Start, StartSession, LocalInv
<1>2. CASE Implement
  BY <1>2, <1>k, <1>u, NoLocalsFacts DEF Implement, ResumeImplementer, Unaffected,
     CanResume, Resumable, LocalInv
<1>3. CASE CloseOut
  BY <1>3, <1>k, <1>u, NoLocalsFacts DEF CloseOut, ResumeCloseout, Unaffected, CanResume,
     Resumable, LocalInv
<1>4. CASE DriftOnResume
  BY <1>4, <1>k, <1>u DEF DriftOnResume, ResumeDrifts, Unaffected, Resumable, LocalInv
<1>5. CASE Authorize
  BY <1>5, <1>k, <1>u DEF Authorize, RecordAuthorization, LocalInv
<1>6. CASE CheckPreconditions
  BY <1>6, <1>k, <1>u DEF CheckPreconditions, Advance, Fail, LocalInv
<1>7. CASE CreateStageBranch
  BY <1>7, <1>k, <1>u DEF CreateStageBranch, Continue, Fail, LocalInv
<1>8. CASE CheckoutStageBranch
  BY <1>8, <1>k, <1>u DEF CheckoutStageBranch, Continue, Fail, LocalInv
<1>9. CASE BranchReady
  BY <1>9, <1>k, <1>u DEF BranchReady, Advance, LocalInv
<1>10. CASE HandOff
  BY <1>10, <1>k, <1>u DEF HandOff, Advance, LocalInv
<1>11. CASE ReconcileImplementation
  BY <1>11, <1>k, <1>u DEF ReconcileImplementation, Continue, Raised, LocalInv
<1>12. CASE JudgeReconciled
  BY <1>12, <1>k, <1>u DEF JudgeReconciled, Advance, Continue, Fail, LocalInv
<1>13. CASE AbandonRepair
  BY <1>13, <1>k, <1>u DEF AbandonRepair, Fail, LocalInv
<1>14. CASE StartAttempt
  BY <1>14, <1>k, <1>u DEF StartAttempt, Continue, Raised, LocalInv
<1>15. CASE RunProvider
  BY <1>15, <1>k, <1>u, <1>a DEF RunProvider, LocalInv, LocalRecords
<1>16. CASE CompleteAttempt
  BY <1>16, <1>k, <1>u DEF CompleteAttempt, Continue, Raised, LocalInv
<1>17. CASE WriteStageReport
  BY <1>17, <1>k, <1>u DEF WriteStageReport, Raised, Continue, LocalInv
<1>18. CASE AttemptFailed
  BY <1>18, <1>k, <1>u DEF AttemptFailed, Continue, Fail, LocalInv
<1>19. CASE Validate
  BY <1>19, <1>k, <1>u DEF Validate, Raised, Advance, Fail, EnterRepairOrFail, Continue,
     LocalInv
<1>20. CASE RunQa
  BY <1>20, <1>k, <1>u DEF RunQa, Continue, LocalInv
<1>21. CASE JudgeQa
  BY <1>21, <1>k, <1>u DEF JudgeQa, EnterRepairOrFail, Advance, Raised, Continue, Fail,
     LocalInv
<1>22. CASE BeginRepair
  BY <1>22, <1>k, <1>u DEF BeginRepair, Advance, LocalInv
<1>23. CASE GateChecksums
  BY <1>23, <1>k, <1>u, <1>a, <1>c, <1>k DEF GateChecksums, Raised, LocalInv, LocalRecords
<1>24. CASE GateRequests
  BY <1>24, <1>k, <1>u DEF GateRequests, Continue, Raised, LocalInv
<1>25. CASE GateEvaluates
  BY <1>25, <1>k, <1>u DEF GateEvaluates, GateDecides, Continue, Raised, Fail, LocalInv
<1>26. CASE GateCompares
  BY <1>26, <1>k, <1>u DEF GateCompares, Raised, Continue, LocalInv
<1>27. CASE GateSpends
  BY <1>27, <1>k, <1>u DEF GateSpends, Continue, LocalInv
<1>28. CASE GateInvalidates
  BY <1>28, <1>k, <1>u DEF GateInvalidates, Continue, LocalInv
<1>29. CASE StartEffect
  BY <1>29, <1>k, <1>u DEF StartEffect, Fail, Continue, Raised, LocalInv
<1>30. CASE create_commit
  <2>1. \E ok \in BOOLEAN : local' = [local EXCEPT !.ok = ok]
    BY <1>30 DEF create_commit, Sees
  <2> QED BY <1>a, <2>1 DEF LocalInv, LocalRecords
<1>31. CASE push_stage_branch
  <2>1. \E ok \in BOOLEAN : local' = [local EXCEPT !.ok = ok]
    BY <1>31 DEF push_stage_branch, Sees
  <2> QED BY <1>a, <2>1 DEF LocalInv, LocalRecords
<1>32. CASE create_pull_request
  <2>1. \E ok \in BOOLEAN : local' = [local EXCEPT !.ok = ok]
    BY <1>32 DEF create_pull_request, Sees
  <2> QED BY <1>a, <2>1 DEF LocalInv, LocalRecords
<1>33. CASE CompleteEffect
  BY <1>33, <1>k, <1>u DEF CompleteEffect, Continue, Raised, LocalInv
<1>34. CASE Forward
  BY <1>34, <1>k, <1>u DEF Forward, Advance, LocalInv
<1>35. CASE Surrender
  BY <1>35, <1>k, <1>u DEF Surrender, Fail, LocalInv
<1>36. CASE RunEnds
  BY <1>36, <1>k, <1>u DEF RunEnds, Raised, LocalInv
<1>37. CASE EnableAutoMerge
  BY <1>37, <1>k, <1>u DEF EnableAutoMerge, Advance, Continue, Fail, LocalInv
<1>38. CASE AutoMergeEnabled
  BY <1>38, <1>k, <1>u DEF AutoMergeEnabled, Advance, LocalInv
<1>39. CASE ObserveAutoMerge
  BY <1>39, <1>k, <1>u DEF ObserveAutoMerge, Advance, Fail, LocalInv
<1>40. CASE WaitMore
  <2>1. CASE local.polls + 1 < MaxObservations /\ local' = [local EXCEPT !.polls = @ + 1]
    <3>1. local.polls \in 0 .. MaxObservations - 1
      BY <1>a DEF LocalRecords
    <3>2. local.polls + 1 \in 0 .. MaxObservations - 1
      BY <2>1, <3>1, DriverAssumption
    <3> QED BY <1>a, <2>1, <3>2 DEF LocalInv, LocalRecords
  <2> QED BY <1>40, <1>k, <2>1 DEF WaitMore, Raised, LocalInv
<1>41. CASE ObserveMerge
  BY <1>41, <1>k, <1>u DEF ObserveMerge, Advance, Fail, LocalInv
<1>42. CASE ObservationRefused
  BY <1>42, <1>k, <1>u DEF ObservationRefused, Fail, LocalInv
<1>43. CASE HandOffToCloseout
  BY <1>43, <1>k, <1>u DEF HandOffToCloseout, Advance, LocalInv
<1>44. CASE AlreadyClosed
  BY <1>44, <1>k, <1>u DEF AlreadyClosed, Advance, LocalInv
<1>45. CASE CheckoutBaseline
  BY <1>45, <1>k, <1>u DEF CheckoutBaseline, Continue, Fail, LocalInv
<1>46. CASE FastForwardPull
  BY <1>46, <1>k, <1>u DEF FastForwardPull, Continue, Fail, LocalInv
<1>47. CASE DeleteBothBranches
  BY <1>47, <1>k, <1>u DEF DeleteBothBranches, Continue, Fail, LocalInv
<1>48. CASE WriteCloseoutReport
  BY <1>48, <1>k, <1>u DEF WriteCloseoutReport, Continue, Fail, LocalInv
<1>49. CASE ClosedOut
  BY <1>49, <1>k, <1>u DEF ClosedOut, Advance, LocalInv
<1>50. CASE Abort
  BY <1>50, <1>k, <1>u DEF Abort, Cancel, LocalInv
<1>51. CASE Die
  BY <1>51, <1>k, <1>u DEF Die, Crash, Unaffected, LocalInv
<1>52. CASE Meddle
  BY <1>52, <1>k, <1>u DEF Meddle, EditTree, MoveBinding, Unaffected, LocalInv
<1>53. CASE Others
  BY <1>53, <1>k, <1>u DEF Others, LocalInv
<1>54. CASE ChecksFinish
  BY <1>54, <1>k, <1>u DEF ChecksFinish, LocalInv
<1>55. CASE AutoMerges
  BY <1>55, <1>k, <1>u DEF AutoMerges, LocalInv
<1>56. CASE PersonSettles
  BY <1>56, <1>k, <1>u DEF PersonSettles, LocalInv
<1>57. CASE UNCHANGED taskVars
  BY <1>57, <1>k, <1>u DEF taskVars, durable, repository, session, bounds, approvalVars,
     LocalInv
<1> QED
  BY <1>1, <1>2, <1>3, <1>4, <1>5, <1>6, <1>7, <1>8, <1>9, <1>10, <1>11, <1>12, <1>13,
     <1>14, <1>15, <1>16, <1>17, <1>18, <1>19, <1>20, <1>21, <1>22, <1>23, <1>24, <1>25,
     <1>26, <1>27, <1>28, <1>29, <1>30, <1>31, <1>32, <1>33, <1>34, <1>35, <1>36, <1>37,
     <1>38, <1>39, <1>40, <1>41, <1>42, <1>43, <1>44, <1>45, <1>46, <1>47, <1>48, <1>49,
     <1>50, <1>51, <1>52, <1>53, <1>54, <1>55, <1>56, <1>57 DEF Next, DriverStep,
     ImplementerStep, CloseoutStep, GitHub

-----------------------------------------------------------------------------
(* The approval: a request, and events appended to it. *)

Resolvable == {overlays \in Overlays : PolicyResolves(overlays)}
ApprovalRequests ==
    {Requested(resolve_approval_policy(overlays), bound, shown) :
        overlays \in Resolvable, bound \in Checksums, shown \in Trees}

Statuses ==
    {"APPROVED", "REJECTED", "CHANGES_REQUESTED", "ESCALATED", "CONSUMED", "INVALIDATED",
     "HUMAN_INTERVENTION_REQUIRED", "FAILED", "CANCELLED"}
TimeoutEvent(action) == Event("TIMED_OUT", STATUS_FOR_TIMEOUT[action])
Pauses == {TimeoutEvent(action) : action \in {"PAUSE", "FAIL", "CANCEL"}}
ApprovalEvents ==
    {Decided(decision, origin) : decision \in Decisions, origin \in {"AUTO", "MANUAL"}}
        \cup {Extended, Event("ESCALATED", "ESCALATED"), Event("CONSUMED", "CONSUMED"),
              Event("INVALIDATED", "INVALIDATED")}
        \cup Pauses

IsApproval(list) ==
    /\ list \in Seq(ApprovalRequests \cup ApprovalEvents)
    /\ list # <<>> => list[1] \in ApprovalRequests
    /\ \A i \in 2 .. Len(list) : list[i] \in ApprovalEvents

\* What the kind of an event tells of its status, and the status of its kind.
LEMMA EventFacts ==
    ASSUME NEW e \in ApprovalEvents
    PROVE  /\ e.kind \in {"DECIDED", "EXTENDED", "ESCALATED", "CONSUMED", "INVALIDATED", "TIMED_OUT"}
           /\ e.kind # "EXTENDED" => e.status \in Statuses
           /\ e.kind # "EXTENDED" /\ e.status = "APPROVED" => e.kind = "DECIDED"
           /\ e.kind # "EXTENDED" /\ e.status = "ESCALATED" => e.kind = "ESCALATED"
           /\ e.kind # "EXTENDED" /\ e.status = "CONSUMED" => e.kind = "CONSUMED"
<1>1. ASSUME NEW decision \in Decisions, NEW origin \in {"AUTO", "MANUAL"},
             e = Decided(decision, origin)
      PROVE  e.kind = "DECIDED" /\ e.status \in {"APPROVED", "REJECTED", "CHANGES_REQUESTED"}
  <2>1. STATUS_FOR_DECISION[decision] \in {"APPROVED", "REJECTED", "CHANGES_REQUESTED"}
    BY DEF STATUS_FOR_DECISION, Decisions
  <2> QED BY <1>1, <2>1 DEF Decided
<1>2. CASE e \in Pauses
  <2>1. PICK action \in {"PAUSE", "FAIL", "CANCEL"} : e = TimeoutEvent(action)
    BY <1>2 DEF Pauses
  <2>2. STATUS_FOR_TIMEOUT[action] \in {"HUMAN_INTERVENTION_REQUIRED", "FAILED", "CANCELLED"}
    BY DEF STATUS_FOR_TIMEOUT
  <2> QED BY <2>1, <2>2 DEF TimeoutEvent, Event, Statuses
<1>3. CASE e \in {Extended, Event("ESCALATED", "ESCALATED"), Event("CONSUMED", "CONSUMED"),
                  Event("INVALIDATED", "INVALIDATED")}
  BY <1>3 DEF Extended, Event, Statuses
<1>4. CASE \E decision \in Decisions, origin \in {"AUTO", "MANUAL"} : e = Decided(decision, origin)
  BY <1>1, <1>4 DEF Statuses
<1> QED BY <1>2, <1>3, <1>4 DEF ApprovalEvents

\* A resolved policy acts in known ways on a silence, and a silence that consents was declared
\* so by the gate or the run; nothing escalates twice.
LEMMA PolicyFacts ==
    ASSUME NEW q \in ApprovalRequests
    PROVE  /\ q.policy.timeout_action.value \in TimeoutActions
           /\ q.policy.fallback.value \in TimeoutActions \ {"ESCALATE"}
           /\ OptedIn(q.policy.timeout_action) /\ OptedIn(q.policy.fallback)
<1>1. PICK overlays \in Resolvable, bound \in Checksums, shown \in Trees :
          q = Requested(resolve_approval_policy(overlays), bound, shown)
  BY DEF ApprovalRequests
<1>2. /\ q.policy.timeout_action = resolve_field(overlays, "timeout_action")
      /\ q.policy.fallback = resolve_field(overlays, "escalation_fallback_action")
  BY <1>1 DEF Requested, resolve_approval_policy
<1>3. ASSUME NEW field \in {"timeout_action", "escalation_fallback_action"}
      PROVE  resolve_field(overlays, field).value \in TimeoutActions
  <2> DEFINE value == [i \in 1 .. 4 |->
                 IF i = 1 THEN BUILT_IN_DEFAULTS[field] ELSE overlays[LAYER_ORDER[i]][field]]
             sets == {i \in 1 .. 4 : value[i] # "unset"}
             top == IF sets = {} THEN 1 ELSE CHOOSE i \in sets : \A j \in sets : j <= i
  <2>1. resolve_field(overlays, field).value = value[top]
    BY DEF resolve_field
  <2>2. BUILT_IN_DEFAULTS[field] = "PAUSE"
    BY DEF BUILT_IN_DEFAULTS
  <2>3. 1 \in sets
    BY <2>2
  <2>4. \E i \in sets : \A j \in sets : j <= i
    <3>1. sets \subseteq 0 .. 4
      OBVIOUS
    <3> HIDE DEF sets
    <3> QED BY <2>3, <3>1, GreatestExists
  <2>5. top \in sets
    BY <2>3, <2>4
  <2>6. top \in 1 .. 4 /\ value[top] # "unset"
    BY <2>5
  <2>7. ASSUME NEW i \in 2 .. 4 PROVE overlays[LAYER_ORDER[i]][field] \in TimeoutActions \cup {"unset"}
    <3>1. LAYER_ORDER[2] = "project" /\ LAYER_ORDER[3] = "gate" /\ LAYER_ORDER[4] = "run"
      BY DEF LAYER_ORDER
    <3>2. LAYER_ORDER[i] \in ConfiguredLayers
      BY <3>1 DEF ConfiguredLayers
    <3>3. overlays[LAYER_ORDER[i]] \in
              [timeout_seconds : {"unset", "set"}, escalation_extension_seconds : {"unset", "set"},
               timeout_action : TimeoutActions \cup {"unset"},
               escalation_fallback_action : TimeoutActions \cup {"unset"}]
      BY <3>2, OverlayAssumption DEF Resolvable
    <3>4. overlays[LAYER_ORDER[i]].timeout_action \in TimeoutActions \cup {"unset"}
      BY <3>3
    <3>5. overlays[LAYER_ORDER[i]].escalation_fallback_action \in TimeoutActions \cup {"unset"}
      BY <3>3
    <3> QED BY <3>4, <3>5
  <2>10. value[1] = "PAUSE" /\ top \in 1 .. 4
    <3>1. value[1] = "PAUSE"
      BY <2>2
    <3> HIDE DEF value, top
    <3> QED BY <2>6, <3>1
  <2>8. CASE top = 1
    <3> HIDE DEF top, value
    <3> QED BY <2>1, <2>8, <2>10 DEF TimeoutActions
  <2>9. CASE top \in 2 .. 4
    <3> HIDE DEF top
    <3>1. value[top] = overlays[LAYER_ORDER[top]][field]
      BY <2>9
    <3> HIDE DEF value
    <3> QED BY <2>1, <2>6, <2>7, <2>9, <3>1
  <2>11. top = 1 \/ top \in 2 .. 4
    <3> HIDE DEF top
    <3> QED BY <2>10
  <2> QED BY <2>8, <2>9, <2>11
<1>4. /\ OptedIn(resolve_field(overlays, "timeout_action"))
      /\ OptedIn(resolve_field(overlays, "escalation_fallback_action"))
      /\ resolve_field(overlays, "escalation_fallback_action").value # "ESCALATE"
  BY DEF Resolvable, PolicyResolves
<1> QED BY <1>2, <1>3, <1>4

\* What a replay finds: a status some event left, or the request still pending.
LEMMA ReplayFacts ==
    ASSUME NEW list, IsApproval(list), list # <<>>
    PROVE  \/ /\ Replayed(list) = "PENDING"
              /\ \A i \in 2 .. Len(list) : list[i].kind = "EXTENDED"
           \/ \E i \in 2 .. Len(list) :
                 /\ list[i].kind # "EXTENDED" /\ Replayed(list) = list[i].status
                 /\ list[i] \in ApprovalEvents
<1> DEFINE moving == {i \in 2 .. Len(list) : list[i].kind # "EXTENDED"}
<1>1. Replayed(list) = IF moving = {} THEN "PENDING"
                       ELSE list[CHOOSE i \in moving : \A j \in moving : j <= i].status
  BY DEF Replayed
<1>2. CASE moving = {}
  BY <1>1, <1>2
<1>3. CASE moving # {}
  <2>1. Len(list) \in Nat /\ moving \subseteq 0 .. Len(list)
    BY DEF IsApproval
  <2>2. \E i \in moving : \A j \in moving : j <= i
    <3> HIDE DEF moving
    <3> QED BY <1>3, <2>1, GreatestExists
  <2>3. PICK i \in moving : i = CHOOSE k \in moving : \A j \in moving : j <= k
    BY <2>2
  <2>4. Replayed(list) = list[i].status
    BY <1>1, <1>3, <2>3
  <2>5. i \in 2 .. Len(list) /\ list[i].kind # "EXTENDED"
    OBVIOUS
  <2> QED BY <2>4, <2>5 DEF IsApproval
<1> QED BY <1>2, <1>3

\* A silence that consented was declared consent by the gate or the run.
SilenceConsents ==
    \A i \in 2 .. Len(approvals) :
        approvals[i].kind = "DECIDED" /\ approvals[i].origin = "AUTO" =>
            Silence(i).source \in {"gate", "run"}

ApprovalInv ==
    /\ IsApproval(approvals) /\ SilenceConsents
    /\ overdue \in BOOLEAN
    /\ deciding \in [Deciders -> Decisions \cup {NotDeciding}]
    /\ approvals = <<>> => \A d \in Deciders : deciding[d] = NotDeciding

\* An approval was given, and one was spent.
Granted == \E i \in 2 .. Len(approvals) : Approved(i)
Spent == \E j \in 2 .. Len(approvals) : approvals[j].kind = "CONSUMED"

\* The gate goes on only after an approval, and the command runs only after one was spent.
GateInv ==
    /\ At("READY_TO_COMMIT", "consume") \/ At("READY_TO_COMMIT", "spend")
           \/ At("READY_TO_COMMIT", "invalidate") => Granted
    /\ At("READY_TO_COMMIT", "effect_start") \/ At("READY_TO_COMMIT", "effect")
           \/ At("READY_TO_COMMIT", "effect_done") => Spent
    /\ \A j \in 2 .. Len(approvals) :
           approvals[j].kind = "CONSUMED" => \E i \in 2 .. Len(approvals) : i < j /\ Approved(i)

\* What an overdue approval gets: events, of which only a declared silence decides anything.
LEMMA TimeoutFacts ==
    ASSUME IsApproval(approvals), approvals # <<>>, TimedOut
    PROVE  \/ /\ TimeoutEvents = <<Decided("APPROVE", "AUTO")>>
              /\ \/ /\ Policy.fallback.source \in {"gate", "run"}
                    /\ \E i \in 2 .. Len(approvals) : approvals[i].kind = "ESCALATED"
                 \/ /\ Policy.timeout_action.source \in {"gate", "run"}
                    /\ \A i \in 2 .. Len(approvals) : approvals[i].kind = "EXTENDED"
           \/ TimeoutEvents = <<Event("ESCALATED", "ESCALATED"), Extended>>
           \/ TimeoutEvents = <<Event("ESCALATED", "ESCALATED")>>
           \/ \E action \in {"PAUSE", "FAIL", "CANCEL"} : TimeoutEvents = <<TimeoutEvent(action)>>
<1>1. approvals[1] \in ApprovalRequests
  BY DEF IsApproval
<1>2. /\ Policy.timeout_action.value \in TimeoutActions
      /\ Policy.fallback.value \in TimeoutActions \ {"ESCALATE"}
      /\ OptedIn(Policy.timeout_action) /\ OptedIn(Policy.fallback)
  BY <1>1, PolicyFacts DEF Policy
<1>3. \/ Status = "PENDING" /\ \A i \in 2 .. Len(approvals) : approvals[i].kind = "EXTENDED"
      \/ Status = "ESCALATED" /\ \E i \in 2 .. Len(approvals) : approvals[i].kind = "ESCALATED"
  <2>1. Status \in {"PENDING", "ESCALATED"}
    BY DEF TimedOut, TIMEOUT_ELIGIBLE
  <2> QED BY <2>1, ReplayFacts, EventFacts DEF Status, Statuses
<1> DEFINE action == (IF Status = "ESCALATED" THEN Policy.fallback ELSE Policy.timeout_action).value
<1>4. action \in TimeoutActions
  BY <1>2
<1>5. TimeoutEvents =
          CASE action = "AUTO_APPROVE" -> <<Decided("APPROVE", "AUTO")>>
            [] action = "ESCALATE" ->
                  IF Policy.extends /\ ~ Happened("EXTENDED")
                  THEN <<Event("ESCALATED", "ESCALATED"), Extended>>
                  ELSE <<Event("ESCALATED", "ESCALATED")>>
            [] OTHER -> <<Event("TIMED_OUT", STATUS_FOR_TIMEOUT[action])>>
  BY DEF TimeoutEvents
<1>6. CASE action = "AUTO_APPROVE"
  <2>1. TimeoutEvents = <<Decided("APPROVE", "AUTO")>>
    <3> HIDE DEF action
    <3> QED BY <1>5, <1>6
  <2>2. Status = "ESCALATED" => Policy.fallback.source \in {"gate", "run"}
    BY <1>2, <1>6 DEF OptedIn
  <2>3. Status = "PENDING" => Policy.timeout_action.source \in {"gate", "run"}
    BY <1>2, <1>6 DEF OptedIn
  <2> QED BY <1>3, <2>1, <2>2, <2>3
<1>7. CASE action = "ESCALATE"
  <2> HIDE DEF action
  <2> QED BY <1>5, <1>7
<1>8. CASE action \in {"PAUSE", "FAIL", "CANCEL"}
  <2> HIDE DEF action
  <2> QED BY <1>5, <1>8 DEF TimeoutEvent
<1> HIDE DEF action
<1> QED BY <1>4, <1>6, <1>7, <1>8 DEF TimeoutActions

\* Events are appended, one or two of them, or nothing.
Asks ==
    /\ At("READY_TO_COMMIT", "gate") /\ approvals = <<>>
    /\ \E overlays \in Resolvable :
          approvals' = <<Requested(resolve_approval_policy(overlays), local.checksums, tree)>>
    /\ Continue("gate")
Tells(e) == approvals # <<>> /\ approvals' = Append(approvals, e)
Elapses == TimedOut /\ approvals # <<>> /\ approvals' = approvals \o TimeoutEvents
Consumed == Event("CONSUMED", "CONSUMED")
Answered ==
    \/ GateInvalidates /\ Tells(Event("INVALIDATED", "INVALIDATED"))
    \/ Others /\ \E decision \in Decisions : Tells(Decided(decision, "MANUAL"))

\* What a step does to the approval.
LEMMA ApprovalStep ==
    ASSUME ApprovalInv, GateInv, [Next]_taskVars
    PROVE  \/ approvals' = approvals
           \/ Asks
           \/ GateSpends /\ Tells(Consumed)
           \/ Answered
           \/ Elapses
<1>g. Granted => approvals # <<>>
  <2>1. approvals = <<>> => Len(approvals) = 0
    OBVIOUS
  <2> QED BY <2>1 DEF Granted
<1>e. evaluate_approval => approvals' = approvals \/ Elapses
  BY DEF evaluate_approval, Elapses

<1>1. CASE Start
  BY <1>1 DEF Start, StartSession, approvalVars
<1>2. CASE Implement
  BY <1>2 DEF Implement, Unaffected, approvalVars
<1>3. CASE CloseOut
  BY <1>3 DEF CloseOut, Unaffected, approvalVars
<1>4. CASE DriftOnResume
  BY <1>4 DEF DriftOnResume, Unaffected, approvalVars
<1>5. CASE Authorize
  BY <1>5 DEF Authorize, approvalVars
<1>6. CASE CheckPreconditions
  BY <1>6 DEF CheckPreconditions, approvalVars
<1>7. CASE CreateStageBranch
  BY <1>7 DEF CreateStageBranch, approvalVars
<1>8. CASE CheckoutStageBranch
  BY <1>8 DEF CheckoutStageBranch, approvalVars
<1>9. CASE BranchReady
  BY <1>9 DEF BranchReady, approvalVars
<1>10. CASE HandOff
  BY <1>10 DEF HandOff, approvalVars
<1>11. CASE ReconcileImplementation
  BY <1>11 DEF ReconcileImplementation, approvalVars
<1>12. CASE JudgeReconciled
  BY <1>12 DEF JudgeReconciled, approvalVars
<1>13. CASE AbandonRepair
  BY <1>13 DEF AbandonRepair, approvalVars
<1>14. CASE StartAttempt
  BY <1>14 DEF StartAttempt, approvalVars
<1>15. CASE RunProvider
  BY <1>15 DEF RunProvider, approvalVars
<1>16. CASE CompleteAttempt
  BY <1>16 DEF CompleteAttempt, approvalVars
<1>17. CASE WriteStageReport
  BY <1>17 DEF WriteStageReport, approvalVars
<1>18. CASE AttemptFailed
  BY <1>18 DEF AttemptFailed, approvalVars
<1>19. CASE Validate
  BY <1>19 DEF Validate, approvalVars
<1>20. CASE RunQa
  BY <1>20 DEF RunQa, approvalVars
<1>21. CASE JudgeQa
  BY <1>21 DEF JudgeQa, approvalVars
<1>22. CASE BeginRepair
  BY <1>22 DEF BeginRepair, approvalVars
<1>23. CASE GateChecksums
  BY <1>23 DEF GateChecksums, approvalVars
<1>24. CASE GateRequests
  BY <1>24 DEF GateRequests, approvalVars, Asks, Resolvable, request_approval
<1>25. CASE GateEvaluates
  BY <1>25, <1>e DEF GateEvaluates
<1>26. CASE GateCompares
  BY <1>26 DEF GateCompares, approvalVars
<1>27. CASE GateSpends
  BY <1>27, <1>g DEF GateSpends, GateInv, append_approval_event, Tells, Consumed
<1>28. CASE GateInvalidates
  BY <1>28, <1>g DEF GateInvalidates, GateInv, append_approval_event, Tells, Answered
<1>29. CASE StartEffect
  BY <1>29 DEF StartEffect, approvalVars
<1>30. CASE create_commit
  BY <1>30 DEF create_commit, Sees, approvalVars
<1>31. CASE push_stage_branch
  BY <1>31 DEF push_stage_branch, Sees, approvalVars
<1>32. CASE create_pull_request
  BY <1>32 DEF create_pull_request, Sees, approvalVars
<1>33. CASE CompleteEffect
  BY <1>33 DEF CompleteEffect, approvalVars
<1>34. CASE Forward
  BY <1>34 DEF Forward, approvalVars
<1>35. CASE Surrender
  BY <1>35 DEF Surrender, approvalVars
<1>36. CASE RunEnds
  BY <1>36 DEF RunEnds, approvalVars
<1>37. CASE EnableAutoMerge
  BY <1>37 DEF EnableAutoMerge, approvalVars
<1>38. CASE AutoMergeEnabled
  BY <1>38 DEF AutoMergeEnabled, approvalVars
<1>39. CASE ObserveAutoMerge
  BY <1>39 DEF ObserveAutoMerge, approvalVars
<1>40. CASE WaitMore
  BY <1>40 DEF WaitMore, approvalVars
<1>41. CASE ObserveMerge
  BY <1>41 DEF ObserveMerge, approvalVars
<1>42. CASE ObservationRefused
  BY <1>42 DEF ObservationRefused, approvalVars
<1>43. CASE HandOffToCloseout
  BY <1>43 DEF HandOffToCloseout, approvalVars
<1>44. CASE AlreadyClosed
  BY <1>44 DEF AlreadyClosed, approvalVars
<1>45. CASE CheckoutBaseline
  BY <1>45 DEF CheckoutBaseline, approvalVars
<1>46. CASE FastForwardPull
  BY <1>46 DEF FastForwardPull, approvalVars
<1>47. CASE DeleteBothBranches
  BY <1>47 DEF DeleteBothBranches, approvalVars
<1>48. CASE WriteCloseoutReport
  BY <1>48 DEF WriteCloseoutReport, approvalVars
<1>49. CASE ClosedOut
  BY <1>49 DEF ClosedOut, approvalVars
<1>50. CASE Abort
  BY <1>50 DEF Abort, approvalVars
<1>51. CASE Die
  BY <1>51 DEF Die, Unaffected, approvalVars
<1>52. CASE Meddle
  BY <1>52 DEF Meddle, Unaffected, approvalVars
<1>53. CASE Others
  <2>1. CASE \E d \in Deciders, decision \in Answers : BeginDecision(d, decision)
    BY <2>1, <1>e DEF BeginDecision
  <2>2. ASSUME NEW d \in Deciders, AppendDecision(d)
        PROVE  Others /\ \E decision \in Decisions : Tells(Decided(decision, "MANUAL"))
    <3>1. deciding[d] # NotDeciding /\ approvals' = Append(approvals, Decided(deciding[d], "MANUAL"))
      BY <2>2 DEF AppendDecision
    <3>2. deciding[d] \in Decisions /\ approvals # <<>>
      BY <3>1 DEF ApprovalInv
    <3> QED BY <1>53, <3>1, <3>2 DEF Tells
  <2>3. CASE EvaluateInPassing
    BY <2>3, <1>e DEF EvaluateInPassing
  <2>4. CASE DeadlinePasses
    BY <2>4 DEF DeadlinePasses
  <2> QED BY <1>53, <2>1, <2>2, <2>3, <2>4 DEF Others, People, Answered
<1>54. CASE ChecksFinish
  BY <1>54 DEF ChecksFinish, approvalVars
<1>55. CASE AutoMerges
  BY <1>55 DEF AutoMerges, approvalVars
<1>56. CASE PersonSettles
  BY <1>56 DEF PersonSettles, approvalVars
<1>57. CASE UNCHANGED taskVars
  BY <1>57 DEF taskVars, durable, repository, session, bounds, approvalVars
<1> QED
  BY <1>1, <1>2, <1>3, <1>4, <1>5, <1>6, <1>7, <1>8, <1>9, <1>10, <1>11, <1>12, <1>13,
     <1>14, <1>15, <1>16, <1>17, <1>18, <1>19, <1>20, <1>21, <1>22, <1>23, <1>24, <1>25,
     <1>26, <1>27, <1>28, <1>29, <1>30, <1>31, <1>32, <1>33, <1>34, <1>35, <1>36, <1>37,
     <1>38, <1>39, <1>40, <1>41, <1>42, <1>43, <1>44, <1>45, <1>46, <1>47, <1>48, <1>49,
     <1>50, <1>51, <1>52, <1>53, <1>54, <1>55, <1>56, <1>57 DEF Next, DriverStep,
     ImplementerStep, CloseoutStep, GitHub

\* What was on the list stays where it was.
Grows ==
    /\ Len(approvals) \in Nat /\ Len(approvals)' \in Nat /\ Len(approvals) <= Len(approvals)'
    /\ \A i \in 1 .. Len(approvals) : approvals'[i] = approvals[i]

\* Appending events keeps the list an approval.
LEMMA GrowFacts ==
    ASSUME IsApproval(approvals), approvals # <<>>, NEW more \in Seq(ApprovalEvents),
           approvals' = approvals \o more
    PROVE  /\ IsApproval(approvals)' /\ Grows
           /\ Len(approvals)' = Len(approvals) + Len(more)
           /\ \A k \in 1 .. Len(more) : approvals'[Len(approvals) + k] = more[k]
<1> DEFINE All == ApprovalRequests \cup ApprovalEvents
<1>1. approvals \in Seq(All) /\ more \in Seq(All)
  BY DEF IsApproval
<1> HIDE DEF All
<1>2. /\ approvals' \in Seq(All)
      /\ Len(approvals') = Len(approvals) + Len(more)
      /\ Len(approvals) \in Nat /\ Len(more) \in Nat
      /\ \A i \in 1 .. Len(approvals) : approvals'[i] = approvals[i]
  BY <1>1
<1>3. ASSUME NEW k \in 1 .. Len(more) PROVE approvals'[Len(approvals) + k] = more[k]
  BY <1>1, <1>3
<1>4. Len(approvals) >= 1
  BY <1>1, EmptySeq
<1>5. ASSUME NEW i \in 2 .. Len(approvals') PROVE approvals'[i] \in ApprovalEvents
  <2>1. CASE i \in 2 .. Len(approvals)
    BY <1>2, <2>1 DEF IsApproval
  <2>2. CASE i \in Len(approvals) + 1 .. Len(approvals) + Len(more)
    <3>1. PICK k \in 1 .. Len(more) : i = Len(approvals) + k
      <4>1. i - Len(approvals) \in 1 .. Len(more) /\ i = Len(approvals) + (i - Len(approvals))
        BY <1>2, <2>2
      <4> QED BY <4>1
    <3>2. more[k] \in ApprovalEvents
      OBVIOUS
    <3> QED BY <1>3, <3>1, <3>2
  <2> QED BY <1>2, <2>1, <2>2
<1>6. approvals'[1] \in ApprovalRequests
  BY <1>2, <1>4 DEF IsApproval
<1>7. IsApproval(approvals)'
  BY <1>2, <1>5, <1>6 DEF IsApproval, All
<1> QED BY <1>2, <1>3, <1>7 DEF Grows

\* The events a timeout leaves are events.
LEMMA TimeoutEventsFacts ==
    ASSUME IsApproval(approvals), approvals # <<>>, TimedOut
    PROVE  TimeoutEvents \in Seq(ApprovalEvents)
<1>1. Decided("APPROVE", "AUTO") \in ApprovalEvents
  BY DEF ApprovalEvents, Decisions
<1>2. Event("ESCALATED", "ESCALATED") \in ApprovalEvents /\ Extended \in ApprovalEvents
  BY DEF ApprovalEvents
<1>3. \A action \in {"PAUSE", "FAIL", "CANCEL"} : TimeoutEvent(action) \in ApprovalEvents
  BY DEF ApprovalEvents, Pauses
<1>4. /\ \A e \in ApprovalEvents : <<e>> \in Seq(ApprovalEvents)
      /\ \A e, f \in ApprovalEvents : <<e, f>> \in Seq(ApprovalEvents)
  OBVIOUS
<1> QED BY <1>1, <1>2, <1>3, <1>4, TimeoutFacts

\* A new event that consents is the answer of a declared silence or of somebody, and one that
\* spends is the gate's.
LEMMA ApprovalGrows ==
    ASSUME ApprovalInv, GateInv, LocalInv, WorldInv, [Next]_taskVars
    PROVE  /\ IsApproval(approvals)' /\ Grows
           /\ \A i \in 2 .. Len(approvals)' : i > Len(approvals) =>
                 /\ approvals'[i].kind = "CONSUMED" => GateSpends /\ Granted
                 /\ approvals'[i].kind = "DECIDED" /\ approvals'[i].origin = "AUTO" =>
                        Silence(i)'.source \in {"gate", "run"}
<1>1. CASE approvals' = approvals
  <2>1. IsApproval(approvals)
    BY DEF ApprovalInv
  <2>2. Len(approvals) \in Nat
    BY <2>1 DEF IsApproval
  <2> QED BY <1>1, <2>1, <2>2 DEF Grows
<1>2. CASE Asks
  <2>1. PICK overlays \in Resolvable :
            approvals' = <<Requested(resolve_approval_policy(overlays), local.checksums, tree)>>
    BY <1>2 DEF Asks
  <2> DEFINE q == Requested(resolve_approval_policy(overlays), local.checksums, tree)
  <2>2. q \in ApprovalRequests
    <3>1. local.checksums \in Checksums /\ tree \in Trees
      BY DEF LocalInv, LocalRecords, WorldInv
    <3> QED BY <3>1 DEF ApprovalRequests
  <2> HIDE DEF q
  <2>3. approvals' = <<q>> /\ approvals = <<>>
    BY <1>2, <2>1 DEF Asks, q
  <2>4. Len(approvals') = 1 /\ approvals'[1] = q /\ Len(approvals) = 0
    BY <2>3
  <2>5. approvals' \in Seq(ApprovalRequests \cup ApprovalEvents)
    BY <2>2, <2>3
  <2> QED BY <2>2, <2>4, <2>5 DEF Grows, IsApproval
<1>3. ASSUME NEW e \in ApprovalEvents, Tells(e),
             e.kind = "DECIDED" => e.origin # "AUTO",
             e.kind = "CONSUMED" => GateSpends
      PROVE  /\ IsApproval(approvals)' /\ Grows
             /\ \A i \in 2 .. Len(approvals)' : i > Len(approvals) =>
                   /\ approvals'[i].kind = "CONSUMED" => GateSpends /\ Granted
                   /\ approvals'[i].kind = "DECIDED" /\ approvals'[i].origin = "AUTO" =>
                          Silence(i)'.source \in {"gate", "run"}
  <2>1. IsApproval(approvals) /\ approvals # <<>> /\ <<e>> \in Seq(ApprovalEvents)
    BY <1>3 DEF ApprovalInv, Tells
  <2>2. approvals' = approvals \o <<e>>
    <3>1. approvals \in Seq(ApprovalRequests \cup ApprovalEvents)
      BY <2>1 DEF IsApproval
    <3> QED BY <1>3, <3>1 DEF Tells
  <2>3. Len(<<e>>) = 1 /\ <<e>>[1] = e
    OBVIOUS
  <2>4. IsApproval(approvals)' /\ Grows /\ Len(approvals)' = Len(approvals) + 1
        /\ approvals'[Len(approvals) + 1] = e
    <3>1. /\ IsApproval(approvals)' /\ Grows /\ Len(approvals)' = Len(approvals) + Len(<<e>>)
          /\ \A k \in 1 .. Len(<<e>>) : approvals'[Len(approvals) + k] = <<e>>[k]
      BY <2>1, <2>2, GrowFacts
    <3>2. 1 \in 1 .. Len(<<e>>)
      BY <2>3
    <3> QED BY <2>3, <3>1, <3>2
  <2>5. GateSpends => Granted
    BY DEF GateSpends, GateInv
  <2> QED BY <1>3, <2>4, <2>5 DEF Grows
<1>4. CASE GateSpends /\ Tells(Consumed)
  <2>1. Consumed \in ApprovalEvents /\ Consumed.kind = "CONSUMED"
    BY DEF ApprovalEvents, Consumed, Event
  <2> QED BY <1>3, <1>4, <2>1
<1>5. CASE Answered
  <2>1. Event("INVALIDATED", "INVALIDATED") \in ApprovalEvents
        /\ Event("INVALIDATED", "INVALIDATED").kind = "INVALIDATED"
    BY DEF ApprovalEvents, Event
  <2>2. ASSUME NEW decision \in Decisions
        PROVE  /\ Decided(decision, "MANUAL") \in ApprovalEvents
               /\ Decided(decision, "MANUAL").kind = "DECIDED"
               /\ Decided(decision, "MANUAL").origin = "MANUAL"
    BY DEF ApprovalEvents, Decided
  <2> QED BY <1>3, <1>5, <2>1, <2>2 DEF Answered
<1>6. CASE Elapses
  <2>1. TimedOut /\ IsApproval(approvals) /\ approvals # <<>>
        /\ TimeoutEvents \in Seq(ApprovalEvents) /\ approvals' = approvals \o TimeoutEvents
    BY <1>6, TimeoutEventsFacts DEF Elapses, ApprovalInv
  <2>2. /\ IsApproval(approvals)' /\ Grows /\ Len(approvals)' = Len(approvals) + Len(TimeoutEvents)
        /\ \A k \in 1 .. Len(TimeoutEvents) : approvals'[Len(approvals) + k] = TimeoutEvents[k]
    BY <2>1, GrowFacts
  <2>3. CASE TimeoutEvents = <<Decided("APPROVE", "AUTO")>>
    <3>1. Len(TimeoutEvents) = 1 /\ TimeoutEvents[1] = Decided("APPROVE", "AUTO")
      BY <2>3
    <3>2. /\ Len(approvals)' = Len(approvals) + 1
          /\ approvals'[Len(approvals) + 1] = Decided("APPROVE", "AUTO")
      BY <2>2, <3>1
    <3>3. approvals'[Len(approvals) + 1].kind = "DECIDED"
      BY <3>2 DEF Decided
    <3>4. \/ /\ Policy.fallback.source \in {"gate", "run"}
             /\ \E i \in 2 .. Len(approvals) : approvals[i].kind = "ESCALATED"
          \/ /\ Policy.timeout_action.source \in {"gate", "run"}
             /\ \A i \in 2 .. Len(approvals) : approvals[i].kind = "EXTENDED"
      <4>1. Decided("APPROVE", "AUTO").kind = "DECIDED"
            /\ Event("ESCALATED", "ESCALATED").kind = "ESCALATED"
            /\ \A action \in {"PAUSE", "FAIL", "CANCEL"} : TimeoutEvent(action).kind = "TIMED_OUT"
        BY DEF Decided, Event, TimeoutEvent
      <4>2. TimeoutEvents[1].kind = "DECIDED"
        BY <3>1, <4>1
      <4>3. /\ <<Event("ESCALATED", "ESCALATED"), Extended>>[1] = Event("ESCALATED", "ESCALATED")
            /\ <<Event("ESCALATED", "ESCALATED")>>[1] = Event("ESCALATED", "ESCALATED")
            /\ \A action : <<TimeoutEvent(action)>>[1] = TimeoutEvent(action)
        OBVIOUS
      <4> QED BY <2>1, <4>1, <4>2, <4>3, TimeoutFacts
    <3>5. Policy' = Policy
      <4>1. 1 \in 1 .. Len(approvals)
        BY <2>1, EmptySeq DEF IsApproval
      <4> QED BY <2>2, <4>1 DEF Grows, Policy
    <3>0. PICK n \in Nat : n = Len(approvals) + 1
      BY <2>2 DEF Grows
    <3>6. Silence(n)' = IF \E j \in 2 .. n : approvals'[j].kind = "ESCALATED"
                        THEN Policy'.fallback ELSE Policy'.timeout_action
      BY DEF Silence
    <3>7. (\E j \in 2 .. n : approvals'[j].kind = "ESCALATED")
              <=> \E j \in 2 .. Len(approvals) : approvals[j].kind = "ESCALATED"
      <4>1. approvals'[n].kind = "DECIDED"
        BY <3>0, <3>3
      <4>2. Len(approvals) \in Nat /\ \A j \in 2 .. Len(approvals) : approvals'[j] = approvals[j]
        BY <2>2 DEF Grows
      <4>3. \A j \in 2 .. n : j = n \/ j \in 2 .. Len(approvals)
        BY <3>0, <4>2
      <4>4. \A j \in 2 .. Len(approvals) : j \in 2 .. n
        BY <3>0, <4>2
      <4> QED BY <4>1, <4>2, <4>3, <4>4
    <3>8. Silence(n)'.source \in {"gate", "run"}
      <4>1. CASE \E j \in 2 .. Len(approvals) : approvals[j].kind = "ESCALATED"
        <5>1. Policy.fallback.source \in {"gate", "run"}
          BY <3>4, <4>1
        <5> QED BY <3>5, <3>6, <3>7, <4>1, <5>1
      <4>2. CASE ~ \E j \in 2 .. Len(approvals) : approvals[j].kind = "ESCALATED"
        <5>1. Policy.timeout_action.source \in {"gate", "run"}
          BY <3>4, <4>2
        <5> QED BY <3>5, <3>6, <3>7, <4>2, <5>1
      <4> QED BY <4>1, <4>2
    <3>9. \A i \in 2 .. Len(approvals)' : i > Len(approvals) => i = n
      BY <2>2, <3>0, <3>2 DEF Grows
    <3>10. approvals'[n].kind = "DECIDED"
      BY <3>0, <3>3
    <3> QED BY <2>2, <3>8, <3>9, <3>10
  <2>4. CASE \A k \in 1 .. Len(TimeoutEvents) : TimeoutEvents[k].kind \notin {"DECIDED", "CONSUMED"}
    <3>1. ASSUME NEW i \in 2 .. Len(approvals)', i > Len(approvals)
          PROVE  approvals'[i].kind \notin {"DECIDED", "CONSUMED"}
      <4>1. Len(TimeoutEvents) \in Nat
        BY <2>1
      <4>2. i - Len(approvals) \in 1 .. Len(TimeoutEvents) /\ i = Len(approvals) + (i - Len(approvals))
        BY <2>2, <3>1, <4>1 DEF Grows
      <4> QED BY <2>2, <2>4, <4>2
    <3> QED BY <2>2, <3>1
  <2>5. CASE TimeoutEvents = <<Event("ESCALATED", "ESCALATED"), Extended>>
    <3>1. Len(TimeoutEvents) = 2 /\ TimeoutEvents[1] = Event("ESCALATED", "ESCALATED")
          /\ TimeoutEvents[2] = Extended
      BY <2>5
    <3>2. TimeoutEvents[1].kind = "ESCALATED" /\ TimeoutEvents[2].kind = "EXTENDED"
      BY <3>1 DEF Event, Extended
    <3>3. \A k \in 1 .. 2 : k = 1 \/ k = 2
      OBVIOUS
    <3> QED BY <2>4, <3>1, <3>2, <3>3
  <2>6. CASE TimeoutEvents = <<Event("ESCALATED", "ESCALATED")>>
    <3>1. Len(TimeoutEvents) = 1 /\ TimeoutEvents[1].kind = "ESCALATED"
      BY <2>6 DEF Event
    <3> QED BY <2>4, <3>1
  <2>7. CASE \E action \in {"PAUSE", "FAIL", "CANCEL"} : TimeoutEvents = <<TimeoutEvent(action)>>
    <3>1. Len(TimeoutEvents) = 1 /\ TimeoutEvents[1].kind = "TIMED_OUT"
      BY <2>7 DEF TimeoutEvent, Event
    <3> QED BY <2>4, <3>1
  <2> QED BY <2>1, <2>3, <2>5, <2>6, <2>7, TimeoutFacts
<1> QED BY <1>1, <1>2, <1>4, <1>5, <1>6, ApprovalStep

\* A list that grows keeps what was granted, spent and silently consented.
LEMMA GrowthKeeps ==
    ASSUME ApprovalInv, Grows
    PROVE  /\ Granted => Granted'
           /\ Spent => Spent'
           /\ approvals # <<>> => approvals' # <<>> /\ approvals'[1] = approvals[1]
           /\ \A i \in 2 .. Len(approvals) : Silence(i)' = Silence(i)
<1>1. Len(approvals) \in Nat /\ (approvals # <<>> => Len(approvals) >= 1)
  BY EmptySeq DEF ApprovalInv, IsApproval
<1>2. approvals # <<>> => approvals' # <<>> /\ approvals'[1] = approvals[1]
  <2>1. approvals' = <<>> => Len(approvals)' = 0
    OBVIOUS
  <2> QED BY <1>1, <2>1 DEF Grows
<1>3. Granted => Granted'
  BY <1>1 DEF Granted, Grows, Approved
<1>4. Spent => Spent'
  BY <1>1 DEF Spent, Grows
<1>5. ASSUME NEW i \in 2 .. Len(approvals) PROVE Silence(i)' = Silence(i)
  <2>0. approvals = <<>> => Len(approvals) = 0
    OBVIOUS
  <2>1. Policy' = Policy
    BY <1>1, <1>2, <2>0 DEF Policy
  <2>2. \A j \in 2 .. i : approvals'[j] = approvals[j]
    BY <1>1 DEF Grows
  <2> QED BY <2>1, <2>2 DEF Silence
<1> QED BY <1>2, <1>3, <1>4, <1>5

\* Every step keeps the list an approval.
LEMMA ApprovalStepKeeps ==
    ASSUME ApprovalInv, GateInv, LocalInv, WorldInv, [Next]_taskVars
    PROVE  ApprovalInv'
<1>0. overdue \in BOOLEAN /\ deciding \in [Deciders -> Decisions \cup {NotDeciding}]
      /\ (approvals = <<>> => \A d \in Deciders : deciding[d] = NotDeciding)
  BY DEF ApprovalInv
<1>g. IsApproval(approvals)' /\ Grows
  BY ApprovalGrows
<1>s. SilenceConsents'
  <2>1. SUFFICES ASSUME NEW i \in 2 .. Len(approvals)', approvals'[i].kind = "DECIDED",
                        approvals'[i].origin = "AUTO"
                 PROVE  Silence(i)'.source \in {"gate", "run"}
    BY DEF SilenceConsents
  <2>2. CASE i > Len(approvals)
    BY <2>1, <2>2, ApprovalGrows
  <2>3. CASE i \in 2 .. Len(approvals)
    <3>1. approvals'[i] = approvals[i]
      BY <1>g, <2>3 DEF Grows
    <3>2. Silence(i).source \in {"gate", "run"}
      BY <2>1, <2>3, <3>1 DEF ApprovalInv, SilenceConsents
    <3> QED BY <1>g, <2>3, <3>2, GrowthKeeps
  <2> QED BY <1>g, <2>2, <2>3 DEF Grows
<1>n. approvals # <<>> => approvals' # <<>>
  BY <1>g, GrowthKeeps
<1>e. evaluate_approval => overdue' \in BOOLEAN /\ approvals # <<>>
  BY <1>0 DEF evaluate_approval
<1>d. overdue' \in BOOLEAN /\ deciding' \in [Deciders -> Decisions \cup {NotDeciding}]
      /\ (approvals = <<>> => deciding' = deciding)

  <2>1. CASE Start
    BY <2>1, <1>0, <1>e DEF Start, StartSession, approvalVars
  <2>2. CASE Implement
    BY <2>2, <1>0, <1>e DEF Implement, Unaffected, approvalVars
  <2>3. CASE CloseOut
    BY <2>3, <1>0, <1>e DEF CloseOut, Unaffected, approvalVars
  <2>4. CASE DriftOnResume
    BY <2>4, <1>0, <1>e DEF DriftOnResume, Unaffected, approvalVars
  <2>5. CASE Authorize
    BY <2>5, <1>0, <1>e DEF Authorize, approvalVars
  <2>6. CASE CheckPreconditions
    BY <2>6, <1>0, <1>e DEF CheckPreconditions, approvalVars
  <2>7. CASE CreateStageBranch
    BY <2>7, <1>0, <1>e DEF CreateStageBranch, approvalVars
  <2>8. CASE CheckoutStageBranch
    BY <2>8, <1>0, <1>e DEF CheckoutStageBranch, approvalVars
  <2>9. CASE BranchReady
    BY <2>9, <1>0, <1>e DEF BranchReady, approvalVars
  <2>10. CASE HandOff
    BY <2>10, <1>0, <1>e DEF HandOff, approvalVars
  <2>11. CASE ReconcileImplementation
    BY <2>11, <1>0, <1>e DEF ReconcileImplementation, approvalVars
  <2>12. CASE JudgeReconciled
    BY <2>12, <1>0, <1>e DEF JudgeReconciled, approvalVars
  <2>13. CASE AbandonRepair
    BY <2>13, <1>0, <1>e DEF AbandonRepair, approvalVars
  <2>14. CASE StartAttempt
    BY <2>14, <1>0, <1>e DEF StartAttempt, approvalVars
  <2>15. CASE RunProvider
    BY <2>15, <1>0, <1>e DEF RunProvider, approvalVars
  <2>16. CASE CompleteAttempt
    BY <2>16, <1>0, <1>e DEF CompleteAttempt, approvalVars
  <2>17. CASE WriteStageReport
    BY <2>17, <1>0, <1>e DEF WriteStageReport, approvalVars
  <2>18. CASE AttemptFailed
    BY <2>18, <1>0, <1>e DEF AttemptFailed, approvalVars
  <2>19. CASE Validate
    BY <2>19, <1>0, <1>e DEF Validate, approvalVars
  <2>20. CASE RunQa
    BY <2>20, <1>0, <1>e DEF RunQa, approvalVars
  <2>21. CASE JudgeQa
    BY <2>21, <1>0, <1>e DEF JudgeQa, approvalVars
  <2>22. CASE BeginRepair
    BY <2>22, <1>0, <1>e DEF BeginRepair, approvalVars
  <2>23. CASE GateChecksums
    BY <2>23, <1>0, <1>e DEF GateChecksums, approvalVars
  <2>24. CASE GateRequests
    BY <2>24, <1>0, <1>e DEF GateRequests, request_approval, approvalVars
  <2>25. CASE GateEvaluates
    BY <2>25, <1>0, <1>e DEF GateEvaluates
  <2>26. CASE GateCompares
    BY <2>26, <1>0, <1>e DEF GateCompares, approvalVars
  <2>27. CASE GateSpends
    BY <2>27, <1>0, <1>e DEF GateSpends, append_approval_event
  <2>28. CASE GateInvalidates
    BY <2>28, <1>0, <1>e DEF GateInvalidates, append_approval_event
  <2>29. CASE StartEffect
    BY <2>29, <1>0, <1>e DEF StartEffect, approvalVars
  <2>30. CASE create_commit
    BY <2>30, <1>0, <1>e DEF create_commit, Sees, approvalVars
  <2>31. CASE push_stage_branch
    BY <2>31, <1>0, <1>e DEF push_stage_branch, Sees, approvalVars
  <2>32. CASE create_pull_request
    BY <2>32, <1>0, <1>e DEF create_pull_request, Sees, approvalVars
  <2>33. CASE CompleteEffect
    BY <2>33, <1>0, <1>e DEF CompleteEffect, approvalVars
  <2>34. CASE Forward
    BY <2>34, <1>0, <1>e DEF Forward, approvalVars
  <2>35. CASE Surrender
    BY <2>35, <1>0, <1>e DEF Surrender, approvalVars
  <2>36. CASE RunEnds
    BY <2>36, <1>0, <1>e DEF RunEnds, approvalVars
  <2>37. CASE EnableAutoMerge
    BY <2>37, <1>0, <1>e DEF EnableAutoMerge, approvalVars
  <2>38. CASE AutoMergeEnabled
    BY <2>38, <1>0, <1>e DEF AutoMergeEnabled, approvalVars
  <2>39. CASE ObserveAutoMerge
    BY <2>39, <1>0, <1>e DEF ObserveAutoMerge, approvalVars
  <2>40. CASE WaitMore
    BY <2>40, <1>0, <1>e DEF WaitMore, approvalVars
  <2>41. CASE ObserveMerge
    BY <2>41, <1>0, <1>e DEF ObserveMerge, approvalVars
  <2>42. CASE ObservationRefused
    BY <2>42, <1>0, <1>e DEF ObservationRefused, approvalVars
  <2>43. CASE HandOffToCloseout
    BY <2>43, <1>0, <1>e DEF HandOffToCloseout, approvalVars
  <2>44. CASE AlreadyClosed
    BY <2>44, <1>0, <1>e DEF AlreadyClosed, approvalVars
  <2>45. CASE CheckoutBaseline
    BY <2>45, <1>0, <1>e DEF CheckoutBaseline, approvalVars
  <2>46. CASE FastForwardPull
    BY <2>46, <1>0, <1>e DEF FastForwardPull, approvalVars
  <2>47. CASE DeleteBothBranches
    BY <2>47, <1>0, <1>e DEF DeleteBothBranches, approvalVars
  <2>48. CASE WriteCloseoutReport
    BY <2>48, <1>0, <1>e DEF WriteCloseoutReport, approvalVars
  <2>49. CASE ClosedOut
    BY <2>49, <1>0, <1>e DEF ClosedOut, approvalVars
  <2>50. CASE Abort
    BY <2>50, <1>0, <1>e DEF Abort, approvalVars
  <2>51. CASE Die
    BY <2>51, <1>0, <1>e DEF Die, Unaffected, approvalVars
  <2>52. CASE Meddle
    BY <2>52, <1>0, <1>e DEF Meddle, Unaffected, approvalVars
  <2>53. CASE Others
    <3>1. ASSUME NEW d \in Deciders, NEW decision \in Answers, BeginDecision(d, decision)
          PROVE  overdue' \in BOOLEAN /\ deciding' \in [Deciders -> Decisions \cup {NotDeciding}]
                 /\ approvals # <<>>
      <4>1. decision \in Decisions
        BY DecisionAssumption
      <4> QED BY <1>0, <1>e, <3>1, <4>1 DEF BeginDecision
    <3>2. ASSUME NEW d \in Deciders, AppendDecision(d)
          PROVE  overdue' \in BOOLEAN /\ deciding' \in [Deciders -> Decisions \cup {NotDeciding}]
                 /\ approvals # <<>>
      BY <1>0, <3>2 DEF AppendDecision
    <3>3. CASE EvaluateInPassing
      BY <1>0, <1>e, <3>3 DEF EvaluateInPassing
    <3>4. CASE DeadlinePasses
      BY <1>0, <3>4 DEF DeadlinePasses
    <3> QED BY <2>53, <3>1, <3>2, <3>3, <3>4 DEF Others, People
  <2>54. CASE ChecksFinish
    BY <2>54, <1>0, <1>e DEF ChecksFinish, approvalVars
  <2>55. CASE AutoMerges
    BY <2>55, <1>0, <1>e DEF AutoMerges, approvalVars
  <2>56. CASE PersonSettles
    BY <2>56, <1>0, <1>e DEF PersonSettles, approvalVars
  <2>57. CASE UNCHANGED taskVars
    BY <2>57, <1>0, <1>e DEF taskVars, durable, repository, session, bounds, approvalVars
  <2> QED
    BY <2>1, <2>2, <2>3, <2>4, <2>5, <2>6, <2>7, <2>8, <2>9, <2>10, <2>11, <2>12, <2>13,
       <2>14, <2>15, <2>16, <2>17, <2>18, <2>19, <2>20, <2>21, <2>22, <2>23, <2>24, <2>25,
       <2>26, <2>27, <2>28, <2>29, <2>30, <2>31, <2>32, <2>33, <2>34, <2>35, <2>36, <2>37,
       <2>38, <2>39, <2>40, <2>41, <2>42, <2>43, <2>44, <2>45, <2>46, <2>47, <2>48, <2>49,
       <2>50, <2>51, <2>52, <2>53, <2>54, <2>55, <2>56, <2>57 DEF Next, DriverStep,
       ImplementerStep, CloseoutStep, GitHub

<1> QED BY <1>0, <1>g, <1>s, <1>n, <1>d DEF ApprovalInv

\* Every step keeps what the gate knows.
LEMMA GateStepKeeps ==
    ASSUME ApprovalInv, GateInv, LocalInv, WorldInv, [Next]_taskVars
    PROVE  GateInv'
<1> DEFINE Deciding == mode = "implementer" /\ machine = "READY_TO_COMMIT"
           Earning == pc \in {"consume", "spend", "invalidate"}
           Acting == pc \in {"effect_start", "effect", "effect_done"}
<1>g. IsApproval(approvals)' /\ Grows
  BY ApprovalGrows
<1>k. (Granted => Granted') /\ (Spent => Spent')
  BY <1>g, GrowthKeeps
<1>i. (Deciding /\ Earning => Granted) /\ (Deciding /\ Acting => Spent)
  BY DEF GateInv, At
<1>c. ASSUME NEW j \in 2 .. Len(approvals)', approvals'[j].kind = "CONSUMED"
      PROVE  \E i \in 2 .. Len(approvals)' : i < j /\ Approved(i)'
  <2>1. CASE j > Len(approvals)
    <3>1. PICK i \in 2 .. Len(approvals) : Approved(i)
      BY <1>c, <2>1, ApprovalGrows DEF Granted
    <3>2. i \in 2 .. Len(approvals)' /\ i < j /\ Approved(i)'
      BY <1>g, <2>1, <3>1 DEF Grows, Approved
    <3> QED BY <3>2
  <2>2. CASE j \in 2 .. Len(approvals)
    <3>1. approvals[j].kind = "CONSUMED"
      BY <1>c, <1>g, <2>2 DEF Grows
    <3>2. PICK i \in 2 .. Len(approvals) : i < j /\ Approved(i)
      BY <2>2, <3>1 DEF GateInv
    <3>3. i \in 2 .. Len(approvals)' /\ Approved(i)'
      BY <1>g, <3>2 DEF Grows, Approved
    <3> QED BY <3>2, <3>3
  <2> QED BY <1>g, <2>1, <2>2 DEF Grows
<1>r. ASSUME GateEvaluates
      PROVE  /\ Replayed(approvals)' = "APPROVED" => Granted'
             /\ Replayed(approvals)' = "CONSUMED" => Spent'
  <2>1. approvals' # <<>>
    <3>1. approvals # <<>>
      BY <1>r DEF GateEvaluates, evaluate_approval
    <3> QED BY <1>g, <3>1, GrowthKeeps
  <2>2. \/ Replayed(approvals') = "PENDING"
        \/ \E i \in 2 .. Len(approvals') :
              /\ approvals'[i].kind # "EXTENDED" /\ Replayed(approvals') = approvals'[i].status
              /\ approvals'[i] \in ApprovalEvents
    BY <1>g, <2>1, ReplayFacts
  <2> QED BY <2>2, EventFacts DEF Granted, Spent, Approved
<1>m. (Deciding /\ Earning => Granted)' /\ (Deciding /\ Acting => Spent)'

  <2>1. CASE Start
    BY <2>1, <1>i, <1>k DEF Start, StartSession
  <2>2. CASE Implement
    BY <2>2, <1>i, <1>k DEF Implement, ResumeImplementer, Unaffected
  <2>3. CASE CloseOut
    BY <2>3, <1>i, <1>k DEF CloseOut, ResumeCloseout, Unaffected
  <2>4. CASE DriftOnResume
    BY <2>4, <1>i, <1>k DEF DriftOnResume, Unaffected, ResumeDrifts, session
  <2>5. CASE Authorize
    BY <2>5, <1>i, <1>k DEF Authorize, RecordAuthorization, At, TransitionTo, SessionEnds
  <2>6. CASE CheckPreconditions
    BY <2>6, <1>i, <1>k DEF CheckPreconditions, At, Advance, Fail, TransitionTo, SessionEnds
  <2>7. CASE CreateStageBranch
    BY <2>7, <1>i, <1>k DEF CreateStageBranch, At, Continue, Fail, Goto, TransitionTo,
       SessionEnds
  <2>8. CASE CheckoutStageBranch
    BY <2>8, <1>i, <1>k DEF CheckoutStageBranch, At, Continue, Fail, Goto, TransitionTo,
       SessionEnds
  <2>9. CASE BranchReady
    BY <2>9, <1>i, <1>k DEF BranchReady, At, Advance, TransitionTo, SessionEnds
  <2>10. CASE HandOff
    BY <2>10, <1>i, <1>k DEF HandOff, At, Advance, TransitionTo, SessionEnds
  <2>11. CASE ReconcileImplementation
    BY <2>11, <1>i, <1>k DEF ReconcileImplementation, At, Continue, Raised, Goto,
       SessionEnds
  <2>12. CASE JudgeReconciled
    BY <2>12, <1>i, <1>k DEF JudgeReconciled, At, Advance, Continue, Fail, TransitionTo,
       Goto, SessionEnds
  <2>13. CASE AbandonRepair
    BY <2>13, <1>i, <1>k DEF AbandonRepair, At, Fail, TransitionTo, SessionEnds
  <2>14. CASE StartAttempt
    BY <2>14, <1>i, <1>k DEF StartAttempt, Continue, Raised, Goto, SessionEnds
  <2>15. CASE RunProvider
    BY <2>15, <1>i, <1>k DEF RunProvider, Goto
  <2>16. CASE CompleteAttempt
    BY <2>16, <1>i, <1>k DEF CompleteAttempt, Continue, Raised, Goto, SessionEnds
  <2>17. CASE WriteStageReport
    BY <2>17, <1>i, <1>k DEF WriteStageReport, Raised, Continue, SessionEnds, Goto
  <2>18. CASE AttemptFailed
    BY <2>18, <1>i, <1>k DEF AttemptFailed, Continue, Fail, Goto, TransitionTo, SessionEnds
  <2>19. CASE Validate
    BY <2>19, <1>i, <1>k DEF Validate, At, Raised, Advance, Fail, EnterRepairOrFail,
       SessionEnds, TransitionTo, Continue, Goto
  <2>20. CASE RunQa
    BY <2>20, <1>i, <1>k DEF RunQa, At, Continue, Goto
  <2>21. CASE JudgeQa
    BY <2>21, <1>i, <1>k DEF JudgeQa, At, EnterRepairOrFail, Advance, Raised, Continue,
       Fail, TransitionTo, SessionEnds, Goto
  <2>22. CASE BeginRepair
    BY <2>22, <1>i, <1>k DEF BeginRepair, Advance, TransitionTo, SessionEnds
  <2>23. CASE GateChecksums
    BY <2>23, <1>i, <1>k DEF GateChecksums, At, Raised, Goto, SessionEnds
  <2>24. CASE GateRequests
    BY <2>24, <1>i, <1>k DEF GateRequests, At, Continue, Raised, Goto, SessionEnds
  <2>25. CASE GateEvaluates
    <3>1. \/ Replayed(approvals)' = "APPROVED" /\ pc' = "consume"
          \/ Replayed(approvals)' = "CONSUMED" /\ pc' = "effect_start"
          \/ mode' = "none" \/ pc' \in {"step", "closed"}
      <4>1. GateDecides(Replayed(approvals)')
        BY <2>25 DEF GateEvaluates
      <4>2. (Raised => mode' = "none") /\ (Fail => mode' = "none" \/ pc' = "step")
        BY DEF Raised, SessionEnds, Fail, TransitionTo
      <4>3. \A where : Continue(where) => pc' = where
        BY DEF Continue, Goto
      <4> QED BY <4>1, <4>2, <4>3 DEF GateDecides
    <3> QED BY <1>r, <2>25, <3>1
  <2>26. CASE GateCompares
    BY <2>26, <1>i, <1>k DEF GateCompares, At, Raised, Continue, SessionEnds, Goto
  <2>27. CASE GateSpends
    <3>1. pc' = "effect_start" /\ approvals' = Append(approvals, Consumed) /\ Granted
      BY <2>27, <1>i DEF GateSpends, append_approval_event, Continue, Goto, Consumed, At
    <3>2. approvals \in Seq(ApprovalRequests \cup ApprovalEvents)
      BY DEF ApprovalInv, IsApproval
    <3>3. /\ Len(approvals)' = Len(approvals) + 1 /\ Len(approvals) \in Nat
          /\ approvals'[Len(approvals) + 1] = Consumed
      BY <3>1, <3>2
    <3>4. Consumed.kind = "CONSUMED"
      BY DEF Consumed, Event
    <3>5. Len(approvals) >= 2
      BY <3>1, <3>3 DEF Granted
    <3>6. Spent'
      BY <3>3, <3>4, <3>5 DEF Spent
    <3> QED BY <3>1, <3>6
  <2>28. CASE GateInvalidates
    BY <2>28, <1>i, <1>k DEF GateInvalidates, At, Continue, Goto
  <2>29. CASE StartEffect
    BY <2>29, <1>i, <1>k DEF StartEffect, InEffect, Fail, Continue, Raised, TransitionTo,
       Goto, SessionEnds
  <2>30. CASE create_commit
    BY <2>30, <1>i, <1>k DEF create_commit, InEffect, Sees, Goto
  <2>31. CASE push_stage_branch
    BY <2>31, <1>i, <1>k DEF push_stage_branch, InEffect, Sees, Goto
  <2>32. CASE create_pull_request
    BY <2>32, <1>i, <1>k DEF create_pull_request, InEffect, Sees, Goto
  <2>33. CASE CompleteEffect
    BY <2>33, <1>i, <1>k DEF CompleteEffect, InEffect, Continue, Raised, Goto, SessionEnds
  <2>34. CASE Forward
    BY <2>34, <1>i, <1>k DEF Forward, Advance, TransitionTo, SessionEnds
  <2>35. CASE Surrender
    BY <2>35, <1>i, <1>k DEF Surrender, Fail, TransitionTo, SessionEnds
  <2>36. CASE RunEnds
    BY <2>36, <1>i, <1>k DEF RunEnds, Raised, SessionEnds
  <2>37. CASE EnableAutoMerge
    BY <2>37, <1>i, <1>k DEF EnableAutoMerge, Closing, Advance, Continue, Fail,
       TransitionTo, Goto, SessionEnds
  <2>38. CASE AutoMergeEnabled
    BY <2>38, <1>i, <1>k DEF AutoMergeEnabled, Closing, Advance, TransitionTo, SessionEnds
  <2>39. CASE ObserveAutoMerge
    BY <2>39, <1>i, <1>k DEF ObserveAutoMerge, Closing, Advance, Fail, TransitionTo,
       SessionEnds
  <2>40. CASE WaitMore
    BY <2>40, <1>i, <1>k DEF WaitMore, Closing, session, Raised, SessionEnds
  <2>41. CASE ObserveMerge
    BY <2>41, <1>i, <1>k DEF ObserveMerge, Closing, Advance, Fail, TransitionTo, SessionEnds
  <2>42. CASE ObservationRefused
    BY <2>42, <1>i, <1>k DEF ObservationRefused, Closing, Fail, TransitionTo, SessionEnds
  <2>43. CASE HandOffToCloseout
    BY <2>43, <1>i, <1>k DEF HandOffToCloseout, Closing, Advance, TransitionTo, SessionEnds
  <2>44. CASE AlreadyClosed
    BY <2>44, <1>i, <1>k DEF AlreadyClosed, Closing, Advance, TransitionTo, SessionEnds
  <2>45. CASE CheckoutBaseline
    BY <2>45, <1>i, <1>k DEF CheckoutBaseline, Closing, Continue, Fail, Goto, TransitionTo,
       SessionEnds
  <2>46. CASE FastForwardPull
    BY <2>46, <1>i, <1>k DEF FastForwardPull, Closing, Continue, Fail, Goto, TransitionTo,
       SessionEnds
  <2>47. CASE DeleteBothBranches
    BY <2>47, <1>i, <1>k DEF DeleteBothBranches, Closing, Continue, Fail, Goto,
       TransitionTo, SessionEnds
  <2>48. CASE WriteCloseoutReport
    BY <2>48, <1>i, <1>k DEF WriteCloseoutReport, Closing, Continue, Fail, Goto,
       TransitionTo, SessionEnds
  <2>49. CASE ClosedOut
    BY <2>49, <1>i, <1>k DEF ClosedOut, Closing, Advance, TransitionTo, SessionEnds
  <2>50. CASE Abort
    BY <2>50, <1>i, <1>k DEF Abort, Cancel, TransitionTo, SessionEnds
  <2>51. CASE Die
    BY <2>51, <1>i, <1>k DEF Die, Crash, Unaffected, SessionEnds
  <2>52. CASE Meddle
    BY <2>52, <1>i, <1>k DEF Meddle, Unaffected, EditTree, MoveBinding, session
  <2>53. CASE Others
    BY <2>53, <1>i, <1>k DEF Others, session
  <2>54. CASE ChecksFinish
    BY <2>54, <1>i, <1>k DEF ChecksFinish, session
  <2>55. CASE AutoMerges
    BY <2>55, <1>i, <1>k DEF AutoMerges, session
  <2>56. CASE PersonSettles
    BY <2>56, <1>i, <1>k DEF PersonSettles, session
  <2>57. CASE UNCHANGED taskVars
    BY <2>57, <1>i, <1>k DEF taskVars, durable, repository, session, bounds, approvalVars
  <2> QED
    BY <2>1, <2>2, <2>3, <2>4, <2>5, <2>6, <2>7, <2>8, <2>9, <2>10, <2>11, <2>12, <2>13,
       <2>14, <2>15, <2>16, <2>17, <2>18, <2>19, <2>20, <2>21, <2>22, <2>23, <2>24, <2>25,
       <2>26, <2>27, <2>28, <2>29, <2>30, <2>31, <2>32, <2>33, <2>34, <2>35, <2>36, <2>37,
       <2>38, <2>39, <2>40, <2>41, <2>42, <2>43, <2>44, <2>45, <2>46, <2>47, <2>48, <2>49,
       <2>50, <2>51, <2>52, <2>53, <2>54, <2>55, <2>56, <2>57 DEF Next, DriverStep,
       ImplementerStep, CloseoutStep, GitHub

<1> QED BY <1>c, <1>m DEF GateInv, At

\* Nothing was asked at the start.
LEMMA ApprovalInitially == Init => ApprovalInv /\ GateInv /\ LocalInv
<1> SUFFICES ASSUME Init PROVE ApprovalInv /\ GateInv /\ LocalInv
  OBVIOUS
<1>1. approvals = <<>> /\ overdue = FALSE /\ deciding = [d \in Deciders |-> NotDeciding]
  BY DEF Init, ApprovalInit
<1>2. Len(approvals) = 0 /\ approvals \in Seq(ApprovalRequests \cup ApprovalEvents)
  BY <1>1
<1>3. ApprovalInv
  <2>1. IsApproval(approvals)
    BY <1>1, <1>2 DEF IsApproval
  <2>2. SilenceConsents
    BY <1>2 DEF SilenceConsents
  <2>3. deciding \in [Deciders -> Decisions \cup {NotDeciding}]
        /\ \A d \in Deciders : deciding[d] = NotDeciding
    BY <1>1
  <2> QED BY <1>1, <2>1, <2>2, <2>3 DEF ApprovalInv
<1>4. GateInv
  BY <1>2 DEF GateInv, At, Init, SessionInit
<1>5. LocalInv
  BY NoLocalsFacts DEF Init, LocalInv
<1> QED BY <1>3, <1>4, <1>5

-----------------------------------------------------------------------------
(* All of it together. *)

BaseInv ==
    /\ HistoryInv /\ AttemptInv /\ WorldInv
    /\ LocalInv /\ ApprovalInv /\ GateInv

\* All of it holds at the start.
LEMMA BaseInit == Init => BaseInv
BY HistoryInit, AttemptInit, WorldInit, ApprovalInitially DEF BaseInv

\* Every step keeps all of it.
LEMMA BaseStepKeeps == BaseInv /\ [Next]_taskVars => BaseInv'
BY HistoryStepKeeps, AttemptStepKeeps, WorldStepKeeps, LocalStepKeeps, ApprovalStepKeeps,
   GateStepKeeps DEF BaseInv

\* The record's files, the repository, the approval and the session keep to their types.
THEOREM TypesHold == Spec => []TypeOK
<1>1. ASSUME BaseInv PROVE TypeOK
  <2>1. /\ authorized \in BOOLEAN /\ transitions \in Seq(Transition)
        /\ attempts \in [Counters -> [started : SUBSET Nat, completed : SUBSET Nat]]
        /\ tree \in Trees /\ mode \in {"none", "implementer", "closeout"}
        /\ machine \in WorkflowState \ TERMINAL_STATES
        /\ overdue \in BOOLEAN /\ deciding \in [Deciders -> Decisions \cup {NotDeciding}]
        /\ crashes \in 0 .. MaxCrashes /\ meddling \in 0 .. MaxMeddling
    BY <1>1 DEF BaseInv, HistoryInv, AttemptInv, WorldInv, ApprovalInv
  <2>2. git \in [planned : BOOLEAN, commits : Seq(Contents \cup {Base}),
                 current : {"baseline", "stage"}, baseline : {"bound", "moved", "merged"},
                 contract : {"bound", "changed"}]
    BY <1>1 DEF BaseInv, WorldInv, Git, Trees
  <2>3. ASSUME NEW i \in 1 .. Len(approvals), i > 1
        PROVE  approvals[i].kind = "EXTENDED" \/ approvals[i].status \in ApprovalStatus
    <3>1. i \in 2 .. Len(approvals)
      BY <1>1, <2>3 DEF BaseInv, ApprovalInv, IsApproval
    <3>2. approvals[i] \in ApprovalEvents
      BY <1>1, <3>1 DEF BaseInv, ApprovalInv, IsApproval
    <3>3. Statuses \subseteq ApprovalStatus
      BY DEF Statuses, ApprovalStatus, TERMINAL_STATUSES, TIMEOUT_ELIGIBLE
    <3> QED BY <3>2, <3>3, EventFacts
  <2>4. /\ reports.stage \subseteq 0 .. RepairLimit /\ reports.failure \subseteq 1 .. RepairLimit
        /\ DOMAIN reports.qa \subseteq 1 .. RepairLimit + 1
    <3>1. reports \in Reports
      BY <1>1 DEF BaseInv, WorldInv
    <3>2. reports.qa \in QaReports
      BY <3>1 DEF Reports
    <3>3. PICK D \in SUBSET (1 .. RepairLimit + 1) : reports.qa \in [D -> Verdicts]
      BY <3>2 DEF QaReports
    <3> QED BY <3>1, <3>3 DEF Reports
  <2>5. remote.pr \in {"none", "open", "closed", "merged"}
    BY <1>1 DEF BaseInv, WorldInv, Remote
  <2>6. local.checksums \in Checksums /\ local.polls \in 0 .. MaxObservations - 1
    BY <1>1 DEF BaseInv, LocalInv, LocalRecords
  <2> QED BY <2>1, <2>2, <2>3, <2>4, <2>5, <2>6 DEF TypeOK
<1> QED BY <1>1, BaseInit, BaseStepKeeps, PTL DEF Spec

-----------------------------------------------------------------------------
(* Automatic merging and the last review. *)

\* The statuses in which a pull request of the task may be armed.
Offered == {"PR_OPEN", "AUTO_MERGE_ENABLED", "WAITING_FOR_CHECKS", "MERGED", "CLOSING", "DONE",
            "FAILED"}
ArmedInv ==
    /\ remote.auto => State \in Offered
    /\ ArmedIsReviewed

\* A status moves along the table or stays.
LEMMA StatusStep ==
    ASSUME HistoryInv, [Next]_taskVars
    PROVE  State' = State \/ EdgeTable(State, State')
BY HistoryStep, RecordsFacts, DriftFacts DEF Rests, State

\* An offered task stays offered, or is over.
LEMMA OfferedStays ==
    ASSUME HistoryInv, [Next]_taskVars, State \in Offered
    PROVE  State' \in Offered
BY StatusStep DEF Offered, EdgeTable, TERMINAL_STATES, CANCELLABLE

\* A running driver's machine is the task's status.
LEMMA MachineIsStatus == HistoryInv /\ mode # "none" => machine = State
BY DEF HistoryInv, HistoryIsSound

\* A QA report is written only while the task is under QA.
LEMMA ReviewStep ==
    ASSUME HistoryInv, WorldInv, [Next]_taskVars
    PROVE  reports'.qa = reports.qa \/ State = "QA_RUNNING"
<1>a. reports \in Reports
  BY DEF WorldInv
<1>m. mode # "none" => machine = State
  BY MachineIsStatus

<1>1. CASE Start
  BY <1>1, <1>a DEF Start, StartSession
<1>2. CASE Implement
  BY <1>2, <1>a DEF Implement, Unaffected
<1>3. CASE CloseOut
  BY <1>3, <1>a DEF CloseOut, Unaffected
<1>4. CASE DriftOnResume
  BY <1>4, <1>a DEF DriftOnResume, Unaffected
<1>5. CASE Authorize
  BY <1>5, <1>a DEF Authorize
<1>6. CASE CheckPreconditions
  BY <1>6, <1>a DEF CheckPreconditions, records
<1>7. CASE CreateStageBranch
  BY <1>7, <1>a DEF CreateStageBranch, records
<1>8. CASE CheckoutStageBranch
  BY <1>8, <1>a DEF CheckoutStageBranch, records
<1>9. CASE BranchReady
  BY <1>9, <1>a DEF BranchReady, records
<1>10. CASE HandOff
  BY <1>10, <1>a DEF HandOff, records
<1>11. CASE ReconcileImplementation
  BY <1>11, <1>a DEF ReconcileImplementation
<1>12. CASE JudgeReconciled
  BY <1>12, <1>a DEF JudgeReconciled, records
<1>13. CASE AbandonRepair
  BY <1>13, <1>a DEF AbandonRepair, records
<1>14. CASE StartAttempt
  BY <1>14, <1>a DEF StartAttempt
<1>15. CASE RunProvider
  BY <1>15, <1>a DEF RunProvider, records
<1>16. CASE CompleteAttempt
  BY <1>16, <1>a DEF CompleteAttempt
<1>17. CASE WriteStageReport
  BY <1>17, <1>a DEF WriteStageReport, Reports
<1>18. CASE AttemptFailed
  BY <1>18, <1>a DEF AttemptFailed, records
<1>19. CASE Validate
  BY <1>19, <1>a DEF Validate, EnterRepairOrFail, Reports
<1>20. CASE RunQa
  BY <1>20, <1>a, <1>m DEF RunQa, At
<1>21. CASE JudgeQa
  BY <1>21, <1>a DEF JudgeQa, EnterRepairOrFail, Reports
<1>22. CASE BeginRepair
  BY <1>22, <1>a DEF BeginRepair, records
<1>23. CASE GateChecksums
  BY <1>23, <1>a DEF GateChecksums, records
<1>24. CASE GateRequests
  BY <1>24, <1>a DEF GateRequests, records
<1>25. CASE GateEvaluates
  BY <1>25, <1>a DEF GateEvaluates, records
<1>26. CASE GateCompares
  BY <1>26, <1>a DEF GateCompares, records
<1>27. CASE GateSpends
  BY <1>27, <1>a DEF GateSpends, records
<1>28. CASE GateInvalidates
  BY <1>28, <1>a DEF GateInvalidates, records
<1>29. CASE StartEffect
  BY <1>29, <1>a DEF StartEffect
<1>30. CASE create_commit
  BY <1>30, <1>a DEF create_commit, Sees, records
<1>31. CASE push_stage_branch
  BY <1>31, <1>a DEF push_stage_branch, Sees, records
<1>32. CASE create_pull_request
  BY <1>32, <1>a DEF create_pull_request, Sees, records
<1>33. CASE CompleteEffect
  BY <1>33, <1>a DEF CompleteEffect
<1>34. CASE Forward
  BY <1>34, <1>a DEF Forward, records
<1>35. CASE Surrender
  BY <1>35, <1>a DEF Surrender, records
<1>36. CASE RunEnds
  BY <1>36, <1>a DEF RunEnds, records
<1>37. CASE EnableAutoMerge
  BY <1>37, <1>a DEF EnableAutoMerge, records
<1>38. CASE AutoMergeEnabled
  BY <1>38, <1>a DEF AutoMergeEnabled, records
<1>39. CASE ObserveAutoMerge
  BY <1>39, <1>a DEF ObserveAutoMerge, records
<1>40. CASE WaitMore
  BY <1>40, <1>a DEF WaitMore, records
<1>41. CASE ObserveMerge
  BY <1>41, <1>a DEF ObserveMerge, records
<1>42. CASE ObservationRefused
  BY <1>42, <1>a DEF ObservationRefused, records
<1>43. CASE HandOffToCloseout
  BY <1>43, <1>a DEF HandOffToCloseout, records
<1>44. CASE AlreadyClosed
  BY <1>44, <1>a DEF AlreadyClosed, records
<1>45. CASE CheckoutBaseline
  BY <1>45, <1>a DEF CheckoutBaseline, records
<1>46. CASE FastForwardPull
  BY <1>46, <1>a DEF FastForwardPull, records
<1>47. CASE DeleteBothBranches
  BY <1>47, <1>a DEF DeleteBothBranches, records
<1>48. CASE WriteCloseoutReport
  BY <1>48, <1>a DEF WriteCloseoutReport, Reports
<1>49. CASE ClosedOut
  BY <1>49, <1>a DEF ClosedOut, records
<1>50. CASE Abort
  BY <1>50, <1>a DEF Abort
<1>51. CASE Die
  BY <1>51, <1>a DEF Die, Unaffected
<1>52. CASE Meddle
  BY <1>52, <1>a DEF Meddle, Unaffected
<1>53. CASE Others
  BY <1>53, <1>a DEF Others
<1>54. CASE ChecksFinish
  BY <1>54, <1>a DEF ChecksFinish
<1>55. CASE AutoMerges
  BY <1>55, <1>a DEF AutoMerges
<1>56. CASE PersonSettles
  BY <1>56, <1>a DEF PersonSettles
<1>57. CASE UNCHANGED taskVars
  BY <1>57, <1>a DEF taskVars, durable, repository, session, bounds, approvalVars
<1> QED
  BY <1>1, <1>2, <1>3, <1>4, <1>5, <1>6, <1>7, <1>8, <1>9, <1>10, <1>11, <1>12, <1>13,
     <1>14, <1>15, <1>16, <1>17, <1>18, <1>19, <1>20, <1>21, <1>22, <1>23, <1>24, <1>25,
     <1>26, <1>27, <1>28, <1>29, <1>30, <1>31, <1>32, <1>33, <1>34, <1>35, <1>36, <1>37,
     <1>38, <1>39, <1>40, <1>41, <1>42, <1>43, <1>44, <1>45, <1>46, <1>47, <1>48, <1>49,
     <1>50, <1>51, <1>52, <1>53, <1>54, <1>55, <1>56, <1>57 DEF Next, DriverStep,
     ImplementerStep, CloseoutStep, GitHub

\* Automatic merging is asked for by the close-out of a reviewed change only.
LEMMA ArmStep ==
    ASSUME HistoryInv, WorldInv, [Next]_taskVars
    PROVE  \/ remote'.auto => remote.auto
           \/ State = "PR_OPEN" /\ MergeEligible /\ UNCHANGED reports /\ State' = State
<1>a. remote \in Remote
  BY DEF WorldInv
<1>m. mode # "none" => machine = State
  BY MachineIsStatus

<1>1. CASE Start
  BY <1>1, <1>a DEF Start, StartSession, repository, bounds
<1>2. CASE Implement
  BY <1>2, <1>a DEF Implement, ResumeImplementer, Unaffected, CanResume, durable,
     repository, bounds, Resumable
<1>3. CASE CloseOut
  BY <1>3, <1>a DEF CloseOut, ResumeCloseout, Unaffected, CanResume, durable, repository,
     bounds, Resumable
<1>4. CASE DriftOnResume
  BY <1>4, <1>a DEF DriftOnResume, ResumeDrifts, Unaffected, Resumable, repository, session,
     bounds
<1>5. CASE Authorize
  BY <1>5, <1>a DEF Authorize, RecordAuthorization, repository, bounds
<1>6. CASE CheckPreconditions
  BY <1>6, <1>a DEF CheckPreconditions, records, world, bounds, repository
<1>7. CASE CreateStageBranch
  BY <1>7, <1>a DEF CreateStageBranch, records, bounds
<1>8. CASE CheckoutStageBranch
  BY <1>8, <1>a DEF CheckoutStageBranch, records, bounds
<1>9. CASE BranchReady
  BY <1>9, <1>a DEF BranchReady, records, world, bounds, repository
<1>10. CASE HandOff
  BY <1>10, <1>a DEF HandOff, records, world, bounds, repository
<1>11. CASE ReconcileImplementation
  BY <1>11, <1>a DEF ReconcileImplementation, world, bounds, repository
<1>12. CASE JudgeReconciled
  BY <1>12, <1>a DEF JudgeReconciled, records, world, bounds, repository
<1>13. CASE AbandonRepair
  BY <1>13, <1>a DEF AbandonRepair, records, world, bounds, repository
<1>14. CASE StartAttempt
  BY <1>14, <1>a DEF StartAttempt, world, bounds, repository
<1>15. CASE RunProvider
  BY <1>15, <1>a DEF RunProvider, records, bounds
<1>16. CASE CompleteAttempt
  BY <1>16, <1>a DEF CompleteAttempt, world, bounds, repository
<1>17. CASE WriteStageReport
  BY <1>17, <1>a DEF WriteStageReport, world, bounds, repository
<1>18. CASE AttemptFailed
  BY <1>18, <1>a DEF AttemptFailed, records, world, bounds, repository
<1>19. CASE Validate
  BY <1>19, <1>a DEF Validate, world, bounds, repository
<1>20. CASE RunQa
  BY <1>20, <1>a DEF RunQa, world, bounds, repository
<1>21. CASE JudgeQa
  BY <1>21, <1>a DEF JudgeQa, world, bounds, repository
<1>22. CASE BeginRepair
  BY <1>22, <1>a DEF BeginRepair, records, world, bounds, repository
<1>23. CASE GateChecksums
  BY <1>23, <1>a DEF GateChecksums, records, world, bounds, repository
<1>24. CASE GateRequests
  BY <1>24, <1>a DEF GateRequests, records, world, bounds, repository
<1>25. CASE GateEvaluates
  BY <1>25, <1>a DEF GateEvaluates, records, world, bounds, repository
<1>26. CASE GateCompares
  BY <1>26, <1>a DEF GateCompares, records, world, bounds, repository
<1>27. CASE GateSpends
  BY <1>27, <1>a DEF GateSpends, records, world, bounds, repository
<1>28. CASE GateInvalidates
  BY <1>28, <1>a DEF GateInvalidates, records, world, bounds, repository
<1>29. CASE StartEffect
  BY <1>29, <1>a DEF StartEffect, world, bounds, repository
<1>30. CASE create_commit
  BY <1>30, <1>a DEF create_commit, Sees, records, bounds
<1>31. CASE push_stage_branch
  BY <1>31, <1>a DEF push_stage_branch, Sees, repository, records, bounds, Remote
<1>32. CASE create_pull_request
  BY <1>32, <1>a DEF create_pull_request, Sees, repository, records, bounds, Remote
<1>33. CASE CompleteEffect
  BY <1>33, <1>a DEF CompleteEffect, world, bounds, repository
<1>34. CASE Forward
  BY <1>34, <1>a DEF Forward, records, world, bounds, repository
<1>35. CASE Surrender
  BY <1>35, <1>a DEF Surrender, records, world, bounds, repository
<1>36. CASE RunEnds
  BY <1>36, <1>a DEF RunEnds, records, world, bounds, repository
<1>37. CASE EnableAutoMerge
  BY <1>37, <1>a, <1>m DEF EnableAutoMerge, EnableAutomaticSquashMerge, records, repository,
     bounds, Closing, Remote, Continue, State
<1>38. CASE AutoMergeEnabled
  BY <1>38, <1>a DEF AutoMergeEnabled, records, world, bounds, repository
<1>39. CASE ObserveAutoMerge
  BY <1>39, <1>a DEF ObserveAutoMerge, records, world, bounds, repository
<1>40. CASE WaitMore
  BY <1>40, <1>a DEF WaitMore, session, records, world, bounds, repository
<1>41. CASE ObserveMerge
  BY <1>41, <1>a DEF ObserveMerge, records, world, bounds, repository
<1>42. CASE ObservationRefused
  BY <1>42, <1>a DEF ObservationRefused, records, world, bounds, repository
<1>43. CASE HandOffToCloseout
  BY <1>43, <1>a DEF HandOffToCloseout, records, world, bounds, repository
<1>44. CASE AlreadyClosed
  BY <1>44, <1>a DEF AlreadyClosed, records, world, bounds, repository
<1>45. CASE CheckoutBaseline
  BY <1>45, <1>a DEF CheckoutBaseline, repository, records, bounds
<1>46. CASE FastForwardPull
  BY <1>46, <1>a DEF FastForwardPull, records, bounds
<1>47. CASE DeleteBothBranches
  BY <1>47, <1>a DEF DeleteBothBranches, records, bounds, Remote
<1>48. CASE WriteCloseoutReport
  BY <1>48, <1>a DEF WriteCloseoutReport, world, bounds, repository
<1>49. CASE ClosedOut
  BY <1>49, <1>a DEF ClosedOut, records, world, bounds, repository
<1>50. CASE Abort
  BY <1>50, <1>a DEF Abort, Cancel, repository, bounds
<1>51. CASE Die
  BY <1>51, <1>a DEF Die, Crash, Unaffected, durable, repository
<1>52. CASE Meddle
  BY <1>52, <1>a DEF Meddle, EditTree, MoveBinding, Unaffected, durable, session
<1>53. CASE Others
  BY <1>53, <1>a DEF Others, durable, repository, session, bounds
<1>54. CASE ChecksFinish
  BY <1>54, <1>a DEF ChecksFinish, durable, repository, session, bounds, Remote
<1>55. CASE AutoMerges
  BY <1>55, <1>a DEF AutoMerges, durable, repository, session, bounds, Remote
<1>56. CASE PersonSettles
  BY <1>56, <1>a DEF PersonSettles, durable, repository, session, Remote
<1>57. CASE UNCHANGED taskVars
  BY <1>57, <1>a DEF taskVars, durable, repository, session, bounds, approvalVars
<1> QED
  BY <1>1, <1>2, <1>3, <1>4, <1>5, <1>6, <1>7, <1>8, <1>9, <1>10, <1>11, <1>12, <1>13,
     <1>14, <1>15, <1>16, <1>17, <1>18, <1>19, <1>20, <1>21, <1>22, <1>23, <1>24, <1>25,
     <1>26, <1>27, <1>28, <1>29, <1>30, <1>31, <1>32, <1>33, <1>34, <1>35, <1>36, <1>37,
     <1>38, <1>39, <1>40, <1>41, <1>42, <1>43, <1>44, <1>45, <1>46, <1>47, <1>48, <1>49,
     <1>50, <1>51, <1>52, <1>53, <1>54, <1>55, <1>56, <1>57 DEF Next, DriverStep,
     ImplementerStep, CloseoutStep, GitHub

\* Every step keeps what is armed reviewed.
LEMMA ArmedStepKeeps == BaseInv /\ ArmedInv /\ [Next]_taskVars => ArmedInv'
<1> SUFFICES ASSUME BaseInv, ArmedInv, [Next]_taskVars PROVE ArmedInv'
  OBVIOUS
<1>b. HistoryInv /\ WorldInv
  BY DEF BaseInv
<1>1. CASE ~ remote'.auto
  BY <1>1 DEF ArmedInv, ArmedIsReviewed
<1>2. CASE remote'.auto /\ remote.auto
  <2>1. State \in Offered /\ State' \in Offered
    BY <1>2, <1>b, OfferedStays DEF ArmedInv
  <2>2. reports'.qa = reports.qa
    BY <1>b, <2>1, ReviewStep DEF Offered
  <2> QED BY <1>2, <2>1, <2>2 DEF ArmedInv, ArmedIsReviewed
<1>3. CASE remote'.auto /\ ~ remote.auto
  <2>1. State = "PR_OPEN" /\ MergeEligible /\ reports' = reports /\ State' = State
    BY <1>3, <1>b, ArmStep
  <2>2. reports.qa \in QaReports
    BY <1>b DEF WorldInv, Reports
  <2>3. PICK D \in SUBSET (1 .. RepairLimit + 1) : reports.qa \in [D -> Verdicts]
    BY <2>2 DEF QaReports
  <2>4. DOMAIN reports.qa \subseteq Nat
    <3>1. DOMAIN reports.qa = D
      BY <2>3
    <3>2. 1 .. RepairLimit + 1 \subseteq Nat
      BY LimitAssumption
    <3> QED BY <3>1, <3>2
  <2>5. ASSUME NEW r \in DOMAIN reports.qa, \A q \in DOMAIN reports.qa : q <= r
        PROVE  reports.qa[r] = "approved"
    <3>1. PICK last \in DOMAIN reports.qa :
              (\A q \in DOMAIN reports.qa : q <= last) /\ reports.qa[last] = "approved"
      BY <2>1, <2>5 DEF MergeEligible
    <3>2. last <= r /\ r <= last /\ last \in Nat /\ r \in Nat
      BY <2>4, <2>5, <3>1
    <3>3. last = r
      BY <3>2
    <3> QED BY <3>1, <3>3
  <2>6. State' \in Offered
    BY <2>1 DEF Offered
  <2> QED BY <2>1, <2>5, <2>6 DEF ArmedInv, ArmedIsReviewed
<1> QED BY <1>1, <1>2, <1>3

\* Automatic merging is asked for only a change its last review approved, for as long as it is
\* asked for.
THEOREM ArmedAlwaysReviewed == Spec => []ArmedIsReviewed
<1>1. Init => ArmedInv
  BY DEF Init, ArmedInv, ArmedIsReviewed
<1>2. ArmedInv => ArmedIsReviewed
  BY DEF ArmedInv
<1> QED BY <1>1, <1>2, BaseInit, BaseStepKeeps, ArmedStepKeeps, PTL DEF Spec

-----------------------------------------------------------------------------
(* Where a task can be: the edges its drivers take, and what they wait for. *)

\* A driver's record moves the task along the edge.
LEMMA TransitionFacts ==
    ASSUME HistoryInv, NEW to, NEW actor \in Actors, mode # "none", TransitionTo(to, actor)
    PROVE  State' = to /\ machine = State /\ EdgeTable(State, to)
<1>1. machine = State
  BY MachineIsStatus
<1>2. /\ validate_transition(State, to) /\ validate_actor_for_transition(State, to, actor)
      /\ RecordTransition(State, to, actor)
  BY <1>1 DEF TransitionTo
<1> QED BY <1>1, <1>2, RecordFacts, EdgeFacts DEF HistoryInv, HistoryIsSound

\* The states in which the stage branch is checked out, and those past the approval's request.
Staged == {"BRANCH_CREATED", "IMPLEMENTING", "VALIDATING", "REPAIRING", "QA_RUNNING",
           "READY_TO_COMMIT"}
Gated == {"READY_TO_COMMIT", "COMMITTED", "PUSHED", "PR_OPEN", "AUTO_MERGE_ENABLED",
          "WAITING_FOR_CHECKS", "MERGED", "CLOSING", "DONE", "FAILED"}

ForwardInv == mode = "implementer" /\ pc = "forward" => machine \in Counters
BranchInv ==
    /\ At("PRECONDITIONS_CHECKED", "checked_out") => git.current = "stage"
    /\ State \in Staged => git.current = "stage"
AskedInv == approvals # <<>> => State \in Gated

StageInv == ForwardInv /\ BranchInv /\ AskedInv

\* Only a handler with a counter ends by going forward.
LEMMA ForwardStepKeeps == ASSUME ForwardInv, [Next]_taskVars PROVE ForwardInv'
<1>c. EDITING_STATES \subseteq Counters /\ EFFECT_STATES \subseteq Counters
  BY CounterNames
<1>k. (Raised => mode' = "none") /\ (Fail => mode' = "none" \/ pc' = "step")
      /\ \A to : Advance(to) => mode' = "none" \/ pc' = "step"
  BY DEF Raised, SessionEnds, Fail, Advance, TransitionTo

<1>1. CASE Start
  BY <1>1, <1>k DEF Start, StartSession, ForwardInv
<1>2. CASE Implement
  BY <1>2, <1>k DEF Implement, ResumeImplementer, Unaffected, ForwardInv
<1>3. CASE CloseOut
  BY <1>3, <1>k DEF CloseOut, ResumeCloseout, Unaffected, ForwardInv
<1>4. CASE DriftOnResume
  BY <1>4, <1>k DEF DriftOnResume, Unaffected, ForwardInv, ResumeDrifts, session
<1>5. CASE Authorize
  BY <1>5, <1>k DEF Authorize, RecordAuthorization, At, ForwardInv, TransitionTo,
     SessionEnds
<1>6. CASE CheckPreconditions
  BY <1>6, <1>k DEF CheckPreconditions, At, ForwardInv
<1>7. CASE CreateStageBranch
  BY <1>7, <1>k DEF CreateStageBranch, At, Continue, Goto, ForwardInv
<1>8. CASE CheckoutStageBranch
  BY <1>8, <1>k DEF CheckoutStageBranch, At, Continue, Goto, ForwardInv
<1>9. CASE BranchReady
  BY <1>9, <1>k DEF BranchReady, At, ForwardInv
<1>10. CASE HandOff
  BY <1>10, <1>k DEF HandOff, At, ForwardInv
<1>11. CASE ReconcileImplementation
  BY <1>11, <1>k DEF ReconcileImplementation, At, Continue, Goto, ForwardInv
<1>12. CASE JudgeReconciled
  BY <1>12, <1>k DEF JudgeReconciled, At, Continue, Goto, ForwardInv
<1>13. CASE AbandonRepair
  BY <1>13, <1>k DEF AbandonRepair, At, ForwardInv
<1>14. CASE StartAttempt
  BY <1>14, <1>k DEF StartAttempt, Continue, Goto, ForwardInv
<1>15. CASE RunProvider
  BY <1>15, <1>k DEF RunProvider, Goto, ForwardInv
<1>16. CASE CompleteAttempt
  BY <1>16, <1>k DEF CompleteAttempt, Continue, Goto, ForwardInv
<1>17. CASE WriteStageReport
  BY <1>17, <1>k, <1>c DEF WriteStageReport, Continue, Goto, ForwardInv
<1>18. CASE AttemptFailed
  BY <1>18, <1>k DEF AttemptFailed, Continue, Goto, ForwardInv
<1>19. CASE Validate
  BY <1>19, <1>k DEF Validate, At, EnterRepairOrFail, Continue, Goto, ForwardInv
<1>20. CASE RunQa
  BY <1>20, <1>k DEF RunQa, At, Continue, Goto, ForwardInv
<1>21. CASE JudgeQa
  BY <1>21, <1>k DEF JudgeQa, At, EnterRepairOrFail, Continue, Goto, ForwardInv
<1>22. CASE BeginRepair
  BY <1>22, <1>k DEF BeginRepair, ForwardInv
<1>23. CASE GateChecksums
  BY <1>23, <1>k DEF GateChecksums, At, Goto, ForwardInv
<1>24. CASE GateRequests
  BY <1>24, <1>k DEF GateRequests, At, Continue, Goto, ForwardInv
<1>25. CASE GateEvaluates
  BY <1>25, <1>k DEF GateEvaluates, At, GateDecides, Continue, Goto, ForwardInv
<1>26. CASE GateCompares
  BY <1>26, <1>k DEF GateCompares, At, Continue, Goto, ForwardInv
<1>27. CASE GateSpends
  BY <1>27, <1>k DEF GateSpends, At, Continue, Goto, ForwardInv
<1>28. CASE GateInvalidates
  BY <1>28, <1>k DEF GateInvalidates, At, Continue, Goto, ForwardInv
<1>29. CASE StartEffect
  BY <1>29, <1>k DEF StartEffect, InEffect, Continue, Goto, ForwardInv
<1>30. CASE create_commit
  BY <1>30, <1>k DEF create_commit, InEffect, Sees, Goto, ForwardInv
<1>31. CASE push_stage_branch
  BY <1>31, <1>k DEF push_stage_branch, InEffect, Sees, Goto, ForwardInv
<1>32. CASE create_pull_request
  BY <1>32, <1>k DEF create_pull_request, InEffect, Sees, Goto, ForwardInv
<1>33. CASE CompleteEffect
  BY <1>33, <1>k, <1>c DEF CompleteEffect, InEffect, Continue, Goto, ForwardInv
<1>34. CASE Forward
  BY <1>34, <1>k DEF Forward, ForwardInv
<1>35. CASE Surrender
  BY <1>35, <1>k DEF Surrender, ForwardInv
<1>36. CASE RunEnds
  BY <1>36, <1>k DEF RunEnds, ForwardInv
<1>37. CASE EnableAutoMerge
  BY <1>37, <1>k DEF EnableAutoMerge, Closing, Continue, Goto, ForwardInv
<1>38. CASE AutoMergeEnabled
  BY <1>38, <1>k DEF AutoMergeEnabled, Closing, ForwardInv
<1>39. CASE ObserveAutoMerge
  BY <1>39, <1>k DEF ObserveAutoMerge, Closing, ForwardInv
<1>40. CASE WaitMore
  BY <1>40, <1>k DEF WaitMore, Closing, session, ForwardInv
<1>41. CASE ObserveMerge
  BY <1>41, <1>k DEF ObserveMerge, Closing, ForwardInv
<1>42. CASE ObservationRefused
  BY <1>42, <1>k DEF ObservationRefused, Closing, ForwardInv
<1>43. CASE HandOffToCloseout
  BY <1>43, <1>k DEF HandOffToCloseout, Closing, ForwardInv
<1>44. CASE AlreadyClosed
  BY <1>44, <1>k DEF AlreadyClosed, Closing, ForwardInv
<1>45. CASE CheckoutBaseline
  BY <1>45, <1>k DEF CheckoutBaseline, Closing, Continue, Goto, ForwardInv
<1>46. CASE FastForwardPull
  BY <1>46, <1>k DEF FastForwardPull, Closing, Continue, Goto, ForwardInv
<1>47. CASE DeleteBothBranches
  BY <1>47, <1>k DEF DeleteBothBranches, Closing, Continue, Goto, ForwardInv
<1>48. CASE WriteCloseoutReport
  BY <1>48, <1>k DEF WriteCloseoutReport, Closing, Continue, Goto, ForwardInv
<1>49. CASE ClosedOut
  BY <1>49, <1>k DEF ClosedOut, Closing, ForwardInv
<1>50. CASE Abort
  BY <1>50, <1>k DEF Abort, Cancel, ForwardInv, TransitionTo, SessionEnds
<1>51. CASE Die
  BY <1>51, <1>k DEF Die, Crash, Unaffected, ForwardInv, SessionEnds
<1>52. CASE Meddle
  BY <1>52, <1>k DEF Meddle, Unaffected, ForwardInv, EditTree, MoveBinding, session
<1>53. CASE Others
  BY <1>53, <1>k DEF Others, session, ForwardInv
<1>54. CASE ChecksFinish
  BY <1>54, <1>k DEF ChecksFinish, session, ForwardInv
<1>55. CASE AutoMerges
  BY <1>55, <1>k DEF AutoMerges, session, ForwardInv
<1>56. CASE PersonSettles
  BY <1>56, <1>k DEF PersonSettles, session, ForwardInv
<1>57. CASE UNCHANGED taskVars
  BY <1>57, <1>k DEF taskVars, durable, repository, session, bounds, approvalVars,
     ForwardInv
<1> QED
  BY <1>1, <1>2, <1>3, <1>4, <1>5, <1>6, <1>7, <1>8, <1>9, <1>10, <1>11, <1>12, <1>13,
     <1>14, <1>15, <1>16, <1>17, <1>18, <1>19, <1>20, <1>21, <1>22, <1>23, <1>24, <1>25,
     <1>26, <1>27, <1>28, <1>29, <1>30, <1>31, <1>32, <1>33, <1>34, <1>35, <1>36, <1>37,
     <1>38, <1>39, <1>40, <1>41, <1>42, <1>43, <1>44, <1>45, <1>46, <1>47, <1>48, <1>49,
     <1>50, <1>51, <1>52, <1>53, <1>54, <1>55, <1>56, <1>57 DEF Next, DriverStep,
     ImplementerStep, CloseoutStep, GitHub

\* The edge a step takes, and what its handler had seen.
Moves ==
    \/ State' \in {"FAILED", "CANCELLED", "AUTHORIZED", "PRECONDITIONS_CHECKED", "IMPLEMENTING",
                   "VALIDATING", "REPAIRING", "READY_TO_COMMIT", "WAITING_FOR_CHECKS", "CLOSING"}
    \/ State' = "BRANCH_CREATED" /\ At("PRECONDITIONS_CHECKED", "checked_out")
    \/ State' = "QA_RUNNING" /\ tree \in Valid
    \/ State' = "COMMITTED" /\ At("READY_TO_COMMIT", "forward")
    \/ State' = "PUSHED" /\ At("COMMITTED", "forward")
    \/ State' = "PR_OPEN" /\ At("PUSHED", "forward")
    \/ /\ State' = "AUTO_MERGE_ENABLED"
       /\ remote.pr = "merged" \/ Closing("PR_OPEN", "auto_enabled")
    \/ State' = "MERGED" /\ remote.pr = "merged"
    \/ State' = "DONE" /\ (reports.closeout \/ Closing("CLOSING", "closed_out"))

\* A step that moves the task leaves the world as it is, and the approval too, unless the gate
\* fails the task for what the approval has become.
LEMMA MoveStep ==
    ASSUME HistoryInv, ForwardInv, [Next]_taskVars
    PROVE  \/ State' = State
           \/ /\ Moves /\ EdgeTable(State, State')
              /\ UNCHANGED <<git, tree, remote, crashes, meddling>>
              /\ approvals' = approvals \/ State' = "FAILED"
<1>e. State' = State \/ EdgeTable(State, State')
  BY StatusStep
<1>t. \A to : mode # "none" /\ (TransitionTo(to, "orchestrator") \/ TransitionTo(to, "human")) =>
                  State' = to
  BY TransitionFacts DEF Actors
<1>u. transitions' = transitions => State' = State
  BY DEF State
<1>m. mode # "none" => machine = State
  BY MachineIsStatus
<1>d. SUFFICES ASSUME State' # State
               PROVE  /\ Moves /\ UNCHANGED <<git, tree, remote, crashes, meddling>>
                      /\ approvals' = approvals \/ State' = "FAILED"
  BY <1>e

<1>1. CASE Start
  BY <1>1, <1>d, <1>t, <1>u, <1>m DEF Start, StartSession, approvalVars, repository, bounds,
     Moves
<1>2. CASE Implement
  BY <1>2, <1>d, <1>t, <1>u, <1>m DEF Implement, ResumeImplementer, Unaffected, durable,
     repository, bounds, approvalVars, Moves
<1>3. CASE CloseOut
  BY <1>3, <1>d, <1>t, <1>u, <1>m DEF CloseOut, ResumeCloseout, Unaffected, durable,
     repository, bounds, approvalVars, Moves
<1>4. CASE DriftOnResume
  BY <1>4, <1>d, <1>t, <1>u, <1>m, DriftFacts DEF DriftOnResume, Unaffected, approvalVars,
     Moves, ResumeDrifts, repository, bounds
<1>5. CASE Authorize
  BY <1>5, <1>d, <1>t, <1>u, <1>m DEF Authorize, RecordAuthorization, approvalVars, At,
     repository, bounds, Moves
<1>6. CASE CheckPreconditions
  BY <1>6, <1>d, <1>t, <1>u, <1>m DEF CheckPreconditions, At, Advance, Fail, records, world,
     bounds, approvalVars, repository, Moves
<1>7. CASE CreateStageBranch
  BY <1>7, <1>d, <1>t, <1>u, <1>m DEF CreateStageBranch, At, Continue, Fail, records,
     bounds, approvalVars, Moves
<1>8. CASE CheckoutStageBranch
  BY <1>8, <1>d, <1>t, <1>u, <1>m DEF CheckoutStageBranch, At, Continue, Fail, records,
     bounds, approvalVars, Moves
<1>9. CASE BranchReady
  BY <1>9, <1>d, <1>t, <1>u, <1>m DEF BranchReady, At, Advance, records, world, bounds,
     approvalVars, repository, Moves
<1>10. CASE HandOff
  BY <1>10, <1>d, <1>t, <1>u, <1>m DEF HandOff, At, Advance, records, world, bounds,
     approvalVars, repository, Moves
<1>11. CASE ReconcileImplementation
  BY <1>11, <1>d, <1>t, <1>u, <1>m DEF ReconcileImplementation, At, Continue, Raised, world,
     bounds, approvalVars, repository, Moves
<1>12. CASE JudgeReconciled
  BY <1>12, <1>d, <1>t, <1>u, <1>m DEF JudgeReconciled, At, Advance, Continue, Fail,
     records, world, bounds, approvalVars, repository, Moves
<1>13. CASE AbandonRepair
  BY <1>13, <1>d, <1>t, <1>u, <1>m DEF AbandonRepair, At, Fail, records, world, bounds,
     approvalVars, repository, Moves
<1>14. CASE StartAttempt
  BY <1>14, <1>d, <1>t, <1>u, <1>m DEF StartAttempt, Continue, Raised, world, bounds,
     approvalVars, repository, Moves
<1>15. CASE RunProvider
  BY <1>15, <1>d, <1>t, <1>u, <1>m DEF RunProvider, records, bounds, approvalVars, Moves
<1>16. CASE CompleteAttempt
  BY <1>16, <1>d, <1>t, <1>u, <1>m DEF CompleteAttempt, Continue, Raised, world, bounds,
     approvalVars, repository, Moves
<1>17. CASE WriteStageReport
  BY <1>17, <1>d, <1>t, <1>u, <1>m DEF WriteStageReport, Raised, Continue, world, bounds,
     approvalVars, repository, Moves
<1>18. CASE AttemptFailed
  BY <1>18, <1>d, <1>t, <1>u, <1>m DEF AttemptFailed, Continue, Fail, records, world,
     bounds, approvalVars, repository, Moves
<1>19. CASE Validate
  BY <1>19, <1>d, <1>t, <1>u, <1>m DEF Validate, At, Raised, Advance, Fail,
     EnterRepairOrFail, world, bounds, approvalVars, Continue, repository, Moves
<1>20. CASE RunQa
  BY <1>20, <1>d, <1>t, <1>u, <1>m DEF RunQa, At, Continue, world, bounds, approvalVars,
     repository, Moves
<1>21. CASE JudgeQa
  BY <1>21, <1>d, <1>t, <1>u, <1>m DEF JudgeQa, At, EnterRepairOrFail, Advance, world,
     bounds, approvalVars, Raised, Continue, Fail, repository, Moves
<1>22. CASE BeginRepair
  BY <1>22, <1>d, <1>t, <1>u, <1>m DEF BeginRepair, Advance, records, world, bounds,
     approvalVars, repository, Moves
<1>23. CASE GateChecksums
  BY <1>23, <1>d, <1>t, <1>u, <1>m DEF GateChecksums, At, Raised, records, world, bounds,
     approvalVars, repository, Moves
<1>24. CASE GateRequests
  BY <1>24, <1>d, <1>t, <1>u, <1>m DEF GateRequests, At, request_approval, Continue, Raised,
     approvalVars, records, world, bounds, repository, Moves
<1>25. CASE GateEvaluates
  <2>1. Fail \/ transitions' = transitions
    <3>1. (\A where : Continue(where) => transitions' = transitions)
          /\ (Raised => transitions' = transitions)
      BY DEF Continue, Raised
    <3>2. GateDecides(Replayed(approvals)')
      BY <1>25 DEF GateEvaluates
    <3> QED BY <3>1, <3>2 DEF GateDecides
  <2>2. State' = "FAILED"
    BY <1>25, <1>d, <1>t, <1>u, <2>1 DEF Fail, GateEvaluates, At
  <2> QED BY <1>25, <2>2 DEF Moves, GateEvaluates, world, repository, bounds
<1>26. CASE GateCompares
  BY <1>26, <1>d, <1>t, <1>u, <1>m DEF GateCompares, At, Raised, Continue, records, world,
     bounds, approvalVars, repository, Moves
<1>27. CASE GateSpends
  BY <1>27, <1>d, <1>t, <1>u, <1>m DEF GateSpends, At, append_approval_event, Continue,
     records, world, bounds, repository, Moves
<1>28. CASE GateInvalidates
  BY <1>28, <1>d, <1>t, <1>u, <1>m DEF GateInvalidates, At, append_approval_event, Continue,
     records, world, bounds, repository, Moves
<1>29. CASE StartEffect
  BY <1>29, <1>d, <1>t, <1>u, <1>m DEF StartEffect, InEffect, Fail, Continue, Raised, world,
     bounds, approvalVars, repository, Moves
<1>30. CASE create_commit
  BY <1>30, <1>d, <1>t, <1>u, <1>m DEF create_commit, InEffect, Sees, records, bounds,
     approvalVars, Moves
<1>31. CASE push_stage_branch
  BY <1>31, <1>d, <1>t, <1>u, <1>m DEF push_stage_branch, InEffect, Sees, repository,
     records, bounds, approvalVars, Moves
<1>32. CASE create_pull_request
  BY <1>32, <1>d, <1>t, <1>u, <1>m DEF create_pull_request, InEffect, Sees, repository,
     records, bounds, approvalVars, Moves
<1>33. CASE CompleteEffect
  BY <1>33, <1>d, <1>t, <1>u, <1>m DEF CompleteEffect, InEffect, Continue, Raised, world,
     bounds, approvalVars, repository, Moves
<1>34. CASE Forward
  <2>1. machine \in Counters /\ machine = State /\ State' = ForwardState[State]
        /\ UNCHANGED <<git, tree, remote, crashes, meddling, approvals>>
    BY <1>34, <1>t, <1>m DEF Forward, Advance, ForwardInv, world, repository, bounds, approvalVars
  <2>2. State \in {"IMPLEMENTING", "READY_TO_COMMIT", "COMMITTED", "PUSHED", "REPAIRING"}
    BY <2>1, CounterNames
  <2>3. /\ ForwardState["IMPLEMENTING"] = "VALIDATING" /\ ForwardState["REPAIRING"] = "VALIDATING"
        /\ ForwardState["READY_TO_COMMIT"] = "COMMITTED" /\ ForwardState["COMMITTED"] = "PUSHED"
        /\ ForwardState["PUSHED"] = "PR_OPEN"
    BY CounterNames DEF ForwardState
  <2> QED BY <1>34, <2>1, <2>2, <2>3 DEF Moves, Forward, At
<1>35. CASE Surrender
  BY <1>35, <1>d, <1>t, <1>u, <1>m DEF Surrender, Fail, records, world, bounds,
     approvalVars, repository, Moves
<1>36. CASE RunEnds
  BY <1>36, <1>d, <1>t, <1>u, <1>m DEF RunEnds, Raised, records, world, bounds,
     approvalVars, repository, Moves
<1>37. CASE EnableAutoMerge
  BY <1>37, <1>d, <1>t, <1>u, <1>m DEF EnableAutoMerge, Closing, PullRequestState, Advance,
     Continue, Fail, records, repository, bounds, approvalVars, Moves
<1>38. CASE AutoMergeEnabled
  BY <1>38, <1>d, <1>t, <1>u, <1>m DEF AutoMergeEnabled, Closing, Advance, records, world,
     bounds, approvalVars, repository, Moves
<1>39. CASE ObserveAutoMerge
  BY <1>39, <1>d, <1>t, <1>u, <1>m DEF ObserveAutoMerge, Closing, Advance, Fail, records,
     world, bounds, approvalVars, repository, Moves
<1>40. CASE WaitMore
  BY <1>40, <1>d, <1>t, <1>u, <1>m DEF WaitMore, Closing, Raised, records, world, bounds,
     approvalVars, repository, Moves
<1>41. CASE ObserveMerge
  BY <1>41, <1>d, <1>t, <1>u, <1>m DEF ObserveMerge, Closing, MergeCompleted, Advance, Fail,
     records, world, bounds, approvalVars, repository, Moves
<1>42. CASE ObservationRefused
  BY <1>42, <1>d, <1>t, <1>u, <1>m DEF ObservationRefused, Closing, Fail, records, world,
     bounds, approvalVars, repository, Moves
<1>43. CASE HandOffToCloseout
  BY <1>43, <1>d, <1>t, <1>u, <1>m DEF HandOffToCloseout, Closing, Advance, records, world,
     bounds, approvalVars, repository, Moves
<1>44. CASE AlreadyClosed
  BY <1>44, <1>d, <1>t, <1>u, <1>m DEF AlreadyClosed, Closing, Advance, records, world,
     bounds, approvalVars, repository, Moves
<1>45. CASE CheckoutBaseline
  BY <1>45, <1>d, <1>t, <1>u, <1>m DEF CheckoutBaseline, Closing, MergeCompleted,
     checkout_baseline, Continue, Fail, repository, records, bounds, approvalVars, Moves
<1>46. CASE FastForwardPull
  BY <1>46, <1>d, <1>t, <1>u, <1>m DEF FastForwardPull, Closing, fast_forward_pull,
     Continue, Fail, records, bounds, approvalVars, Moves
<1>47. CASE DeleteBothBranches
  BY <1>47, <1>d, <1>t, <1>u, <1>m DEF DeleteBothBranches, Closing, Continue, Fail, records,
     bounds, approvalVars, Moves
<1>48. CASE WriteCloseoutReport
  BY <1>48, <1>d, <1>t, <1>u, <1>m DEF WriteCloseoutReport, Closing, Continue, Fail, world,
     bounds, approvalVars, repository, Moves
<1>49. CASE ClosedOut
  BY <1>49, <1>d, <1>t, <1>u, <1>m DEF ClosedOut, Closing, Advance, records, world, bounds,
     approvalVars, repository, Moves
<1>50. CASE Abort
  BY <1>50, <1>d, <1>t, <1>u, <1>m DEF Abort, Cancel, approvalVars, repository, bounds,
     Moves
<1>51. CASE Die
  BY <1>51, <1>d, <1>t, <1>u, <1>m DEF Die, Crash, Unaffected, durable, repository,
     approvalVars, Moves
<1>52. CASE Meddle
  BY <1>52, <1>d, <1>t, <1>u, <1>m DEF Meddle, EditTree, MoveBinding, Unaffected, durable,
     approvalVars, Moves
<1>53. CASE Others
  BY <1>53, <1>d, <1>t, <1>u, <1>m DEF Others, durable, repository, bounds, Moves
<1>54. CASE ChecksFinish
  BY <1>54, <1>d, <1>t, <1>u, <1>m DEF ChecksFinish, durable, repository, bounds,
     approvalVars, Moves
<1>55. CASE AutoMerges
  BY <1>55, <1>d, <1>t, <1>u, <1>m DEF AutoMerges, durable, repository, bounds,
     approvalVars, Moves
<1>56. CASE PersonSettles
  BY <1>56, <1>d, <1>t, <1>u, <1>m DEF PersonSettles, durable, repository, approvalVars,
     Moves
<1>57. CASE UNCHANGED taskVars
  BY <1>57, <1>d, <1>t, <1>u, <1>m DEF taskVars, durable, repository, session, bounds,
     approvalVars, Moves
<1> QED
  BY <1>d, <1>1, <1>2, <1>3, <1>4, <1>5, <1>6, <1>7, <1>8, <1>9, <1>10, <1>11, <1>12, <1>13,
     <1>14, <1>15, <1>16, <1>17, <1>18, <1>19, <1>20, <1>21, <1>22, <1>23, <1>24, <1>25,
     <1>26, <1>27, <1>28, <1>29, <1>30, <1>31, <1>32, <1>33, <1>34, <1>35, <1>36, <1>37,
     <1>38, <1>39, <1>40, <1>41, <1>42, <1>43, <1>44, <1>45, <1>46, <1>47, <1>48, <1>49,
     <1>50, <1>51, <1>52, <1>53, <1>54, <1>55, <1>56, <1>57 DEF Next, DriverStep,
     ImplementerStep, CloseoutStep, GitHub

\* The checked-out branch changes where the stage branch is made and where the task is closed.
LEMMA BranchStep ==
    ASSUME HistoryInv, WorldInv, [Next]_taskVars
    PROVE  \/ git'.current = git.current
           \/ State = "PRECONDITIONS_CHECKED" /\ git'.current = "stage"
           \/ State = "CLOSING" /\ State' = State
<1>a. git \in Git
  BY DEF WorldInv
<1>m. mode # "none" => machine = State
  BY MachineIsStatus
<1>u. transitions' = transitions => State' = State
  BY DEF State

<1>1. CASE Start
  BY <1>1, <1>a DEF Start, StartSession, repository, bounds
<1>2. CASE Implement
  BY <1>2, <1>a DEF Implement, ResumeImplementer, Unaffected, CanResume, durable,
     repository, bounds, Resumable
<1>3. CASE CloseOut
  BY <1>3, <1>a DEF CloseOut, ResumeCloseout, Unaffected, CanResume, durable, repository,
     bounds, Resumable
<1>4. CASE DriftOnResume
  BY <1>4, <1>a DEF DriftOnResume, ResumeDrifts, Unaffected, Resumable, repository, session,
     bounds
<1>5. CASE Authorize
  BY <1>5, <1>a DEF Authorize, RecordAuthorization, repository, bounds
<1>6. CASE CheckPreconditions
  BY <1>6, <1>a DEF CheckPreconditions, world, bounds, repository
<1>7. CASE CreateStageBranch
  BY <1>7, <1>a DEF CreateStageBranch, bounds, Git
<1>8. CASE CheckoutStageBranch
  BY <1>8, <1>a, <1>m DEF CheckoutStageBranch, bounds, Git, At
<1>9. CASE BranchReady
  BY <1>9, <1>a DEF BranchReady, world, bounds, repository
<1>10. CASE HandOff
  BY <1>10, <1>a DEF HandOff, world, bounds, repository
<1>11. CASE ReconcileImplementation
  BY <1>11, <1>a DEF ReconcileImplementation, world, bounds, repository
<1>12. CASE JudgeReconciled
  BY <1>12, <1>a DEF JudgeReconciled, world, bounds, repository
<1>13. CASE AbandonRepair
  BY <1>13, <1>a DEF AbandonRepair, world, bounds, repository
<1>14. CASE StartAttempt
  BY <1>14, <1>a DEF StartAttempt, world, bounds, repository
<1>15. CASE RunProvider
  BY <1>15, <1>a DEF RunProvider, bounds
<1>16. CASE CompleteAttempt
  BY <1>16, <1>a DEF CompleteAttempt, world, bounds, repository
<1>17. CASE WriteStageReport
  BY <1>17, <1>a DEF WriteStageReport, world, bounds, repository
<1>18. CASE AttemptFailed
  BY <1>18, <1>a DEF AttemptFailed, world, bounds, repository
<1>19. CASE Validate
  BY <1>19, <1>a DEF Validate, world, bounds, repository
<1>20. CASE RunQa
  BY <1>20, <1>a DEF RunQa, world, bounds, repository
<1>21. CASE JudgeQa
  BY <1>21, <1>a DEF JudgeQa, world, bounds, repository
<1>22. CASE BeginRepair
  BY <1>22, <1>a DEF BeginRepair, world, bounds, repository
<1>23. CASE GateChecksums
  BY <1>23, <1>a DEF GateChecksums, world, bounds, repository
<1>24. CASE GateRequests
  BY <1>24, <1>a DEF GateRequests, world, bounds, repository
<1>25. CASE GateEvaluates
  BY <1>25, <1>a DEF GateEvaluates, world, bounds, repository
<1>26. CASE GateCompares
  BY <1>26, <1>a DEF GateCompares, world, bounds, repository
<1>27. CASE GateSpends
  BY <1>27, <1>a DEF GateSpends, world, bounds, repository
<1>28. CASE GateInvalidates
  BY <1>28, <1>a DEF GateInvalidates, world, bounds, repository
<1>29. CASE StartEffect
  BY <1>29, <1>a DEF StartEffect, world, bounds, repository
<1>30. CASE create_commit
  BY <1>30, <1>a DEF create_commit, Git
<1>31. CASE push_stage_branch
  BY <1>31, <1>a DEF push_stage_branch, repository
<1>32. CASE create_pull_request
  BY <1>32, <1>a DEF create_pull_request, repository
<1>33. CASE CompleteEffect
  BY <1>33, <1>a DEF CompleteEffect, world, bounds, repository
<1>34. CASE Forward
  BY <1>34, <1>a DEF Forward, world, bounds, repository
<1>35. CASE Surrender
  BY <1>35, <1>a DEF Surrender, world, bounds, repository
<1>36. CASE RunEnds
  BY <1>36, <1>a DEF RunEnds, world, bounds, repository
<1>37. CASE EnableAutoMerge
  BY <1>37, <1>a DEF EnableAutoMerge, repository, bounds
<1>38. CASE AutoMergeEnabled
  BY <1>38, <1>a DEF AutoMergeEnabled, world, bounds, repository
<1>39. CASE ObserveAutoMerge
  BY <1>39, <1>a DEF ObserveAutoMerge, world, bounds, repository
<1>40. CASE WaitMore
  BY <1>40, <1>a DEF WaitMore, session, world, bounds, repository
<1>41. CASE ObserveMerge
  BY <1>41, <1>a DEF ObserveMerge, world, bounds, repository
<1>42. CASE ObservationRefused
  BY <1>42, <1>a DEF ObservationRefused, world, bounds, repository
<1>43. CASE HandOffToCloseout
  BY <1>43, <1>a DEF HandOffToCloseout, world, bounds, repository
<1>44. CASE AlreadyClosed
  BY <1>44, <1>a DEF AlreadyClosed, world, bounds, repository
<1>45. CASE CheckoutBaseline
  BY <1>45, <1>a, <1>m, <1>u DEF CheckoutBaseline, checkout_baseline, repository, bounds,
     Git, Closing, Continue
<1>46. CASE FastForwardPull
  BY <1>46, <1>a DEF FastForwardPull, fast_forward_pull, bounds, Git
<1>47. CASE DeleteBothBranches
  BY <1>47, <1>a DEF DeleteBothBranches, bounds, Git
<1>48. CASE WriteCloseoutReport
  BY <1>48, <1>a DEF WriteCloseoutReport, world, bounds, repository
<1>49. CASE ClosedOut
  BY <1>49, <1>a DEF ClosedOut, world, bounds, repository
<1>50. CASE Abort
  BY <1>50, <1>a DEF Abort, Cancel, repository, bounds
<1>51. CASE Die
  BY <1>51, <1>a DEF Die, Crash, Unaffected, durable, repository
<1>52. CASE Meddle
  BY <1>52, <1>a DEF Meddle, EditTree, MoveBinding, Unaffected, durable, session, Git
<1>53. CASE Others
  BY <1>53, <1>a DEF Others, durable, repository, session, bounds
<1>54. CASE ChecksFinish
  BY <1>54, <1>a DEF ChecksFinish, durable, repository, session, bounds
<1>55. CASE AutoMerges
  BY <1>55, <1>a DEF AutoMerges, durable, repository, session, bounds
<1>56. CASE PersonSettles
  BY <1>56, <1>a DEF PersonSettles, durable, repository, session
<1>57. CASE UNCHANGED taskVars
  BY <1>57, <1>a DEF taskVars, durable, repository, session, bounds, approvalVars
<1> QED
  BY <1>1, <1>2, <1>3, <1>4, <1>5, <1>6, <1>7, <1>8, <1>9, <1>10, <1>11, <1>12, <1>13,
     <1>14, <1>15, <1>16, <1>17, <1>18, <1>19, <1>20, <1>21, <1>22, <1>23, <1>24, <1>25,
     <1>26, <1>27, <1>28, <1>29, <1>30, <1>31, <1>32, <1>33, <1>34, <1>35, <1>36, <1>37,
     <1>38, <1>39, <1>40, <1>41, <1>42, <1>43, <1>44, <1>45, <1>46, <1>47, <1>48, <1>49,
     <1>50, <1>51, <1>52, <1>53, <1>54, <1>55, <1>56, <1>57 DEF Next, DriverStep,
     ImplementerStep, CloseoutStep, GitHub

\* Every step keeps the stage branch checked out while the task works on it.
LEMMA BranchStepKeeps ==
    ASSUME HistoryInv, WorldInv, ForwardInv, BranchInv, [Next]_taskVars
    PROVE  BranchInv'
<1>1. At("PRECONDITIONS_CHECKED", "checked_out")' => git'.current = "stage"
  <2>a. At("PRECONDITIONS_CHECKED", "checked_out") => git.current = "stage"
    BY DEF BranchInv
  <2>b. At("PRECONDITIONS_CHECKED", "checked_out") => git'.current = "stage"
    <3>1. mode # "none" => machine = State
      BY MachineIsStatus
    <3> QED BY <2>a, <3>1, BranchStep DEF At
  <2>g. git \in Git
    BY DEF WorldInv
  <2>k. (Raised => mode' = "none") /\ (Fail => mode' = "none" \/ pc' = "step")
        /\ \A to : Advance(to) => mode' = "none" \/ pc' = "step"
    BY DEF Raised, SessionEnds, Fail, Advance, TransitionTo

  <2>1. CASE Start
    BY <2>1, <2>b, <2>k DEF Start, StartSession, At
  <2>2. CASE Implement
    BY <2>2, <2>b, <2>k DEF Implement, ResumeImplementer, Unaffected, At
  <2>3. CASE CloseOut
    BY <2>3, <2>b, <2>k DEF CloseOut, ResumeCloseout, Unaffected, At
  <2>4. CASE DriftOnResume
    BY <2>4, <2>b, <2>k DEF DriftOnResume, Unaffected, At, ResumeDrifts, session
  <2>5. CASE Authorize
    BY <2>5, <2>b, <2>k DEF Authorize, RecordAuthorization, At, TransitionTo, SessionEnds
  <2>6. CASE CheckPreconditions
    BY <2>6, <2>b, <2>k DEF CheckPreconditions, At
  <2>7. CASE CreateStageBranch
    BY <2>7, <2>b, <2>k DEF CreateStageBranch, At, Continue, Goto
  <2>8. CASE CheckoutStageBranch
    BY <2>8, <2>b, <2>k, <2>g DEF CheckoutStageBranch, At, Continue, Goto, Git
  <2>9. CASE BranchReady
    BY <2>9, <2>b, <2>k DEF BranchReady, At
  <2>10. CASE HandOff
    BY <2>10, <2>b, <2>k DEF HandOff, At
  <2>11. CASE ReconcileImplementation
    BY <2>11, <2>b, <2>k DEF ReconcileImplementation, At, Continue, Goto
  <2>12. CASE JudgeReconciled
    BY <2>12, <2>b, <2>k DEF JudgeReconciled, At, Continue, Goto
  <2>13. CASE AbandonRepair
    BY <2>13, <2>b, <2>k DEF AbandonRepair, At
  <2>14. CASE StartAttempt
    BY <2>14, <2>b, <2>k DEF StartAttempt, Continue, Goto, At
  <2>15. CASE RunProvider
    BY <2>15, <2>b, <2>k DEF RunProvider, Goto, At
  <2>16. CASE CompleteAttempt
    BY <2>16, <2>b, <2>k DEF CompleteAttempt, Continue, Goto, At
  <2>17. CASE WriteStageReport
    BY <2>17, <2>b, <2>k DEF WriteStageReport, Continue, Goto, At
  <2>18. CASE AttemptFailed
    BY <2>18, <2>b, <2>k DEF AttemptFailed, Continue, Goto, At
  <2>19. CASE Validate
    BY <2>19, <2>b, <2>k DEF Validate, At, EnterRepairOrFail, Continue, Goto
  <2>20. CASE RunQa
    BY <2>20, <2>b, <2>k DEF RunQa, At, Continue, Goto
  <2>21. CASE JudgeQa
    BY <2>21, <2>b, <2>k DEF JudgeQa, At, EnterRepairOrFail, Continue, Goto
  <2>22. CASE BeginRepair
    BY <2>22, <2>b, <2>k DEF BeginRepair, At
  <2>23. CASE GateChecksums
    BY <2>23, <2>b, <2>k DEF GateChecksums, At, Goto
  <2>24. CASE GateRequests
    BY <2>24, <2>b, <2>k DEF GateRequests, At, Continue, Goto
  <2>25. CASE GateEvaluates
    BY <2>25, <2>b, <2>k DEF GateEvaluates, At, GateDecides, Continue, Goto
  <2>26. CASE GateCompares
    BY <2>26, <2>b, <2>k DEF GateCompares, At, Continue, Goto
  <2>27. CASE GateSpends
    BY <2>27, <2>b, <2>k DEF GateSpends, At, Continue, Goto
  <2>28. CASE GateInvalidates
    BY <2>28, <2>b, <2>k DEF GateInvalidates, At, Continue, Goto
  <2>29. CASE StartEffect
    BY <2>29, <2>b, <2>k DEF StartEffect, InEffect, Continue, Goto, At
  <2>30. CASE create_commit
    BY <2>30, <2>b, <2>k DEF create_commit, InEffect, Sees, Goto, At
  <2>31. CASE push_stage_branch
    BY <2>31, <2>b, <2>k DEF push_stage_branch, InEffect, Sees, Goto, At
  <2>32. CASE create_pull_request
    BY <2>32, <2>b, <2>k DEF create_pull_request, InEffect, Sees, Goto, At
  <2>33. CASE CompleteEffect
    BY <2>33, <2>b, <2>k DEF CompleteEffect, InEffect, Continue, Goto, At
  <2>34. CASE Forward
    BY <2>34, <2>b, <2>k DEF Forward, At
  <2>35. CASE Surrender
    BY <2>35, <2>b, <2>k DEF Surrender, At
  <2>36. CASE RunEnds
    BY <2>36, <2>b, <2>k DEF RunEnds, At
  <2>37. CASE EnableAutoMerge
    BY <2>37, <2>b, <2>k DEF EnableAutoMerge, Closing, Continue, Goto, At
  <2>38. CASE AutoMergeEnabled
    BY <2>38, <2>b, <2>k DEF AutoMergeEnabled, Closing, At
  <2>39. CASE ObserveAutoMerge
    BY <2>39, <2>b, <2>k DEF ObserveAutoMerge, Closing, At
  <2>40. CASE WaitMore
    BY <2>40, <2>b, <2>k DEF WaitMore, Closing, session, At
  <2>41. CASE ObserveMerge
    BY <2>41, <2>b, <2>k DEF ObserveMerge, Closing, At
  <2>42. CASE ObservationRefused
    BY <2>42, <2>b, <2>k DEF ObservationRefused, Closing, At
  <2>43. CASE HandOffToCloseout
    BY <2>43, <2>b, <2>k DEF HandOffToCloseout, Closing, At
  <2>44. CASE AlreadyClosed
    BY <2>44, <2>b, <2>k DEF AlreadyClosed, Closing, At
  <2>45. CASE CheckoutBaseline
    BY <2>45, <2>b, <2>k DEF CheckoutBaseline, Closing, Continue, Goto, At
  <2>46. CASE FastForwardPull
    BY <2>46, <2>b, <2>k DEF FastForwardPull, Closing, Continue, Goto, At
  <2>47. CASE DeleteBothBranches
    BY <2>47, <2>b, <2>k DEF DeleteBothBranches, Closing, Continue, Goto, At
  <2>48. CASE WriteCloseoutReport
    BY <2>48, <2>b, <2>k DEF WriteCloseoutReport, Closing, Continue, Goto, At
  <2>49. CASE ClosedOut
    BY <2>49, <2>b, <2>k DEF ClosedOut, Closing, At
  <2>50. CASE Abort
    BY <2>50, <2>b, <2>k DEF Abort, Cancel, At, TransitionTo, SessionEnds
  <2>51. CASE Die
    BY <2>51, <2>b, <2>k DEF Die, Crash, Unaffected, At, SessionEnds
  <2>52. CASE Meddle
    BY <2>52, <2>b, <2>k DEF Meddle, Unaffected, At, EditTree, MoveBinding, session
  <2>53. CASE Others
    BY <2>53, <2>b, <2>k DEF Others, session, At
  <2>54. CASE ChecksFinish
    BY <2>54, <2>b, <2>k DEF ChecksFinish, session, At
  <2>55. CASE AutoMerges
    BY <2>55, <2>b, <2>k DEF AutoMerges, session, At
  <2>56. CASE PersonSettles
    BY <2>56, <2>b, <2>k DEF PersonSettles, session, At
  <2>57. CASE UNCHANGED taskVars
    BY <2>57, <2>b, <2>k DEF taskVars, durable, repository, session, bounds, approvalVars,
       At
  <2> QED
    BY <2>1, <2>2, <2>3, <2>4, <2>5, <2>6, <2>7, <2>8, <2>9, <2>10, <2>11, <2>12, <2>13,
       <2>14, <2>15, <2>16, <2>17, <2>18, <2>19, <2>20, <2>21, <2>22, <2>23, <2>24, <2>25,
       <2>26, <2>27, <2>28, <2>29, <2>30, <2>31, <2>32, <2>33, <2>34, <2>35, <2>36, <2>37,
       <2>38, <2>39, <2>40, <2>41, <2>42, <2>43, <2>44, <2>45, <2>46, <2>47, <2>48, <2>49,
       <2>50, <2>51, <2>52, <2>53, <2>54, <2>55, <2>56, <2>57 DEF Next, DriverStep,
       ImplementerStep, CloseoutStep, GitHub

<1>2. ASSUME State' \in Staged PROVE git'.current = "stage"
  <2>1. CASE State \in Staged
    <3>1. git.current = "stage"
      BY <2>1 DEF BranchInv
    <3> QED BY <2>1, <3>1, BranchStep DEF Staged
  <2>2. CASE State \notin Staged
    <3>1. EdgeTable(State, State') /\ State' # State /\ Moves /\ git' = git
      BY <1>2, <2>2, MoveStep
    <3>2. State' = "BRANCH_CREATED"
      BY <1>2, <2>2, <3>1 DEF EdgeTable, Staged
    <3>3. At("PRECONDITIONS_CHECKED", "checked_out")
      BY <3>1, <3>2 DEF Moves
    <3> QED BY <3>1, <3>3 DEF BranchInv
  <2> QED BY <2>1, <2>2
<1> QED BY <1>1, <1>2 DEF BranchInv

\* Every step keeps an approval something only a task past its review has.
LEMMA AskedStepKeeps ==
    ASSUME HistoryInv, ApprovalInv, GateInv, AskedInv, [Next]_taskVars
    PROVE  AskedInv'
<1>1. CASE State \in Gated
  <2>1. State' \in Gated
    BY <1>1, StatusStep DEF Gated, EdgeTable, CANCELLABLE, TERMINAL_STATES
  <2> QED BY <2>1 DEF AskedInv
<1>2. CASE State \notin Gated
  <2>1. approvals = <<>>
    BY <1>2 DEF AskedInv
  <2>2. Len(approvals) = 0
    BY <2>1
  <2>3. approvals' = approvals \/ Asks
    <3>1. GateSpends => Granted
      BY DEF GateSpends, GateInv
    <3> QED BY <2>1, <2>2, <3>1, ApprovalStep DEF Granted, Tells, Answered, Elapses
  <2>4. Asks => State = "READY_TO_COMMIT"
    BY MachineIsStatus DEF Asks, At
  <2> QED BY <1>2, <2>1, <2>3, <2>4 DEF Gated, AskedInv
<1> QED BY <1>1, <1>2

\* Every step keeps the stage of the task.
LEMMA StageStepKeeps == BaseInv /\ StageInv /\ [Next]_taskVars => StageInv'
BY ForwardStepKeeps, BranchStepKeeps, AskedStepKeeps DEF BaseInv, StageInv

\* The stage of a task not yet begun.
LEMMA StageInit == Init => StageInv
<1> SUFFICES ASSUME Init PROVE StageInv
  OBVIOUS
<1>1. mode = "none" /\ transitions = <<>> /\ approvals = <<>>
  BY DEF Init, SessionInit, ApprovalInit
<1>2. State = "CREATED"
  BY <1>1 DEF State, StateAfter
<1> QED BY <1>1, <1>2 DEF StageInv, ForwardInv, BranchInv, AskedInv, At, Staged

-----------------------------------------------------------------------------
(* What a step does to the world. *)

Quiet == transitions' = transitions /\ approvals' = approvals
SameRemote ==
    remote'.commits = remote.commits /\ remote'.pr = remote.pr /\ remote'.auto = remote.auto
SameGit == git'.commits = git.commits /\ (git'.baseline = "merged" <=> git.baseline = "merged")

Commits ==
    /\ At("READY_TO_COMMIT", "effect") /\ ~ Clean /\ Quiet /\ SameRemote
    /\ git'.commits = Append(git.commits, tree) /\ git'.baseline = git.baseline
    /\ UNCHANGED <<tree, meddling>> /\ pc' = "effect_done"
Pushes ==
    /\ At("COMMITTED", "effect") /\ Quiet /\ SameGit
    /\ remote'.commits = git.commits /\ remote'.pr = remote.pr /\ remote'.auto = remote.auto
Offers ==
    /\ At("PUSHED", "effect") /\ Quiet /\ SameGit
    /\ remote'.commits = remote.commits /\ remote'.pr = "open" /\ remote'.auto = FALSE
Arms ==
    /\ Closing("PR_OPEN", "step") /\ Quiet /\ SameGit
    /\ remote'.commits = remote.commits /\ remote'.pr = remote.pr /\ remote'.auto = TRUE
    /\ remote.pr # "none"
Settles ==
    /\ Quiet /\ SameGit /\ remote'.commits = remote.commits /\ remote'.auto = remote.auto
    /\ remote.pr = "open" /\ remote'.pr \in {"merged", "closed"}
Absorbs ==
    /\ Closing("CLOSING", "on_baseline") /\ Quiet /\ SameRemote
    /\ git'.commits = git.commits /\ git'.baseline = "merged"
Deletes ==
    /\ Closing("CLOSING", "pulled") /\ Quiet
    /\ git'.commits = <<>> /\ git'.baseline = git.baseline
    /\ remote'.commits = <<>> /\ remote'.pr = remote.pr /\ remote'.auto = remote.auto

\* A step shows the world one effect at most, of the handler that stands before it.
LEMMA EffectStep ==
    ASSUME WorldInv, [Next]_taskVars
    PROVE  \/ SameGit /\ SameRemote
           \/ Commits \/ Pushes \/ Offers \/ Arms \/ Settles \/ Absorbs \/ Deletes
<1>a. git \in Git /\ remote \in Remote
  BY DEF WorldInv
<1>s. git' = git => SameGit
  BY DEF SameGit
<1>r. remote' = remote => SameRemote
  BY DEF SameRemote

<1>1. CASE Start
  BY <1>1, <1>a, <1>s, <1>r DEF Start, StartSession, repository, bounds
<1>2. CASE Implement
  BY <1>2, <1>a, <1>s, <1>r DEF Implement, ResumeImplementer, Unaffected, CanResume,
     durable, repository, bounds, Resumable
<1>3. CASE CloseOut
  BY <1>3, <1>a, <1>s, <1>r DEF CloseOut, ResumeCloseout, Unaffected, CanResume, durable,
     repository, bounds, Resumable
<1>4. CASE DriftOnResume
  BY <1>4, <1>a, <1>s, <1>r DEF DriftOnResume, ResumeDrifts, Unaffected, Resumable,
     repository, session, bounds
<1>5. CASE Authorize
  BY <1>5, <1>a, <1>s, <1>r DEF Authorize, RecordAuthorization, repository, bounds
<1>6. CASE CheckPreconditions
  BY <1>6, <1>a, <1>s, <1>r DEF CheckPreconditions, world, bounds, repository
<1>7. CASE CreateStageBranch
  BY <1>7, <1>a, <1>s, <1>r DEF CreateStageBranch, bounds, Git, Remote, SameGit, SameRemote
<1>8. CASE CheckoutStageBranch
  BY <1>8, <1>a, <1>s, <1>r DEF CheckoutStageBranch, bounds, Git, Remote, SameGit,
     SameRemote
<1>9. CASE BranchReady
  BY <1>9, <1>a, <1>s, <1>r DEF BranchReady, world, bounds, repository
<1>10. CASE HandOff
  BY <1>10, <1>a, <1>s, <1>r DEF HandOff, world, bounds, repository
<1>11. CASE ReconcileImplementation
  BY <1>11, <1>a, <1>s, <1>r DEF ReconcileImplementation, world, bounds, repository
<1>12. CASE JudgeReconciled
  BY <1>12, <1>a, <1>s, <1>r DEF JudgeReconciled, world, bounds, repository
<1>13. CASE AbandonRepair
  BY <1>13, <1>a, <1>s, <1>r DEF AbandonRepair, world, bounds, repository
<1>14. CASE StartAttempt
  BY <1>14, <1>a, <1>s, <1>r DEF StartAttempt, world, bounds, repository
<1>15. CASE RunProvider
  BY <1>15, <1>a, <1>s, <1>r DEF RunProvider, bounds
<1>16. CASE CompleteAttempt
  BY <1>16, <1>a, <1>s, <1>r DEF CompleteAttempt, world, bounds, repository
<1>17. CASE WriteStageReport
  BY <1>17, <1>a, <1>s, <1>r DEF WriteStageReport, world, bounds, repository
<1>18. CASE AttemptFailed
  BY <1>18, <1>a, <1>s, <1>r DEF AttemptFailed, world, bounds, repository
<1>19. CASE Validate
  BY <1>19, <1>a, <1>s, <1>r DEF Validate, world, bounds, repository
<1>20. CASE RunQa
  BY <1>20, <1>a, <1>s, <1>r DEF RunQa, world, bounds, repository
<1>21. CASE JudgeQa
  BY <1>21, <1>a, <1>s, <1>r DEF JudgeQa, world, bounds, repository
<1>22. CASE BeginRepair
  BY <1>22, <1>a, <1>s, <1>r DEF BeginRepair, world, bounds, repository
<1>23. CASE GateChecksums
  BY <1>23, <1>a, <1>s, <1>r DEF GateChecksums, world, bounds, repository
<1>24. CASE GateRequests
  BY <1>24, <1>a, <1>s, <1>r DEF GateRequests, world, bounds, repository
<1>25. CASE GateEvaluates
  BY <1>25, <1>a, <1>s, <1>r DEF GateEvaluates, world, bounds, repository
<1>26. CASE GateCompares
  BY <1>26, <1>a, <1>s, <1>r DEF GateCompares, world, bounds, repository
<1>27. CASE GateSpends
  BY <1>27, <1>a, <1>s, <1>r DEF GateSpends, world, bounds, repository
<1>28. CASE GateInvalidates
  BY <1>28, <1>a, <1>s, <1>r DEF GateInvalidates, world, bounds, repository
<1>29. CASE StartEffect
  BY <1>29, <1>a, <1>s, <1>r DEF StartEffect, world, bounds, repository
<1>30. CASE create_commit
  <2>1. CASE git' = git
    BY <1>30, <1>s, <1>r, <2>1 DEF create_commit
  <2>2. CASE git' # git
    <3>1. /\ mode = "implementer" /\ machine = "READY_TO_COMMIT" /\ pc = "effect" /\ ~ Clean
          /\ git' = [git EXCEPT !.commits = Append(@, tree)] /\ tree' = tree /\ remote' = remote
      BY <1>30, <2>2 DEF create_commit, InEffect
    <3>2. Quiet /\ meddling' = meddling /\ pc' = "effect_done"
      BY <1>30 DEF create_commit, Sees, Quiet, approvalVars, bounds, Goto
    <3>3. git'.commits = Append(git.commits, tree) /\ git'.baseline = git.baseline
      BY <1>a, <3>1 DEF Git
    <3> QED BY <1>r, <3>1, <3>2, <3>3 DEF Commits, At
  <2> QED BY <2>1, <2>2
<1>31. CASE push_stage_branch
  <2>1. git' = git /\ Quiet /\ At("COMMITTED", "effect")
    BY <1>31 DEF push_stage_branch, InEffect, Sees, Quiet, approvalVars, repository, At
  <2>2. remote' = remote \/ remote' = [remote EXCEPT !.commits = git.commits]
    BY <1>31 DEF push_stage_branch
  <2>3. ASSUME remote' = [remote EXCEPT !.commits = git.commits] PROVE Pushes
    BY <1>a, <1>s, <2>1, <2>3 DEF Pushes, Remote
  <2> QED BY <1>s, <1>r, <2>1, <2>2, <2>3
<1>32. CASE create_pull_request
  <2>1. git' = git /\ Quiet /\ At("PUSHED", "effect")
    BY <1>32 DEF create_pull_request, InEffect, Sees, Quiet, approvalVars, repository, At
  <2>2. \/ remote' = remote
        \/ remote' = [remote EXCEPT !.pr = "open", !.auto = FALSE, !.checks = "pending"]
    BY <1>32 DEF create_pull_request
  <2>3. ASSUME remote' = [remote EXCEPT !.pr = "open", !.auto = FALSE, !.checks = "pending"]
        PROVE  Offers
    BY <1>a, <1>s, <2>1, <2>3 DEF Offers, Remote
  <2> QED BY <1>s, <1>r, <2>1, <2>2, <2>3
<1>33. CASE CompleteEffect
  BY <1>33, <1>a, <1>s, <1>r DEF CompleteEffect, world, bounds, repository
<1>34. CASE Forward
  BY <1>34, <1>a, <1>s, <1>r DEF Forward, world, bounds, repository
<1>35. CASE Surrender
  BY <1>35, <1>a, <1>s, <1>r DEF Surrender, world, bounds, repository
<1>36. CASE RunEnds
  BY <1>36, <1>a, <1>s, <1>r DEF RunEnds, world, bounds, repository
<1>37. CASE EnableAutoMerge
  <2>1. CASE remote' = remote
    BY <1>37, <1>s, <1>r, <2>1 DEF EnableAutoMerge, repository
  <2>2. CASE remote' # remote
    <3>1. /\ Closing("PR_OPEN", "step") /\ remote' = [remote EXCEPT !.auto = TRUE] /\ git' = git
          /\ remote.pr # "none" /\ transitions' = transitions /\ approvals' = approvals
      BY <1>37, <2>2 DEF EnableAutoMerge, EnableAutomaticSquashMerge, PullRequestSeen,
         PullRequestState, Continue, repository, approvalVars
    <3> QED BY <1>a, <1>s, <3>1 DEF Arms, Quiet, Remote
  <2> QED BY <2>1, <2>2
<1>38. CASE AutoMergeEnabled
  BY <1>38, <1>a, <1>s, <1>r DEF AutoMergeEnabled, world, bounds, repository
<1>39. CASE ObserveAutoMerge
  BY <1>39, <1>a, <1>s, <1>r DEF ObserveAutoMerge, world, bounds, repository
<1>40. CASE WaitMore
  BY <1>40, <1>a, <1>s, <1>r DEF WaitMore, session, world, bounds, repository
<1>41. CASE ObserveMerge
  BY <1>41, <1>a, <1>s, <1>r DEF ObserveMerge, world, bounds, repository
<1>42. CASE ObservationRefused
  BY <1>42, <1>a, <1>s, <1>r DEF ObservationRefused, world, bounds, repository
<1>43. CASE HandOffToCloseout
  BY <1>43, <1>a, <1>s, <1>r DEF HandOffToCloseout, world, bounds, repository
<1>44. CASE AlreadyClosed
  BY <1>44, <1>a, <1>s, <1>r DEF AlreadyClosed, world, bounds, repository
<1>45. CASE CheckoutBaseline
  BY <1>45, <1>a, <1>s, <1>r DEF CheckoutBaseline, checkout_baseline, repository, bounds,
     Git, Remote, SameGit, SameRemote
<1>46. CASE FastForwardPull
  <2>1. CASE git' = git
    BY <1>46, <1>s, <1>r, <2>1 DEF FastForwardPull
  <2>2. CASE git' # git
    <3>1. /\ Closing("CLOSING", "on_baseline") /\ git' = [git EXCEPT !.baseline = "merged"]
          /\ remote' = remote /\ transitions' = transitions /\ approvals' = approvals
      BY <1>46, <2>2 DEF FastForwardPull, fast_forward_pull, Continue, approvalVars
    <3> QED BY <1>a, <1>r, <3>1 DEF Absorbs, Quiet, Git
  <2> QED BY <2>1, <2>2
<1>47. CASE DeleteBothBranches
  <2>1. CASE git' = git /\ remote' = remote
    BY <1>s, <1>r, <2>1
  <2>2. CASE ~ (git' = git /\ remote' = remote)
    <3>1. /\ Closing("CLOSING", "pulled") /\ transitions' = transitions /\ approvals' = approvals
          /\ git' = [git EXCEPT !.planned = FALSE, !.commits = <<>>]
          /\ remote' = [remote EXCEPT !.commits = <<>>]
      BY <1>47, <2>2 DEF DeleteBothBranches, Continue, approvalVars
    <3> QED BY <1>a, <3>1 DEF Deletes, Quiet, Git, Remote
  <2> QED BY <2>1, <2>2
<1>48. CASE WriteCloseoutReport
  BY <1>48, <1>a, <1>s, <1>r DEF WriteCloseoutReport, world, bounds, repository
<1>49. CASE ClosedOut
  BY <1>49, <1>a, <1>s, <1>r DEF ClosedOut, world, bounds, repository
<1>50. CASE Abort
  BY <1>50, <1>a, <1>s, <1>r DEF Abort, Cancel, repository, bounds
<1>51. CASE Die
  BY <1>51, <1>a, <1>s, <1>r DEF Die, Crash, Unaffected, durable, repository
<1>52. CASE Meddle
  BY <1>52, <1>a, <1>s, <1>r DEF Meddle, EditTree, MoveBinding, Unaffected, durable,
     session, Git, Remote, SameGit, SameRemote
<1>53. CASE Others
  BY <1>53, <1>a, <1>s, <1>r DEF Others, durable, repository, session, bounds
<1>54. CASE ChecksFinish
  BY <1>54, <1>a, <1>s, <1>r DEF ChecksFinish, durable, repository, session, bounds, Git,
     Remote, SameGit, SameRemote
<1>55. CASE AutoMerges
  BY <1>a, <1>s, <1>55 DEF AutoMerges, Settles, Quiet, Remote, durable, repository, approvalVars
<1>56. CASE PersonSettles
  BY <1>a, <1>s, <1>56 DEF PersonSettles, Settles, Quiet, Remote, durable, repository, approvalVars
<1>57. CASE UNCHANGED taskVars
  BY <1>57, <1>a, <1>s, <1>r DEF taskVars, durable, repository, session, bounds,
     approvalVars
<1> QED
  BY <1>1, <1>2, <1>3, <1>4, <1>5, <1>6, <1>7, <1>8, <1>9, <1>10, <1>11, <1>12, <1>13,
     <1>14, <1>15, <1>16, <1>17, <1>18, <1>19, <1>20, <1>21, <1>22, <1>23, <1>24, <1>25,
     <1>26, <1>27, <1>28, <1>29, <1>30, <1>31, <1>32, <1>33, <1>34, <1>35, <1>36, <1>37,
     <1>38, <1>39, <1>40, <1>41, <1>42, <1>43, <1>44, <1>45, <1>46, <1>47, <1>48, <1>49,
     <1>50, <1>51, <1>52, <1>53, <1>54, <1>55, <1>56, <1>57 DEF Next, DriverStep,
     ImplementerStep, CloseoutStep, GitHub

\* The tree changes under a provider, at the close-out, or by others' hands.
LEMMA TreeStep ==
    ASSUME HistoryInv, WorldInv, [Next]_taskVars
    PROVE  /\ \/ tree' = tree
              \/ State \in {"IMPLEMENTING", "REPAIRING", "CLOSING"} /\ State' = State
              \/ meddling' # 0
           /\ meddling' = 0 => meddling = 0
<1>a. meddling \in Nat
  BY BoundAssumption DEF WorldInv
<1>m. mode # "none" => machine = State
  BY MachineIsStatus
<1>u. transitions' = transitions => State' = State
  BY DEF State

<1>1. CASE Start
  BY <1>1, <1>a DEF Start, StartSession, repository, bounds
<1>2. CASE Implement
  BY <1>2, <1>a DEF Implement, ResumeImplementer, Unaffected, CanResume, durable,
     repository, bounds, Resumable
<1>3. CASE CloseOut
  BY <1>3, <1>a DEF CloseOut, ResumeCloseout, Unaffected, CanResume, durable, repository,
     bounds, Resumable
<1>4. CASE DriftOnResume
  BY <1>4, <1>a DEF DriftOnResume, ResumeDrifts, Unaffected, Resumable, repository, session,
     bounds
<1>5. CASE Authorize
  BY <1>5, <1>a DEF Authorize, RecordAuthorization, repository, bounds
<1>6. CASE CheckPreconditions
  BY <1>6, <1>a DEF CheckPreconditions, world, bounds, repository
<1>7. CASE CreateStageBranch
  BY <1>7, <1>a DEF CreateStageBranch, Continue, bounds
<1>8. CASE CheckoutStageBranch
  BY <1>8, <1>a DEF CheckoutStageBranch, Continue, bounds
<1>9. CASE BranchReady
  BY <1>9, <1>a DEF BranchReady, world, bounds, repository
<1>10. CASE HandOff
  BY <1>10, <1>a DEF HandOff, world, bounds, repository
<1>11. CASE ReconcileImplementation
  BY <1>11, <1>a DEF ReconcileImplementation, Continue, world, bounds, repository
<1>12. CASE JudgeReconciled
  BY <1>12, <1>a DEF JudgeReconciled, Continue, world, bounds, repository
<1>13. CASE AbandonRepair
  BY <1>13, <1>a DEF AbandonRepair, world, bounds, repository
<1>14. CASE StartAttempt
  BY <1>14, <1>a DEF StartAttempt, Continue, world, bounds, repository
<1>15. CASE RunProvider
  BY <1>15, <1>a, <1>m, <1>u DEF RunProvider, bounds, EDITING_STATES
<1>16. CASE CompleteAttempt
  BY <1>16, <1>a DEF CompleteAttempt, Continue, world, bounds, repository
<1>17. CASE WriteStageReport
  BY <1>17, <1>a DEF WriteStageReport, Continue, world, bounds, repository
<1>18. CASE AttemptFailed
  BY <1>18, <1>a DEF AttemptFailed, Continue, world, bounds, repository
<1>19. CASE Validate
  BY <1>19, <1>a DEF Validate, world, bounds, repository
<1>20. CASE RunQa
  BY <1>20, <1>a DEF RunQa, Continue, world, bounds, repository
<1>21. CASE JudgeQa
  BY <1>21, <1>a DEF JudgeQa, world, bounds, repository
<1>22. CASE BeginRepair
  BY <1>22, <1>a DEF BeginRepair, world, bounds, repository
<1>23. CASE GateChecksums
  BY <1>23, <1>a DEF GateChecksums, world, bounds, repository
<1>24. CASE GateRequests
  BY <1>24, <1>a DEF GateRequests, Continue, world, bounds, repository
<1>25. CASE GateEvaluates
  BY <1>25, <1>a DEF GateEvaluates, world, bounds, repository
<1>26. CASE GateCompares
  BY <1>26, <1>a DEF GateCompares, Continue, world, bounds, repository
<1>27. CASE GateSpends
  BY <1>27, <1>a DEF GateSpends, Continue, world, bounds, repository
<1>28. CASE GateInvalidates
  BY <1>28, <1>a DEF GateInvalidates, Continue, world, bounds, repository
<1>29. CASE StartEffect
  BY <1>29, <1>a DEF StartEffect, Continue, world, bounds, repository
<1>30. CASE create_commit
  BY <1>30, <1>a DEF create_commit, Sees, bounds
<1>31. CASE push_stage_branch
  BY <1>31, <1>a DEF push_stage_branch, Sees, repository, bounds
<1>32. CASE create_pull_request
  BY <1>32, <1>a DEF create_pull_request, Sees, repository, bounds
<1>33. CASE CompleteEffect
  BY <1>33, <1>a DEF CompleteEffect, Continue, world, bounds, repository
<1>34. CASE Forward
  BY <1>34, <1>a DEF Forward, world, bounds, repository
<1>35. CASE Surrender
  BY <1>35, <1>a DEF Surrender, world, bounds, repository
<1>36. CASE RunEnds
  BY <1>36, <1>a DEF RunEnds, world, bounds, repository
<1>37. CASE EnableAutoMerge
  BY <1>37, <1>a DEF EnableAutoMerge, Closing, Continue, repository, bounds
<1>38. CASE AutoMergeEnabled
  BY <1>38, <1>a DEF AutoMergeEnabled, Closing, world, bounds, repository
<1>39. CASE ObserveAutoMerge
  BY <1>39, <1>a DEF ObserveAutoMerge, Closing, world, bounds, repository
<1>40. CASE WaitMore
  BY <1>40, <1>a DEF WaitMore, Closing, session, world, bounds, repository
<1>41. CASE ObserveMerge
  BY <1>41, <1>a DEF ObserveMerge, Closing, world, bounds, repository
<1>42. CASE ObservationRefused
  BY <1>42, <1>a DEF ObservationRefused, Closing, world, bounds, repository
<1>43. CASE HandOffToCloseout
  BY <1>43, <1>a DEF HandOffToCloseout, Closing, world, bounds, repository
<1>44. CASE AlreadyClosed
  BY <1>44, <1>a DEF AlreadyClosed, Closing, world, bounds, repository
<1>45. CASE CheckoutBaseline
  BY <1>45, <1>a, <1>m, <1>u DEF CheckoutBaseline, Closing, checkout_baseline, Continue,
     repository, bounds
<1>46. CASE FastForwardPull
  BY <1>46, <1>a DEF FastForwardPull, Closing, Continue, bounds
<1>47. CASE DeleteBothBranches
  BY <1>47, <1>a DEF DeleteBothBranches, Closing, Continue, bounds
<1>48. CASE WriteCloseoutReport
  BY <1>48, <1>a DEF WriteCloseoutReport, Closing, Continue, world, bounds, repository
<1>49. CASE ClosedOut
  BY <1>49, <1>a DEF ClosedOut, Closing, world, bounds, repository
<1>50. CASE Abort
  BY <1>50, <1>a DEF Abort, Cancel, repository, bounds
<1>51. CASE Die
  BY <1>51, <1>a DEF Die, Crash, Unaffected, durable, repository
<1>52. CASE Meddle
  BY <1>52, <1>a DEF Meddle, EditTree, MoveBinding, Unaffected, durable, session
<1>53. CASE Others
  BY <1>53, <1>a DEF Others, durable, repository, session, bounds
<1>54. CASE ChecksFinish
  BY <1>54, <1>a DEF ChecksFinish, durable, repository, session, bounds
<1>55. CASE AutoMerges
  BY <1>55, <1>a DEF AutoMerges, durable, repository, session, bounds
<1>56. CASE PersonSettles
  BY <1>56, <1>a DEF PersonSettles, durable, repository, session
<1>57. CASE UNCHANGED taskVars
  BY <1>57, <1>a DEF taskVars, durable, repository, session, bounds, approvalVars
<1> QED
  BY <1>1, <1>2, <1>3, <1>4, <1>5, <1>6, <1>7, <1>8, <1>9, <1>10, <1>11, <1>12, <1>13,
     <1>14, <1>15, <1>16, <1>17, <1>18, <1>19, <1>20, <1>21, <1>22, <1>23, <1>24, <1>25,
     <1>26, <1>27, <1>28, <1>29, <1>30, <1>31, <1>32, <1>33, <1>34, <1>35, <1>36, <1>37,
     <1>38, <1>39, <1>40, <1>41, <1>42, <1>43, <1>44, <1>45, <1>46, <1>47, <1>48, <1>49,
     <1>50, <1>51, <1>52, <1>53, <1>54, <1>55, <1>56, <1>57 DEF Next, DriverStep,
     ImplementerStep, CloseoutStep, GitHub

-----------------------------------------------------------------------------
(* The commit. *)

CommitAttempts == Cardinality(StartedNumbers("READY_TO_COMMIT"))

\* A commit has its attempt and a spent approval.  While nobody else touched the repository,
\* what was checked and shown is what the tree still holds, and what was committed.
Accepted == State \in {"QA_RUNNING", "READY_TO_COMMIT"} => tree \in Valid
Shown == State = "READY_TO_COMMIT" /\ approvals # <<>> => approvals[1].shown = tree
Kept == State = "READY_TO_COMMIT" /\ git.commits # <<>> => git.commits = <<tree>>
Single ==
    git.commits # <<>> =>
        /\ Len(git.commits) = 1
        /\ git.commits[1] = approvals[1].shown /\ git.commits[1] \in Valid
CommitInv ==
    /\ Len(git.commits) <= CommitAttempts
    /\ At("READY_TO_COMMIT", "effect") => Len(git.commits) < CommitAttempts
    /\ git.commits # <<>> => Spent
    /\ meddling = 0 => Accepted /\ Shown /\ Kept /\ Single

\* Attempts are never taken back, and a reserved one is one more.
LEMMA AttemptsGrow ==
    ASSUME AttemptInv, [Next]_taskVars
    PROVE  /\ CommitAttempts \in Nat /\ CommitAttempts' \in Nat
           /\ CommitAttempts <= CommitAttempts'
           /\ Reserves("READY_TO_COMMIT") => CommitAttempts' = CommitAttempts + 1
<1> DEFINE c == "READY_TO_COMMIT"
<1>0. c \in Counters
  BY CounterNames
<1>1. IsFiniteSet(attempts[c].started)
  <2>1. CompletedCount(c) \in Nat
    BY <1>0, CountFacts, LimitFacts
  <2>2. IsFiniteSet(1 .. CompletedCount(c)) /\ IsFiniteSet(1 .. CompletedCount(c) + 1)
    BY <2>1, FS_Interval
  <2> QED BY <1>0, <2>2, CountFacts DEF StartedNumbers
<1>2. CASE attempts' = attempts /\ ~ Reserves(c)
  <2>1. CommitAttempts' = CommitAttempts
    BY <1>2 DEF CommitAttempts, StartedNumbers
  <2>2. CommitAttempts \in Nat
    BY <1>1, FS_CardinalityType DEF CommitAttempts, StartedNumbers
  <2> QED BY <1>2, <2>1, <2>2
<1>3. CASE Reserves(c)
  <2> DEFINE n == NextNumber(c)
  <2>1. /\ n \notin attempts[c].started
        /\ attempts' = [attempts EXCEPT ![c]["started"] = @ \cup {n}]
    BY <1>3 DEF Reserves, MayStart, RecordStarted, AppendAttempt, StartedNumbers
  <2>2. attempts[c] \in [started : SUBSET Nat, completed : SUBSET Nat]
    BY <1>0 DEF AttemptInv
  <2> HIDE DEF n
  <2>3. attempts'[c].started = attempts[c].started \cup {n}
    <3>1. attempts'[c] = [attempts[c] EXCEPT !["started"] = @ \cup {n}]
      BY <1>0, <2>1 DEF AttemptInv
    <3> QED BY <2>2, <3>1
  <2>4. Cardinality(attempts[c].started \cup {n}) = Cardinality(attempts[c].started) + 1
    BY <1>1, <2>1, FS_AddElement
  <2>5. Cardinality(attempts[c].started) \in Nat
    BY <1>1, FS_CardinalityType
  <2>6. CommitAttempts = Cardinality(attempts[c].started)
        /\ CommitAttempts' = Cardinality(attempts[c].started \cup {n})
    BY <2>3 DEF CommitAttempts, StartedNumbers
  <2> QED BY <2>4, <2>5, <2>6
<1>4. ASSUME NEW d \in Counters, Reserves(d) \/ Completes(d), ~ Reserves(c)
      PROVE  CommitAttempts' = CommitAttempts /\ CommitAttempts \in Nat
  <2> DEFINE kind == IF Reserves(d) THEN "started" ELSE "completed"
             n == NextNumber(d)
  <2>1. attempts' = [attempts EXCEPT ![d][kind] = @ \cup {n}]
    BY <1>4 DEF Reserves, Completes, RecordStarted, RecordCompleted, AppendAttempt
  <2>2. d = c => kind = "completed"
    BY <1>4
  <2>3. attempts[c] \in [started : SUBSET Nat, completed : SUBSET Nat]
    BY <1>0 DEF AttemptInv
  <2> HIDE DEF n, kind
  <2>4. attempts'[c].started = attempts[c].started
    <3>1. CASE d = c
      <4>1. attempts'[c] = [attempts[c] EXCEPT !["completed"] = @ \cup {n}]
        BY <1>0, <2>1, <2>2, <3>1 DEF AttemptInv
      <4> QED BY <2>3, <4>1
    <3>2. CASE d # c
      <4> DEFINE row == [attempts[d] EXCEPT ![kind] = @ \cup {n}]
      <4>1. attempts' = [attempts EXCEPT ![d] = row]
        BY <2>1
      <4> HIDE DEF row
      <4> QED BY <1>0, <3>2, <4>1 DEF AttemptInv
    <3> QED BY <3>1, <3>2
  <2>5. Cardinality(attempts[c].started) \in Nat
    BY <1>1, FS_CardinalityType
  <2> QED BY <2>4, <2>5 DEF CommitAttempts, StartedNumbers
<1>5. CommitAttempts \in Nat /\ CommitAttempts' \in Nat /\ CommitAttempts <= CommitAttempts'
      /\ (Reserves(c) => CommitAttempts' = CommitAttempts + 1)
  BY <1>2, <1>3, <1>4, AttemptStep
<1> QED BY <1>5

\* The commit's command runs only after its attempt was reserved.
LEMMA EnterEffect ==
    ASSUME [Next]_taskVars, At("READY_TO_COMMIT", "effect")'
    PROVE  At("READY_TO_COMMIT", "effect") \/ (Reserves("READY_TO_COMMIT") /\ git' = git)
<1>k. (Raised => mode' = "none") /\ (Fail => mode' = "none" \/ pc' = "step")
      /\ \A to : Advance(to) => mode' = "none" \/ pc' = "step"
  BY DEF Raised, SessionEnds, Fail, Advance, TransitionTo
<1>e. mode' = "implementer" /\ machine' = "READY_TO_COMMIT" /\ pc' = "effect"
  BY DEF At

<1>1. CASE Start
  BY <1>1, <1>k, <1>e DEF Start, StartSession, At
<1>2. CASE Implement
  BY <1>2, <1>k, <1>e DEF Implement, ResumeImplementer, Unaffected, At
<1>3. CASE CloseOut
  BY <1>3, <1>k, <1>e DEF CloseOut, ResumeCloseout, Unaffected, At
<1>4. CASE DriftOnResume
  BY <1>4, <1>k, <1>e DEF DriftOnResume, Unaffected, At, ResumeDrifts, session
<1>5. CASE Authorize
  BY <1>5, <1>k, <1>e DEF Authorize, RecordAuthorization, At, TransitionTo, SessionEnds
<1>6. CASE CheckPreconditions
  BY <1>6, <1>k, <1>e DEF CheckPreconditions, At
<1>7. CASE CreateStageBranch
  BY <1>7, <1>k, <1>e DEF CreateStageBranch, At, Continue, Goto
<1>8. CASE CheckoutStageBranch
  BY <1>8, <1>k, <1>e DEF CheckoutStageBranch, At, Continue, Goto
<1>9. CASE BranchReady
  BY <1>9, <1>k, <1>e DEF BranchReady, At
<1>10. CASE HandOff
  BY <1>10, <1>k, <1>e DEF HandOff, At
<1>11. CASE ReconcileImplementation
  BY <1>11, <1>k, <1>e DEF ReconcileImplementation, At, Continue, Goto
<1>12. CASE JudgeReconciled
  BY <1>12, <1>k, <1>e DEF JudgeReconciled, At, Continue, Goto
<1>13. CASE AbandonRepair
  BY <1>13, <1>k, <1>e DEF AbandonRepair, At
<1>14. CASE StartAttempt
  BY <1>14, <1>k, <1>e DEF StartAttempt, Continue, Goto, At
<1>15. CASE RunProvider
  BY <1>15, <1>k, <1>e DEF RunProvider, Goto, At
<1>16. CASE CompleteAttempt
  BY <1>16, <1>k, <1>e DEF CompleteAttempt, Continue, Goto, At
<1>17. CASE WriteStageReport
  BY <1>17, <1>k, <1>e DEF WriteStageReport, Continue, Goto, At
<1>18. CASE AttemptFailed
  BY <1>18, <1>k, <1>e DEF AttemptFailed, Continue, Goto, At
<1>19. CASE Validate
  BY <1>19, <1>k, <1>e DEF Validate, At, EnterRepairOrFail, Continue, Goto
<1>20. CASE RunQa
  BY <1>20, <1>k, <1>e DEF RunQa, At, Continue, Goto
<1>21. CASE JudgeQa
  BY <1>21, <1>k, <1>e DEF JudgeQa, At, EnterRepairOrFail, Continue, Goto
<1>22. CASE BeginRepair
  BY <1>22, <1>k, <1>e DEF BeginRepair, At
<1>23. CASE GateChecksums
  BY <1>23, <1>k, <1>e DEF GateChecksums, At, Goto
<1>24. CASE GateRequests
  BY <1>24, <1>k, <1>e DEF GateRequests, At, Continue, Goto
<1>25. CASE GateEvaluates
  BY <1>25, <1>k, <1>e DEF GateEvaluates, At, GateDecides, Continue, Goto
<1>26. CASE GateCompares
  BY <1>26, <1>k, <1>e DEF GateCompares, At, Continue, Goto
<1>27. CASE GateSpends
  BY <1>27, <1>k, <1>e DEF GateSpends, At, Continue, Goto
<1>28. CASE GateInvalidates
  BY <1>28, <1>k, <1>e DEF GateInvalidates, At, Continue, Goto
<1>29. CASE StartEffect
  BY <1>29, <1>k, <1>e DEF StartEffect, InEffect, Continue, Goto, At, Reserves, world,
     repository
<1>30. CASE create_commit
  BY <1>30, <1>k, <1>e DEF create_commit, InEffect, Sees, Goto, At
<1>31. CASE push_stage_branch
  BY <1>31, <1>k, <1>e DEF push_stage_branch, InEffect, Sees, Goto, At
<1>32. CASE create_pull_request
  BY <1>32, <1>k, <1>e DEF create_pull_request, InEffect, Sees, Goto, At
<1>33. CASE CompleteEffect
  BY <1>33, <1>k, <1>e DEF CompleteEffect, InEffect, Continue, Goto, At
<1>34. CASE Forward
  BY <1>34, <1>k, <1>e DEF Forward, At
<1>35. CASE Surrender
  BY <1>35, <1>k, <1>e DEF Surrender, At
<1>36. CASE RunEnds
  BY <1>36, <1>k, <1>e DEF RunEnds, At
<1>37. CASE EnableAutoMerge
  BY <1>37, <1>k, <1>e DEF EnableAutoMerge, Closing, Continue, Goto, At
<1>38. CASE AutoMergeEnabled
  BY <1>38, <1>k, <1>e DEF AutoMergeEnabled, Closing, At
<1>39. CASE ObserveAutoMerge
  BY <1>39, <1>k, <1>e DEF ObserveAutoMerge, Closing, At
<1>40. CASE WaitMore
  BY <1>40, <1>k, <1>e DEF WaitMore, Closing, session, At
<1>41. CASE ObserveMerge
  BY <1>41, <1>k, <1>e DEF ObserveMerge, Closing, At
<1>42. CASE ObservationRefused
  BY <1>42, <1>k, <1>e DEF ObservationRefused, Closing, At
<1>43. CASE HandOffToCloseout
  BY <1>43, <1>k, <1>e DEF HandOffToCloseout, Closing, At
<1>44. CASE AlreadyClosed
  BY <1>44, <1>k, <1>e DEF AlreadyClosed, Closing, At
<1>45. CASE CheckoutBaseline
  BY <1>45, <1>k, <1>e DEF CheckoutBaseline, Closing, Continue, Goto, At
<1>46. CASE FastForwardPull
  BY <1>46, <1>k, <1>e DEF FastForwardPull, Closing, Continue, Goto, At
<1>47. CASE DeleteBothBranches
  BY <1>47, <1>k, <1>e DEF DeleteBothBranches, Closing, Continue, Goto, At
<1>48. CASE WriteCloseoutReport
  BY <1>48, <1>k, <1>e DEF WriteCloseoutReport, Closing, Continue, Goto, At
<1>49. CASE ClosedOut
  BY <1>49, <1>k, <1>e DEF ClosedOut, Closing, At
<1>50. CASE Abort
  BY <1>50, <1>k, <1>e DEF Abort, Cancel, At, TransitionTo, SessionEnds
<1>51. CASE Die
  BY <1>51, <1>k, <1>e DEF Die, Crash, Unaffected, At, SessionEnds
<1>52. CASE Meddle
  BY <1>52, <1>k, <1>e DEF Meddle, Unaffected, At, EditTree, MoveBinding, session
<1>53. CASE Others
  BY <1>53, <1>k, <1>e DEF Others, session, At
<1>54. CASE ChecksFinish
  BY <1>54, <1>k, <1>e DEF ChecksFinish, session, At
<1>55. CASE AutoMerges
  BY <1>55, <1>k, <1>e DEF AutoMerges, session, At
<1>56. CASE PersonSettles
  BY <1>56, <1>k, <1>e DEF PersonSettles, session, At
<1>57. CASE UNCHANGED taskVars
  BY <1>57, <1>k, <1>e DEF taskVars, durable, repository, session, bounds, approvalVars, At
<1> QED
  BY <1>1, <1>2, <1>3, <1>4, <1>5, <1>6, <1>7, <1>8, <1>9, <1>10, <1>11, <1>12, <1>13,
     <1>14, <1>15, <1>16, <1>17, <1>18, <1>19, <1>20, <1>21, <1>22, <1>23, <1>24, <1>25,
     <1>26, <1>27, <1>28, <1>29, <1>30, <1>31, <1>32, <1>33, <1>34, <1>35, <1>36, <1>37,
     <1>38, <1>39, <1>40, <1>41, <1>42, <1>43, <1>44, <1>45, <1>46, <1>47, <1>48, <1>49,
     <1>50, <1>51, <1>52, <1>53, <1>54, <1>55, <1>56, <1>57 DEF Next, DriverStep,
     ImplementerStep, CloseoutStep, GitHub

\* Every step keeps a commit earned.
LEMMA CommitStepKeeps == BaseInv /\ StageInv /\ CommitInv /\ [Next]_taskVars => CommitInv'
<1> SUFFICES ASSUME BaseInv, StageInv, CommitInv, [Next]_taskVars PROVE CommitInv'
  OBVIOUS
<1>b. HistoryInv /\ AttemptInv /\ WorldInv /\ LocalInv /\ ApprovalInv /\ GateInv /\ ForwardInv
      /\ BranchInv /\ AskedInv
  BY DEF BaseInv, StageInv
<1>t. git.commits \in Seq(Trees) /\ git \in Git /\ tree \in Trees
  BY <1>b DEF WorldInv, Git
<1>g. IsApproval(approvals)' /\ Grows /\ (Spent => Spent')
  BY <1>b, ApprovalGrows, GrowthKeeps
<1>m. mode # "none" => machine = State
  BY <1>b, MachineIsStatus
<1>q. Quiet => State' = State
  BY DEF Quiet, State
\* The branch grows by the commit's own command, and is emptied by the close-out.
<1>c. \/ git'.commits = git.commits
      \/ Commits
      \/ git'.commits = <<>> /\ State = "CLOSING" /\ State' = State /\ mode = "closeout"
  BY <1>b, <1>m, <1>q, EffectStep
     DEF SameGit, Pushes, Offers, Arms, Settles, Absorbs, Deletes, Closing
<1>a. Commits => Len(git'.commits) = Len(git.commits) + 1 /\ git'.commits # <<>>
  <2>1. ASSUME Commits PROVE git'.commits = Append(git.commits, tree)
    BY <2>1 DEF Commits
  <2> QED BY <1>t, <2>1
<1>l. Len(git.commits) \in Nat /\ Len(<<>>) = 0
  BY <1>t
<1>1. Len(git'.commits) <= CommitAttempts'
  BY <1>a, <1>b, <1>c, <1>l, AttemptsGrow DEF CommitInv, Commits
<1>2. At("READY_TO_COMMIT", "effect")' => Len(git'.commits) < CommitAttempts'
  <2>1. ASSUME At("READY_TO_COMMIT", "effect")' PROVE Len(git'.commits) < CommitAttempts'
    <3>1. CASE At("READY_TO_COMMIT", "effect")
      <4>1. git'.commits = git.commits
        BY <1>c, <2>1, <3>1 DEF At, Commits
      <4> QED BY <1>b, <1>l, <3>1, <4>1, AttemptsGrow DEF CommitInv
    <3>2. CASE Reserves("READY_TO_COMMIT") /\ git' = git
      BY <1>b, <1>l, <3>2, AttemptsGrow DEF CommitInv
    <3> QED BY <2>1, <3>1, <3>2, EnterEffect
  <2> QED BY <2>1
<1>3. git'.commits # <<>> => Spent'
  <2>1. Commits => Spent
    BY <1>b DEF Commits, GateInv
  <2> QED BY <1>c, <1>g, <2>1 DEF CommitInv
<1>4. ASSUME meddling' = 0 PROVE (Accepted /\ Shown /\ Kept /\ Single)'
  <2>0. meddling = 0
    BY <1>4, <1>b, TreeStep
  <2>i. Accepted /\ Shown /\ Kept /\ Single
    BY <2>0 DEF CommitInv
  <2>t. tree' = tree \/ (State \in {"IMPLEMENTING", "REPAIRING", "CLOSING"} /\ State' = State)
    BY <1>4, <1>b, TreeStep
  <2>m. State' # State => Moves /\ EdgeTable(State, State') /\ git' = git /\ tree' = tree
                          /\ (approvals' = approvals \/ State' = "FAILED")
    BY <1>b, MoveStep
  <2>a. Accepted'
    <3>1. ASSUME State' \in {"QA_RUNNING", "READY_TO_COMMIT"} PROVE tree' \in Valid
      <4>1. CASE State' = State
        BY <2>i, <2>t, <3>1, <4>1 DEF Accepted
      <4>2. CASE State' # State /\ State' = "QA_RUNNING"
        BY <2>m, <4>2 DEF Moves
      <4>3. CASE State' # State /\ State' = "READY_TO_COMMIT"
        <5>1. State = "QA_RUNNING"
          BY <2>m, <4>3 DEF EdgeTable
        <5> QED BY <2>i, <2>m, <4>3, <5>1 DEF Accepted
      <4> QED BY <3>1, <4>1, <4>2, <4>3
    <3> QED BY <3>1 DEF Accepted
  <2>e. State' = "READY_TO_COMMIT" /\ State' # State => approvals = <<>> /\ approvals' = <<>>
                          /\ git.commits = <<>> /\ git'.commits = <<>>
    <3>1. ASSUME State' = "READY_TO_COMMIT", State' # State PROVE State = "QA_RUNNING"
      BY <2>m, <3>1 DEF EdgeTable
    <3>2. State = "QA_RUNNING" => approvals = <<>>
      BY <1>b DEF AskedInv, Gated
    <3>3. approvals = <<>> => Len(approvals) = 0
      OBVIOUS
    <3>4. approvals = <<>> => git.commits = <<>>
      BY <3>3 DEF CommitInv, Spent
    <3> QED BY <2>m, <3>1, <3>2, <3>4
  <2>b. Shown'
    <3>1. ASSUME State' = "READY_TO_COMMIT", approvals' # <<>> PROVE approvals'[1].shown = tree'
      <4>1. State = "READY_TO_COMMIT" /\ tree' = tree
        BY <2>e, <2>t, <3>1
      <4>2. CASE approvals # <<>>
        <5>1. approvals'[1] = approvals[1]
          BY <1>b, <1>g, <4>2, GrowthKeeps
        <5> QED BY <2>i, <4>1, <4>2, <5>1 DEF Shown
      <4>3. CASE approvals = <<>>
        <5>1. Len(approvals) = 0
          BY <4>3
        <5>2. Asks
          <6>1. GateSpends => Granted
            BY <1>b DEF GateSpends, GateInv
          <6> QED BY <1>b, <3>1, <4>3, <5>1, <6>1, ApprovalStep
              DEF Granted, Tells, Answered, Elapses
        <5>3. PICK overlays \in Resolvable : approvals' =
                  <<Requested(resolve_approval_policy(overlays), local.checksums, tree)>>
          BY <5>2 DEF Asks
        <5>4. approvals'[1] = Requested(resolve_approval_policy(overlays), local.checksums, tree)
          BY <5>3
        <5>5. approvals'[1].shown = tree
          BY <5>4 DEF Requested
        <5> QED BY <4>1, <5>5
      <4> QED BY <4>2, <4>3
    <3> QED BY <3>1 DEF Shown
  \* The command that would commit again finds the tree clean.
  <2>n. Commits => git.commits = <<>> /\ State = "READY_TO_COMMIT"
    <3>1. ASSUME Commits, git.commits # <<>> PROVE FALSE
      <4>1. State = "READY_TO_COMMIT" /\ ~ Clean
        BY <1>m, <3>1 DEF Commits, At
      <4>2. git.commits = <<tree>> /\ git.current = "stage"
        BY <1>b, <2>i, <3>1, <4>1 DEF Kept, BranchInv, Staged
      <4>3. git.commits[Len(git.commits)] = tree
        BY <4>2
      <4>4. HeadContent = tree
        BY <3>1, <4>2, <4>3 DEF HeadContent
      <4> QED BY <4>1, <4>4 DEF Clean, WorkingTreePaths
    <3> QED BY <1>m, <3>1 DEF Commits, At
  <2>o. Commits => git'.commits = <<tree>> /\ tree' = tree /\ State' = State /\ approvals' = approvals
    <3>1. ASSUME Commits PROVE git'.commits = <<tree>>
      <4>1. git'.commits = Append(<<>>, tree)
        BY <2>n, <3>1 DEF Commits
      <4> QED BY <4>1
    <3> QED BY <1>q, <3>1 DEF Commits, Quiet
  <2>c. Kept'
    <3>1. ASSUME State' = "READY_TO_COMMIT", git'.commits # <<>> PROVE git'.commits = <<tree'>>
      <4>1. State = "READY_TO_COMMIT" /\ tree' = tree
        BY <2>e, <2>t, <3>1
      <4> QED BY <1>c, <2>i, <2>o, <3>1, <4>1 DEF Kept
    <3> QED BY <3>1 DEF Kept
  <2>d. Single'
    <3>1. ASSUME git'.commits # <<>>, git'.commits = git.commits
          PROVE  Len(git'.commits) = 1 /\ git'.commits[1] = approvals'[1].shown
                 /\ git'.commits[1] \in Valid
      <4>0. approvals = <<>> => Len(approvals) = 0
        OBVIOUS
      <4>1. approvals # <<>>
        BY <3>1, <4>0 DEF CommitInv, Spent
      <4>2. approvals'[1] = approvals[1]
        BY <1>b, <1>g, <4>1, GrowthKeeps
      <4> QED BY <2>i, <3>1, <4>2 DEF Single
    <3>2. ASSUME Commits
          PROVE  Len(git'.commits) = 1 /\ git'.commits[1] = approvals'[1].shown
                 /\ git'.commits[1] \in Valid
      <4>1. git'.commits = <<tree>> /\ State = "READY_TO_COMMIT" /\ approvals' = approvals
        BY <2>n, <2>o, <3>2
      <4>2. Len(git'.commits) = 1 /\ git'.commits[1] = tree
        BY <4>1
      <4>3. approvals # <<>>
        <5>1. Spent
          BY <1>b, <3>2 DEF Commits, GateInv
        <5>2. approvals = <<>> => Len(approvals) = 0
          OBVIOUS
        <5> QED BY <5>1, <5>2 DEF Spent
      <4>4. tree \in Valid /\ approvals[1].shown = tree
        BY <2>i, <4>1, <4>3 DEF Accepted, Shown
      <4> QED BY <4>1, <4>2, <4>4
    <3> QED BY <1>c, <3>1, <3>2 DEF Single
  <2> QED BY <2>a, <2>b, <2>c, <2>d
<1> QED BY <1>1, <1>2, <1>3, <1>4 DEF CommitInv

\* Nothing is committed at the start.
LEMMA CommitInit == Init => CommitInv
<1> SUFFICES ASSUME Init PROVE CommitInv
  OBVIOUS
<1>1. git.commits = <<>> /\ mode = "none" /\ transitions = <<>>
      /\ attempts = [c \in Counters |-> [started |-> {}, completed |-> {}]]
  BY DEF Init, SessionInit
<1>2. Len(git.commits) = 0 /\ State = "CREATED"
  BY <1>1 DEF State, StateAfter
<1>3. CommitAttempts = 0
  <2>1. StartedNumbers("READY_TO_COMMIT") = {}
    BY <1>1, CounterNames DEF StartedNumbers
  <2> QED BY <2>1, FS_EmptySet DEF CommitAttempts
<1> QED BY <1>1, <1>2, <1>3 DEF CommitInv, Accepted, Shown, Kept, Single, At

\* A commit is made under its own attempt, after an approval was given and spent; while nobody
\* else touches the repository a task commits once, the tree that was shown and checked.
THEOREM CommitsAlwaysEarned == Spec => []CommitsAreEarned
<1>1. ASSUME BaseInv, CommitInv PROVE CommitsAreEarned
  <2>1. ASSUME git.commits # <<>>
        PROVE  \E i, j \in 1 .. Len(approvals) :
                  /\ i < j /\ Approved(i) /\ approvals[j].kind = "CONSUMED"
                  /\ approvals[i].origin = "AUTO" => Silence(i).source \in {"gate", "run"}
    <3>0. Len(approvals) \in Nat
      BY <1>1 DEF BaseInv, ApprovalInv, IsApproval
    <3>1. PICK j \in 2 .. Len(approvals) : approvals[j].kind = "CONSUMED"
      BY <1>1, <2>1 DEF CommitInv, Spent
    <3>2. PICK i \in 2 .. Len(approvals) : i < j /\ Approved(i)
      BY <1>1, <3>1 DEF BaseInv, GateInv
    <3>3. approvals[i].origin = "AUTO" => Silence(i).source \in {"gate", "run"}
      BY <1>1, <3>2 DEF BaseInv, ApprovalInv, SilenceConsents, Approved
    <3>4. i \in 1 .. Len(approvals) /\ j \in 1 .. Len(approvals)
      BY <3>0
    <3> QED BY <3>1, <3>2, <3>3, <3>4
  <2>2. meddling = 0 => Len(git.commits) <= 1
    <3>1. git.commits = <<>> => Len(git.commits) = 0
      OBVIOUS
    <3>2. meddling = 0 => Single
      BY <1>1 DEF CommitInv
    <3>3. Single => git.commits = <<>> \/ Len(git.commits) = 1
      BY DEF Single
    <3>4. Len(git.commits) \in Nat
      BY <1>1 DEF BaseInv, WorldInv, Git
    <3> SUFFICES ASSUME meddling = 0 PROVE Len(git.commits) <= 1
      OBVIOUS
    <3>5. Len(git.commits) = 0 \/ Len(git.commits) = 1
      BY <3>1, <3>2, <3>3
    <3>6. \A n \in Nat : n = 0 \/ n = 1 => n <= 1
      OBVIOUS
    <3> QED BY <3>4, <3>5, <3>6
  <2>3. git.commits # <<>> /\ meddling = 0 =>
            git.commits[1] = approvals[1].shown /\ git.commits[1] \in Valid
    BY <1>1 DEF CommitInv, Single
  <2> QED BY <1>1, <2>1, <2>2, <2>3 DEF CommitsAreEarned, CommitInv, CommitAttempts
<1> QED BY <1>1, BaseInit, BaseStepKeeps, StageInit, StageStepKeeps, CommitInit, CommitStepKeeps,
           PTL DEF Spec

-----------------------------------------------------------------------------
(* The promise.  Each status rests on the effects before it, and each handler that is about to *)
(* report its effect has seen it.                                                             *)

MergedStates == {"MERGED", "CLOSING", "DONE"}
ArmedStates == {"AUTO_MERGE_ENABLED", "WAITING_FOR_CHECKS"} \cup MergedStates
OpenedStates == {"PR_OPEN"} \cup ArmedStates
PushedStates == {"PUSHED"} \cup OpenedStates
CommittedStates == {"COMMITTED"} \cup PushedStates
IsArmed == remote.auto \/ remote.pr = "merged"

EffectsInv ==
    /\ State \in CommittedStates => Absorbed \/ git.commits # <<>>
    /\ State \in PushedStates => Absorbed \/ remote.commits # <<>>
    /\ State \in OpenedStates => remote.pr # "none"
    /\ State \in ArmedStates => IsArmed
    /\ State \in MergedStates => remote.pr = "merged"
    /\ Absorbed => State \in {"CLOSING", "DONE", "FAILED"}
    /\ remote.pr = "none" => ~ remote.auto
    /\ reports.closeout => Absorbed

HasSeen(state) == (At(state, "effect_done") /\ local.ok) \/ At(state, "forward")
HandlerInv ==
    /\ HasSeen("READY_TO_COMMIT") => git.commits # <<>>
    /\ HasSeen("COMMITTED") => remote.commits # <<>>
    /\ HasSeen("PUSHED") => remote.pr # "none"
    /\ Closing("PR_OPEN", "auto_enabled") => IsArmed
    /\ mode = "closeout" /\ machine = "CLOSING" /\ pc \in {"pulled", "cleaned", "closed_out"}
           => Absorbed

\* The close-out's report comes after the baseline took the merge in.
LEMMA CloseoutReportStep ==
    ASSUME WorldInv, [Next]_taskVars
    PROVE  \/ reports'.closeout = reports.closeout
           \/ /\ mode = "closeout" /\ machine = "CLOSING" /\ pc \in {"pulled", "cleaned"}
              /\ git' = git /\ Quiet
<1>a. reports \in Reports
  BY DEF WorldInv

<1>1. CASE Start
  BY <1>1, <1>a DEF Start, StartSession
<1>2. CASE Implement
  BY <1>2, <1>a DEF Implement, Unaffected
<1>3. CASE CloseOut
  BY <1>3, <1>a DEF CloseOut, Unaffected
<1>4. CASE DriftOnResume
  BY <1>4, <1>a DEF DriftOnResume, Unaffected
<1>5. CASE Authorize
  BY <1>5, <1>a DEF Authorize
<1>6. CASE CheckPreconditions
  BY <1>6, <1>a DEF CheckPreconditions, records
<1>7. CASE CreateStageBranch
  BY <1>7, <1>a DEF CreateStageBranch, records
<1>8. CASE CheckoutStageBranch
  BY <1>8, <1>a DEF CheckoutStageBranch, records
<1>9. CASE BranchReady
  BY <1>9, <1>a DEF BranchReady, records
<1>10. CASE HandOff
  BY <1>10, <1>a DEF HandOff, records
<1>11. CASE ReconcileImplementation
  BY <1>11, <1>a DEF ReconcileImplementation
<1>12. CASE JudgeReconciled
  BY <1>12, <1>a DEF JudgeReconciled, records
<1>13. CASE AbandonRepair
  BY <1>13, <1>a DEF AbandonRepair, records
<1>14. CASE StartAttempt
  BY <1>14, <1>a DEF StartAttempt
<1>15. CASE RunProvider
  BY <1>15, <1>a DEF RunProvider, records
<1>16. CASE CompleteAttempt
  BY <1>16, <1>a DEF CompleteAttempt
<1>17. CASE WriteStageReport
  BY <1>17, <1>a DEF WriteStageReport, Reports
<1>18. CASE AttemptFailed
  BY <1>18, <1>a DEF AttemptFailed, records
<1>19. CASE Validate
  BY <1>19, <1>a DEF Validate, EnterRepairOrFail, Reports
<1>20. CASE RunQa
  BY <1>20, <1>a DEF RunQa, Reports
<1>21. CASE JudgeQa
  BY <1>21, <1>a DEF JudgeQa, EnterRepairOrFail, Reports
<1>22. CASE BeginRepair
  BY <1>22, <1>a DEF BeginRepair, records
<1>23. CASE GateChecksums
  BY <1>23, <1>a DEF GateChecksums, records
<1>24. CASE GateRequests
  BY <1>24, <1>a DEF GateRequests, records
<1>25. CASE GateEvaluates
  BY <1>25, <1>a DEF GateEvaluates, records
<1>26. CASE GateCompares
  BY <1>26, <1>a DEF GateCompares, records
<1>27. CASE GateSpends
  BY <1>27, <1>a DEF GateSpends, records
<1>28. CASE GateInvalidates
  BY <1>28, <1>a DEF GateInvalidates, records
<1>29. CASE StartEffect
  BY <1>29, <1>a DEF StartEffect
<1>30. CASE create_commit
  BY <1>30, <1>a DEF create_commit, Sees, records
<1>31. CASE push_stage_branch
  BY <1>31, <1>a DEF push_stage_branch, Sees, records
<1>32. CASE create_pull_request
  BY <1>32, <1>a DEF create_pull_request, Sees, records
<1>33. CASE CompleteEffect
  BY <1>33, <1>a DEF CompleteEffect
<1>34. CASE Forward
  BY <1>34, <1>a DEF Forward, records
<1>35. CASE Surrender
  BY <1>35, <1>a DEF Surrender, records
<1>36. CASE RunEnds
  BY <1>36, <1>a DEF RunEnds, records
<1>37. CASE EnableAutoMerge
  BY <1>37, <1>a DEF EnableAutoMerge, records
<1>38. CASE AutoMergeEnabled
  BY <1>38, <1>a DEF AutoMergeEnabled, records
<1>39. CASE ObserveAutoMerge
  BY <1>39, <1>a DEF ObserveAutoMerge, records
<1>40. CASE WaitMore
  BY <1>40, <1>a DEF WaitMore, records
<1>41. CASE ObserveMerge
  BY <1>41, <1>a DEF ObserveMerge, records
<1>42. CASE ObservationRefused
  BY <1>42, <1>a DEF ObservationRefused, records
<1>43. CASE HandOffToCloseout
  BY <1>43, <1>a DEF HandOffToCloseout, records
<1>44. CASE AlreadyClosed
  BY <1>44, <1>a DEF AlreadyClosed, records
<1>45. CASE CheckoutBaseline
  BY <1>45, <1>a DEF CheckoutBaseline, records
<1>46. CASE FastForwardPull
  BY <1>46, <1>a DEF FastForwardPull, records
<1>47. CASE DeleteBothBranches
  BY <1>47, <1>a DEF DeleteBothBranches, records
<1>48. CASE WriteCloseoutReport
  <2>1. CASE reports' = reports
    BY <2>1
  <2>2. CASE reports' # reports
    BY <1>48, <2>2 DEF WriteCloseoutReport, Closing, Continue, world, repository, approvalVars, Quiet
  <2> QED BY <2>1, <2>2
<1>49. CASE ClosedOut
  BY <1>49, <1>a DEF ClosedOut, records
<1>50. CASE Abort
  BY <1>50, <1>a DEF Abort
<1>51. CASE Die
  BY <1>51, <1>a DEF Die, Unaffected
<1>52. CASE Meddle
  BY <1>52, <1>a DEF Meddle, Unaffected
<1>53. CASE Others
  BY <1>53, <1>a DEF Others
<1>54. CASE ChecksFinish
  BY <1>54, <1>a DEF ChecksFinish
<1>55. CASE AutoMerges
  BY <1>55, <1>a DEF AutoMerges
<1>56. CASE PersonSettles
  BY <1>56, <1>a DEF PersonSettles
<1>57. CASE UNCHANGED taskVars
  BY <1>57, <1>a DEF taskVars, durable, repository, session, bounds, approvalVars
<1> QED
  BY <1>1, <1>2, <1>3, <1>4, <1>5, <1>6, <1>7, <1>8, <1>9, <1>10, <1>11, <1>12, <1>13,
     <1>14, <1>15, <1>16, <1>17, <1>18, <1>19, <1>20, <1>21, <1>22, <1>23, <1>24, <1>25,
     <1>26, <1>27, <1>28, <1>29, <1>30, <1>31, <1>32, <1>33, <1>34, <1>35, <1>36, <1>37,
     <1>38, <1>39, <1>40, <1>41, <1>42, <1>43, <1>44, <1>45, <1>46, <1>47, <1>48, <1>49,
     <1>50, <1>51, <1>52, <1>53, <1>54, <1>55, <1>56, <1>57 DEF Next, DriverStep,
     ImplementerStep, CloseoutStep, GitHub

\* Every step keeps each status on the effects before it.
LEMMA EffectsStepKeeps ==
    ASSUME BaseInv, StageInv, EffectsInv, HandlerInv, [Next]_taskVars
    PROVE  EffectsInv'
<1> USE DEF MergedStates, ArmedStates, OpenedStates, PushedStates, CommittedStates, IsArmed, Absorbed
<1>b. HistoryInv /\ WorldInv /\ ForwardInv
  BY DEF BaseInv, StageInv
<1>m. mode # "none" => machine = State
  BY <1>b, MachineIsStatus
<1>t. git.commits \in Seq(Trees)
  BY <1>b DEF WorldInv, Git
<1>c. reports'.closeout => Absorbed'
  <2>1. reports.closeout => Absorbed
    BY DEF EffectsInv
  <2>2. Absorbed => Absorbed'
    BY <1>b, EffectStep DEF SameGit, Commits, Pushes, Offers, Arms, Settles, Absorbs, Deletes
  <2>3. mode = "closeout" /\ machine = "CLOSING" /\ pc \in {"pulled", "cleaned"} => Absorbed
    BY DEF HandlerInv
  <2> QED BY <1>b, <2>1, <2>2, <2>3, CloseoutReportStep
<1>1. CASE State' # State
  <2>1. Moves /\ EdgeTable(State, State') /\ git' = git /\ remote' = remote
    BY <1>1, <1>b, MoveStep
  <2>2. /\ State' = "COMMITTED" => git.commits # <<>>
        /\ State' = "PUSHED" => remote.commits # <<>>
        /\ State' = "PR_OPEN" => remote.pr # "none"
        /\ State' = "AUTO_MERGE_ENABLED" => IsArmed
        /\ State' = "MERGED" => remote.pr = "merged"
    BY <2>1 DEF Moves, HandlerInv, HasSeen, EdgeTable
  <2> QED BY <1>c, <2>1, <2>2 DEF EffectsInv, EdgeTable, CANCELLABLE, TERMINAL_STATES
<1>2. CASE State' = State
  <2>1. CASE SameGit /\ SameRemote
    BY <1>c, <1>2, <2>1 DEF EffectsInv, SameGit, SameRemote
  <2>2. CASE Commits
    <3>1. git'.commits # <<>>
      <4>1. git'.commits = Append(git.commits, tree) /\ tree \in Trees
        BY <1>b, <2>2 DEF Commits, WorldInv
      <4>2. Len(git'.commits) = Len(git.commits) + 1 /\ Len(git.commits) \in Nat
        BY <1>t, <4>1
      <4>3. Len(<<>>) = 0
        OBVIOUS
      <4> QED BY <4>2, <4>3
    <3> QED BY <1>c, <1>2, <2>2, <3>1 DEF EffectsInv, Commits, SameRemote
  <2>3. CASE Pushes
    BY <1>c, <1>2, <1>m, <2>3 DEF EffectsInv, Pushes, SameGit, At
  <2>4. CASE Offers
    BY <1>c, <1>2, <1>m, <2>4 DEF EffectsInv, Offers, SameGit, At
  <2>5. CASE Arms
    BY <1>c, <1>2, <1>m, <2>5 DEF EffectsInv, Arms, SameGit
  <2>6. CASE Settles
    BY <1>c, <1>2, <2>6 DEF EffectsInv, Settles, SameGit
  <2>7. CASE Absorbs
    BY <1>c, <1>2, <1>m, <2>7 DEF EffectsInv, Absorbs, SameRemote, Closing
  <2>8. CASE Deletes
    <3>1. Absorbed
      BY <2>8 DEF Deletes, HandlerInv, Closing
    <3> QED BY <1>c, <1>2, <1>m, <2>8, <3>1 DEF EffectsInv, Deletes, Closing
  <2> QED BY <1>b, <2>1, <2>2, <2>3, <2>4, <2>5, <2>6, <2>7, <2>8, EffectStep
<1> QED BY <1>1, <1>2

\* Every step keeps what a handler has seen in the world.
LEMMA HandlerStepKeeps ==
    ASSUME BaseInv, StageInv, EffectsInv, HandlerInv, [Next]_taskVars
    PROVE  HandlerInv'
<1>b. HistoryInv /\ WorldInv /\ git \in Git /\ remote \in Remote /\ local \in LocalRecords
  BY DEF BaseInv, WorldInv, LocalInv
<1>m. mode # "none" => machine = State
  BY <1>b, MachineIsStatus
<1>t. git.commits \in Seq(Trees) /\ tree \in Trees
  BY <1>b DEF WorldInv, Git
<1>n. Append(git.commits, tree) # <<>>
  BY <1>t, AppendProperties
<1>o. mode = "implementer" /\ machine = "COMMITTED" => git.commits # <<>>
  BY <1>m DEF EffectsInv, CommittedStates
<1>k. /\ mode # "closeout" /\ git.commits # <<>> => git'.commits # <<>>
      /\ mode # "closeout" /\ remote.commits # <<>> => remote'.commits # <<>>
      /\ remote.pr # "none" => remote'.pr # "none"
      /\ mode = "closeout" /\ IsArmed => IsArmed'
      /\ Absorbed => Absorbed'
  BY <1>b, <1>n, <1>o, EffectStep DEF SameGit, SameRemote, Commits, Pushes, Offers, Arms, Settles,
     Absorbs, Deletes, At, Closing, IsArmed, Absorbed
<1>h. /\ mode = "implementer" /\ machine = "READY_TO_COMMIT"
             /\ ((pc = "effect_done" /\ local.ok) \/ pc = "forward")
             => git.commits # <<>>
      /\ mode = "implementer" /\ machine = "COMMITTED"
             /\ ((pc = "effect_done" /\ local.ok) \/ pc = "forward")
             => remote.commits # <<>>
      /\ mode = "implementer" /\ machine = "PUSHED"
             /\ ((pc = "effect_done" /\ local.ok) \/ pc = "forward")
             => remote.pr # "none"
      /\ mode = "closeout" /\ machine = "PR_OPEN" /\ pc = "auto_enabled" => IsArmed
      /\ mode = "closeout" /\ machine = "CLOSING" /\ pc \in {"pulled", "cleaned", "closed_out"}
             => Absorbed
  BY DEF HandlerInv, HasSeen, At, Closing
<1>f. (Raised => mode' = "none") /\ (Fail => mode' = "none" \/ pc' = "step")
      /\ \A to : Advance(to) => mode' = "none" \/ pc' = "step"
  BY DEF Raised, SessionEnds, Fail, Advance, TransitionTo
<1> DEFINE Goal ==
      /\ mode = "implementer" /\ machine = "READY_TO_COMMIT"
             /\ ((pc = "effect_done" /\ local.ok) \/ pc = "forward")
             => git.commits # <<>>
      /\ mode = "implementer" /\ machine = "COMMITTED"
             /\ ((pc = "effect_done" /\ local.ok) \/ pc = "forward")
             => remote.commits # <<>>
      /\ mode = "implementer" /\ machine = "PUSHED"
             /\ ((pc = "effect_done" /\ local.ok) \/ pc = "forward")
             => remote.pr # "none"
      /\ mode = "closeout" /\ machine = "PR_OPEN" /\ pc = "auto_enabled" => IsArmed
      /\ mode = "closeout" /\ machine = "CLOSING" /\ pc \in {"pulled", "cleaned", "closed_out"}
             => Absorbed
<1>g. Goal'

  <2>1. CASE Start
    BY <2>1, <1>h, <1>k, <1>f DEF Start, StartSession
  <2>2. CASE Implement
    BY <2>2, <1>h, <1>k, <1>f DEF Implement, ResumeImplementer, Unaffected
  <2>3. CASE CloseOut
    BY <2>3, <1>h, <1>k, <1>f DEF CloseOut, ResumeCloseout, Unaffected
  <2>4. CASE DriftOnResume
    BY <2>4, <1>h, <1>k, <1>f DEF DriftOnResume, Unaffected, ResumeDrifts, session
  <2>5. CASE Authorize
    BY <2>5, <1>h, <1>k, <1>f DEF Authorize, RecordAuthorization, Keep, At, Locals,
       TransitionTo, SessionEnds
  <2>6. CASE CheckPreconditions
    BY <2>6, <1>h, <1>k, <1>f DEF CheckPreconditions, At
  <2>7. CASE CreateStageBranch
    BY <2>7, <1>h, <1>k, <1>f DEF CreateStageBranch, At, Continue, Goto, Keep, Locals
  <2>8. CASE CheckoutStageBranch
    BY <2>8, <1>h, <1>k, <1>f DEF CheckoutStageBranch, At, Continue, Goto, Keep, Locals
  <2>9. CASE BranchReady
    BY <2>9, <1>h, <1>k, <1>f DEF BranchReady, At
  <2>10. CASE HandOff
    BY <2>10, <1>h, <1>k, <1>f DEF HandOff, At
  <2>11. CASE ReconcileImplementation
    BY <2>11, <1>h, <1>k, <1>f DEF ReconcileImplementation, At, Continue, Goto, Keep, Locals
  <2>12. CASE JudgeReconciled
    BY <2>12, <1>h, <1>k, <1>f DEF JudgeReconciled, At, Continue, Goto, Keep, Locals
  <2>13. CASE AbandonRepair
    BY <2>13, <1>h, <1>k, <1>f DEF AbandonRepair, At
  <2>14. CASE StartAttempt
    BY <2>14, <1>h, <1>k, <1>f DEF StartAttempt, Continue, Goto, Keep, Locals
  <2>15. CASE RunProvider
    BY <2>15, <1>h, <1>k, <1>f DEF RunProvider, Goto
  <2>16. CASE CompleteAttempt
    BY <2>16, <1>h, <1>k, <1>f DEF CompleteAttempt, Continue, Goto, Keep, Locals
  <2>17. CASE WriteStageReport
    BY <2>17, <1>h, <1>k, <1>f DEF WriteStageReport, Continue, Goto, Keep, Locals,
       EDITING_STATES
  <2>18. CASE AttemptFailed
    BY <2>18, <1>h, <1>k, <1>f DEF AttemptFailed, Continue, Goto, Keep, Locals
  <2>19. CASE Validate
    BY <2>19, <1>h, <1>k, <1>f DEF Validate, At, EnterRepairOrFail, Continue, Goto, Keep,
       Locals
  <2>20. CASE RunQa
    BY <2>20, <1>h, <1>k, <1>f DEF RunQa, At, Continue, Goto, Keep, Locals
  <2>21. CASE JudgeQa
    BY <2>21, <1>h, <1>k, <1>f DEF JudgeQa, At, EnterRepairOrFail, Continue, Goto, Keep,
       Locals
  <2>22. CASE BeginRepair
    BY <2>22, <1>h, <1>k, <1>f DEF BeginRepair
  <2>23. CASE GateChecksums
    BY <2>23, <1>h, <1>k, <1>f DEF GateChecksums, At, Goto
  <2>24. CASE GateRequests
    BY <2>24, <1>h, <1>k, <1>f DEF GateRequests, At, Continue, Goto, Keep, Locals
  <2>25. CASE GateEvaluates
    BY <2>25, <1>h, <1>k, <1>f DEF GateEvaluates, At, GateDecides, Continue, Goto, Keep,
       Locals
  <2>26. CASE GateCompares
    BY <2>26, <1>h, <1>k, <1>f DEF GateCompares, At, Continue, Goto, Keep, Locals
  <2>27. CASE GateSpends
    BY <2>27, <1>h, <1>k, <1>f DEF GateSpends, At, Continue, Goto, Keep, Locals
  <2>28. CASE GateInvalidates
    BY <2>28, <1>h, <1>k, <1>f DEF GateInvalidates, At, Continue, Goto, Keep, Locals
  <2>29. CASE StartEffect
    BY <2>29, <1>h, <1>k, <1>f DEF StartEffect, InEffect, Continue, Goto, Keep, Locals
  <2>30. CASE create_commit
    <3>1. local'.ok => git'.commits = Append(git.commits, tree)
      BY <1>b, <2>30 DEF create_commit, Sees, Git, LocalRecords
    <3>2. mode' = "implementer" /\ machine' = "READY_TO_COMMIT" /\ pc' = "effect_done"
      BY <2>30 DEF create_commit, InEffect, Sees, Goto
    <3> QED BY <1>n, <3>1, <3>2
  <2>31. CASE push_stage_branch
    <3>1. local'.ok => remote'.commits = git.commits
      BY <1>b, <2>31 DEF push_stage_branch, Sees, Remote, LocalRecords
    <3>2. mode' = "implementer" /\ machine' = "COMMITTED" /\ pc' = "effect_done" /\ git.commits # <<>>
      BY <1>o, <2>31 DEF push_stage_branch, InEffect, Sees, Goto
    <3> QED BY <3>1, <3>2
  <2>32. CASE create_pull_request
    <3>1. local'.ok => remote'.pr = "open"
      BY <1>b, <2>32 DEF create_pull_request, Sees, Remote, LocalRecords
    <3>2. mode' = "implementer" /\ machine' = "PUSHED" /\ pc' = "effect_done"
      BY <2>32 DEF create_pull_request, InEffect, Sees, Goto
    <3> QED BY <3>1, <3>2
  <2>33. CASE CompleteEffect
    BY <2>33, <1>h, <1>k, <1>f DEF CompleteEffect, InEffect, Continue, Goto, Keep, Locals,
       EFFECT_STATES
  <2>34. CASE Forward
    BY <2>34, <1>h, <1>k, <1>f DEF Forward
  <2>35. CASE Surrender
    BY <2>35, <1>h, <1>k, <1>f DEF Surrender
  <2>36. CASE RunEnds
    BY <2>36, <1>h, <1>k, <1>f DEF RunEnds
  <2>37. CASE EnableAutoMerge
    <3>1. \/ mode' = "none" \/ pc' = "step"
          \/ /\ remote' = [remote EXCEPT !.auto = TRUE] /\ pc' = "auto_enabled"
             /\ mode' = mode /\ machine' = machine
      BY <1>f, <2>37 DEF EnableAutoMerge, EnableAutomaticSquashMerge, Continue, Goto
    <3>2. remote' = [remote EXCEPT !.auto = TRUE] => remote'.auto
      BY <1>b DEF Remote
    <3>3. mode = "closeout" /\ machine = "PR_OPEN"
      BY <2>37 DEF EnableAutoMerge, Closing
    <3> QED BY <3>1, <3>2, <3>3 DEF IsArmed
  <2>38. CASE AutoMergeEnabled
    BY <2>38, <1>h, <1>k, <1>f DEF AutoMergeEnabled, Closing
  <2>39. CASE ObserveAutoMerge
    BY <2>39, <1>h, <1>k, <1>f DEF ObserveAutoMerge, Closing
  <2>40. CASE WaitMore
    BY <2>40, <1>h, <1>k, <1>f DEF WaitMore, Closing, session
  <2>41. CASE ObserveMerge
    BY <2>41, <1>h, <1>k, <1>f DEF ObserveMerge, Closing
  <2>42. CASE ObservationRefused
    BY <2>42, <1>h, <1>k, <1>f DEF ObservationRefused, Closing
  <2>43. CASE HandOffToCloseout
    BY <2>43, <1>h, <1>k, <1>f DEF HandOffToCloseout, Closing
  <2>44. CASE AlreadyClosed
    BY <2>44, <1>h, <1>k, <1>f DEF AlreadyClosed, Closing
  <2>45. CASE CheckoutBaseline
    BY <2>45, <1>h, <1>k, <1>f DEF CheckoutBaseline, Closing, Continue, Goto, Keep, Locals
  <2>46. CASE FastForwardPull
    <3>1. \/ mode' = "none" \/ pc' = "step"
          \/ /\ git' = [git EXCEPT !.baseline = "merged"] /\ pc' = "pulled"
             /\ mode' = mode /\ machine' = machine
      BY <1>f, <2>46 DEF FastForwardPull, fast_forward_pull, Continue, Goto
    <3>2. git' = [git EXCEPT !.baseline = "merged"] => Absorbed'
      BY <1>b DEF Git, Absorbed
    <3>3. mode = "closeout" /\ machine = "CLOSING"
      BY <2>46 DEF FastForwardPull, Closing
    <3> QED BY <3>1, <3>2, <3>3
  <2>47. CASE DeleteBothBranches
    BY <2>47, <1>h, <1>k, <1>f DEF DeleteBothBranches, Closing, Continue, Goto, Keep, Locals
  <2>48. CASE WriteCloseoutReport
    BY <2>48, <1>h, <1>k, <1>f DEF WriteCloseoutReport, Closing, Continue, Goto, Keep,
       Locals
  <2>49. CASE ClosedOut
    BY <2>49, <1>h, <1>k, <1>f DEF ClosedOut, Closing
  <2>50. CASE Abort
    BY <2>50, <1>h, <1>k, <1>f DEF Abort, Cancel, Keep, Locals, TransitionTo, SessionEnds
  <2>51. CASE Die
    BY <2>51, <1>h, <1>k, <1>f DEF Die, Crash, Keep, Unaffected, Locals, SessionEnds
  <2>52. CASE Meddle
    BY <2>52, <1>h, <1>k, <1>f DEF Meddle, Unaffected, EditTree, MoveBinding, session
  <2>53. CASE Others
    BY <2>53, <1>h, <1>k, <1>f DEF Others, session
  <2>54. CASE ChecksFinish
    BY <2>54, <1>h, <1>k, <1>f DEF ChecksFinish, session
  <2>55. CASE AutoMerges
    BY <2>55, <1>h, <1>k, <1>f DEF AutoMerges, session
  <2>56. CASE PersonSettles
    BY <2>56, <1>h, <1>k, <1>f DEF PersonSettles, session
  <2>57. CASE UNCHANGED taskVars
    BY <2>57, <1>h, <1>k, <1>f DEF taskVars, durable, repository, session, bounds,
       approvalVars
  <2> QED
    BY <2>1, <2>2, <2>3, <2>4, <2>5, <2>6, <2>7, <2>8, <2>9, <2>10, <2>11, <2>12, <2>13,
       <2>14, <2>15, <2>16, <2>17, <2>18, <2>19, <2>20, <2>21, <2>22, <2>23, <2>24, <2>25,
       <2>26, <2>27, <2>28, <2>29, <2>30, <2>31, <2>32, <2>33, <2>34, <2>35, <2>36, <2>37,
       <2>38, <2>39, <2>40, <2>41, <2>42, <2>43, <2>44, <2>45, <2>46, <2>47, <2>48, <2>49,
       <2>50, <2>51, <2>52, <2>53, <2>54, <2>55, <2>56, <2>57 DEF Next, DriverStep,
       ImplementerStep, CloseoutStep, GitHub

<1> QED BY <1>g DEF HandlerInv, HasSeen, At, Closing

\* What the promise needs holds at the start.
LEMMA PromiseInvInit == Init => EffectsInv /\ HandlerInv
<1> SUFFICES ASSUME Init PROVE EffectsInv /\ HandlerInv
  OBVIOUS
<1>1. /\ transitions = <<>> /\ mode = "none" /\ git.baseline = "bound"
      /\ remote.pr = "none" /\ remote.auto = FALSE /\ reports.closeout = FALSE
  BY DEF Init, SessionInit
<1>2. State = "CREATED"
  BY <1>1 DEF State, StateAfter
<1> QED
  BY <1>1, <1>2 DEF EffectsInv, HandlerInv, HasSeen, At, Closing, Absorbed, MergedStates,
     ArmedStates, OpenedStates, PushedStates, CommittedStates

PromiseInv == BaseInv /\ StageInv /\ EffectsInv /\ HandlerInv

\* Every step keeps what the promise needs.
LEMMA PromiseInvStepKeeps == PromiseInv /\ [Next]_taskVars => PromiseInv'
BY BaseStepKeeps, StageStepKeeps, EffectsStepKeeps, HandlerStepKeeps DEF PromiseInv

\* The effects the world shows.
Made ==
    {e \in {"commit", "push", "offer", "arm", "merge", "absorb"} :
        CASE e = "commit" -> Absorbed \/ git.commits # <<>>
          [] e = "push"   -> Absorbed \/ remote.commits # <<>>
          [] e = "offer"  -> remote.pr # "none"
          [] e = "arm"    -> remote.auto \/ remote.pr = "merged"
          [] e = "merge"  -> remote.pr = "merged"
          [] e = "absorb" -> Absorbed}
MadeTells ==
    /\ Made \subseteq {"commit", "push", "offer", "arm", "merge", "absorb"}
    /\ "commit" \in Made <=> Absorbed \/ git.commits # <<>>
    /\ "push" \in Made <=> Absorbed \/ remote.commits # <<>>
    /\ "offer" \in Made <=> remote.pr # "none"
    /\ "arm" \in Made <=> remote.auto \/ remote.pr = "merged"
    /\ "merge" \in Made <=> remote.pr = "merged"
    /\ "absorb" \in Made <=> Absorbed

\* Which effects those are, one by one.
LEMMA MadeFacts == MadeTells /\ MadeTells'
<1>1. MadeTells
  BY DEF MadeTells, Made
<1>2. MadeTells'
  BY DEF MadeTells, Made
<1> QED BY <1>1, <1>2

\* The promise counts an approval as spent when an event after the request says so.
LEMMA SpentIsConsumed ==
    (ApprovalInv => (Happened("CONSUMED") <=> Spent))
        /\ (ApprovalInv' => (Happened("CONSUMED")' <=> Spent'))
<1>1. ASSUME NEW list, IsApproval(list)
      PROVE  (\E i \in 1 .. Len(list) : list[i].kind = "CONSUMED")
                 <=> \E j \in 2 .. Len(list) : list[j].kind = "CONSUMED"
  <2>1. Len(list) \in Nat
    BY <1>1 DEF IsApproval
  <2>2. \A q \in ApprovalRequests : q.kind = "REQUESTED"
    BY DEF ApprovalRequests, Requested
  <2>3. 1 \in 1 .. Len(list) => list[1].kind # "CONSUMED"
    <3>1. list = <<>> => Len(list) = 0
      OBVIOUS
    <3> QED BY <1>1, <2>1, <2>2, <3>1 DEF IsApproval
  <2> QED BY <2>1, <2>3
<1>2. ApprovalInv => (Happened("CONSUMED") <=> Spent)
  BY <1>1 DEF ApprovalInv, Happened, Spent
<1>3. ApprovalInv' => (Happened("CONSUMED")' <=> Spent')
  BY <1>1 DEF ApprovalInv, Happened, Spent
<1> QED BY <1>2, <1>3

\* Only the gate spends an approval, and what is spent stays spent.
LEMMA SpendingStep ==
    ASSUME BaseInv, [Next]_taskVars
    PROVE  /\ Happened("CONSUMED") => Happened("CONSUMED")'
           /\ Happened("CONSUMED")' /\ ~ Happened("CONSUMED") => GateSpends
<1>1. ApprovalInv /\ ApprovalInv' /\ GateInv /\ LocalInv /\ WorldInv
  BY BaseStepKeeps DEF BaseInv
<1>2. IsApproval(approvals)' /\ Grows
  BY <1>1, ApprovalGrows
<1>3. Spent => Spent'
  BY <1>1, <1>2, GrowthKeeps DEF ApprovalInv
<1>4. Spent' /\ ~ Spent => GateSpends
  <2> SUFFICES ASSUME Spent', ~ Spent PROVE GateSpends
    OBVIOUS
  <2>1. PICK j \in 2 .. Len(approvals)' : approvals'[j].kind = "CONSUMED"
    BY DEF Spent
  <2>2. CASE j > Len(approvals)
    BY <1>1, <2>1, <2>2, ApprovalGrows
  <2>3. CASE j <= Len(approvals)
    <3>1. j \in 2 .. Len(approvals) /\ j \in 1 .. Len(approvals)
      BY <1>2, <2>3 DEF Grows
    <3> QED BY <1>2, <2>1, <3>1 DEF Grows, Spent
  <2> QED BY <1>2, <2>2, <2>3 DEF Grows
<1> QED BY <1>1, <1>3, <1>4, SpentIsConsumed

\* A status that moves takes an allowed edge.
LEMMA EdgeStep ==
    ASSUME HistoryInv, [Next]_taskVars, State' # State
    PROVE  validate_transition(State, State') /\ State' \in WorkflowState
<1>1. Rests => State' = State
  BY DEF Rests, State
<1>2. CASE Records
  <2>1. PICK to \in WorkflowState, actor \in Actors : TransitionTo(to, actor)
    BY <1>2 DEF Records
  <2>2. machine = State
    BY <1>2 DEF Records, HistoryInv, HistoryIsSound
  <2>3. /\ validate_transition(State, to) /\ validate_actor_for_transition(State, to, actor)
        /\ RecordTransition(State, to, actor)
    BY <2>1, <2>2 DEF TransitionTo
  <2>4. State' = to
    BY <2>3, RecordFacts DEF HistoryInv, HistoryIsSound
  <2> QED BY <2>3, <2>4
<1>3. CASE ResumeDrifts
  <2>1. State' = "FAILED" /\ validate_transition(State, "FAILED")
    BY <1>3, DriftFacts DEF ResumeDrifts, Resumable, PersistDrift
  <2> QED BY <2>1, StateNames
<1> QED BY <1>1, <1>2, <1>3, HistoryStep

Earnings == Promise!Earned(State)

\* A status that moves has earned its effects.
LEMMA EarnedStep ==
    ASSUME PromiseInv, [Next]_taskVars, State' # State
    PROVE  Earnings' \subseteq Made'
<1>1. PromiseInv' /\ Moves
  BY PromiseInvStepKeeps, MoveStep DEF PromiseInv, BaseInv, StageInv
<1>2. State' = "DONE" => Absorbed'
  <2>1. State' = "DONE" => Absorbed
    BY <1>1 DEF Moves, PromiseInv, EffectsInv, HandlerInv, Closing
  <2>2. git' = git
    BY MoveStep DEF PromiseInv, BaseInv, StageInv
  <2> QED BY <2>1, <2>2 DEF Absorbed
<1>3. EffectsInv'
  BY <1>1 DEF PromiseInv
<1>4. State' \in CommittedStates => "commit" \in Made'
  BY <1>3, MadeFacts DEF EffectsInv, MadeTells
<1>5. State' \in PushedStates => "push" \in Made'
  BY <1>3, MadeFacts DEF EffectsInv, MadeTells
<1>6. State' \in OpenedStates => "offer" \in Made'
  BY <1>3, MadeFacts DEF EffectsInv, MadeTells
<1>7. State' \in ArmedStates => "arm" \in Made'
  BY <1>3, MadeFacts DEF EffectsInv, MadeTells, IsArmed
<1>8. State' \in MergedStates => "merge" \in Made'
  BY <1>3, MadeFacts DEF EffectsInv, MadeTells
<1>9. State' = "DONE" => "absorb" \in Made'
  BY <1>2, MadeFacts DEF MadeTells
<1> QED
  BY <1>4, <1>5, <1>6, <1>7, <1>8, <1>9 DEF Earnings, Promise!Earned, Promise!Effects, MergedStates,
     ArmedStates, OpenedStates, PushedStates, CommittedStates

Stays == UNCHANGED <<State, Happened("CONSUMED")>>

\* The promise's actions, in the terms of the drivers.
LEMMA PromiseActions ==
    /\ (UNCHANGED Promise!promiseVars) <=> UNCHANGED <<State, Happened("CONSUMED"), Made>>
    /\ Promise!PromiseInit <=> State = "CREATED" /\ Happened("CONSUMED") = FALSE /\ Made = {}
    /\ Promise!Move <=>
           /\ \E s \in Promise!WorkflowState :
                 /\ Promise!validate_transition(State, s)
                 /\ Promise!Earned(s) \subseteq Made
                 /\ State' = s
           /\ UNCHANGED <<Happened("CONSUMED"), Made>>
    /\ Promise!Spend <=>
           /\ State = "READY_TO_COMMIT" /\ ~ Happened("CONSUMED")
           /\ Happened("CONSUMED")' = TRUE
           /\ UNCHANGED <<State, Made>>
    /\ \A e : Promise!Make(e) <=>
           /\ State = Promise!Owner[e]
           /\ e = "commit" => Happened("CONSUMED")
           /\ Made' = Made \cup {e}
           /\ UNCHANGED <<State, Happened("CONSUMED")>>
    /\ Promise!OfferAgain <=>
           /\ State = Promise!Owner["offer"] /\ "offer" \in Made
           /\ Made' = Made \ {"arm", "merge"}
           /\ UNCHANGED <<State, Happened("CONSUMED")>>
    /\ Promise!Merge <=>
           /\ "offer" \in Made
           /\ Made' = Made \cup {"arm", "merge"}
           /\ UNCHANGED <<State, Happened("CONSUMED")>>
<1>1. (UNCHANGED Promise!promiseVars) <=> UNCHANGED <<State, Happened("CONSUMED"), Made>>
  BY Zenon DEF Promise!promiseVars, Made
<1>2. Promise!PromiseInit <=> State = "CREATED" /\ Happened("CONSUMED") = FALSE /\ Made = {}
  BY Zenon DEF Promise!PromiseInit, Made
<1>3. Promise!Move <=>
          /\ \E s \in Promise!WorkflowState :
                /\ Promise!validate_transition(State, s)
                /\ Promise!Earned(s) \subseteq Made
                /\ State' = s
          /\ UNCHANGED <<Happened("CONSUMED"), Made>>
  BY Zenon DEF Promise!Move, Made
<1>4. Promise!Spend <=>
          /\ State = "READY_TO_COMMIT" /\ ~ Happened("CONSUMED")
          /\ Happened("CONSUMED")' = TRUE
          /\ UNCHANGED <<State, Made>>
  BY Zenon DEF Promise!Spend, Made
<1>5. ASSUME NEW e
      PROVE  Promise!Make(e) <=>
                 /\ State = Promise!Owner[e]
                 /\ e = "commit" => Happened("CONSUMED")
                 /\ Made' = Made \cup {e}
                 /\ UNCHANGED <<State, Happened("CONSUMED")>>
  BY Zenon DEF Promise!Make, Made
<1>6. Promise!OfferAgain <=>
          /\ State = Promise!Owner["offer"] /\ "offer" \in Made
          /\ Made' = Made \ {"arm", "merge"}
          /\ UNCHANGED <<State, Happened("CONSUMED")>>
  BY Zenon DEF Promise!OfferAgain, Made
<1>7. Promise!Merge <=>
          /\ "offer" \in Made
          /\ Made' = Made \cup {"arm", "merge"}
          /\ UNCHANGED <<State, Happened("CONSUMED")>>
  BY Zenon DEF Promise!Merge, Made
<1> QED BY <1>1, <1>2, <1>3, <1>4, <1>5, <1>6, <1>7

\* An effect in its own status is the promise's.
LEMMA MakingStep ==
    ASSUME NEW e \in {"commit", "push", "offer", "arm", "absorb"}, Stays,
           /\ e = "commit" => State = "READY_TO_COMMIT" /\ Happened("CONSUMED")
           /\ e = "push" => State = "COMMITTED"
           /\ e = "offer" => State = "PUSHED"
           /\ e = "arm" => State = "PR_OPEN"
           /\ e = "absorb" => State = "CLOSING",
           \A x : x \in Made' <=> x \in Made \/ x = e
    PROVE  Promise!PromiseNext
<1>1. Made' = Made \cup {e}
  OBVIOUS
<1>2. e \in Promise!Effects \ {"merge"}
  BY DEF Promise!Effects
<1>3. State = Promise!Owner[e]
  BY <1>2 DEF Promise!Owner
<1>4. Promise!Make(e)
  BY <1>1, <1>3, PromiseActions DEF Stays
<1> QED BY <1>2, <1>4 DEF Promise!PromiseNext

\* Nothing the promise speaks of has changed.
LEMMA NothingMade ==
    ASSUME Stays, \A x : x \in Made' <=> x \in Made
    PROVE  UNCHANGED Promise!promiseVars
<1>1. Made' = Made
  OBVIOUS
<1> QED BY <1>1, PromiseActions DEF Stays

\* A step of the drivers or of the world is a step of the promise, or none.
LEMMA PromiseStep ==
    PromiseInv /\ [Next]_taskVars => [Promise!PromiseNext]_(Promise!promiseVars)
<1> SUFFICES ASSUME PromiseInv, [Next]_taskVars
             PROVE  [Promise!PromiseNext]_(Promise!promiseVars)
  OBVIOUS
<1>b. BaseInv /\ HistoryInv /\ WorldInv /\ ForwardInv /\ ApprovalInv /\ GateInv /\ EffectsInv
      /\ HandlerInv
  BY DEF PromiseInv, BaseInv, StageInv
<1>m. mode # "none" => machine = State
  BY <1>b, MachineIsStatus
<1>f. MadeTells /\ MadeTells'
  BY MadeFacts
<1>q. approvals' = approvals => UNCHANGED Happened("CONSUMED")
  BY DEF Happened
<1>u. Quiet => Stays
  BY <1>q DEF Quiet, Stays, State
<1>1. CASE State' # State
  <2>1. UNCHANGED <<git, remote>>
    BY <1>1, <1>b, MoveStep
  <2>2. \A x : x \in Made' <=> x \in Made
    BY <2>1, <1>f DEF MadeTells, Absorbed
  <2>3. Made' = Made
    BY <2>2
  <2>4. ~ GateSpends
    BY <1>1 DEF GateSpends, Continue, records, State
  <2>5. UNCHANGED Happened("CONSUMED")
    BY <1>b, <2>4, SpendingStep DEF Happened
  <2>6. validate_transition(State, State') /\ State' \in WorkflowState
    BY <1>1, <1>b, EdgeStep
  <2>7. Promise!validate_transition(State, State')
    BY <2>6 DEF validate_transition, ALLOWED_TRANSITIONS, Progress, WorkflowState, CANCELLABLE,
       TERMINAL_STATES, Promise!validate_transition, Promise!ALLOWED_TRANSITIONS,
       Promise!Progress, Promise!WorkflowState, Promise!CANCELLABLE, Promise!TERMINAL_STATES
  <2>8. State' \in Promise!WorkflowState
    BY <2>6 DEF WorkflowState, TERMINAL_STATES, Progress, Promise!WorkflowState,
       Promise!TERMINAL_STATES, Promise!Progress
  <2>9. Promise!Earned(State') \subseteq Made
    BY <1>1, <2>3, EarnedStep DEF Earnings
  <2>10. Promise!Move
    BY <2>3, <2>5, <2>7, <2>8, <2>9, PromiseActions
  <2> QED BY <2>10 DEF Promise!PromiseNext
<1>2. CASE State' = State
  <2>1. CASE SameGit /\ SameRemote
    <3>1. \A x : x \in Made' <=> x \in Made
      BY <2>1, <1>f DEF MadeTells, Absorbed, SameGit, SameRemote
    <3>2. CASE UNCHANGED Happened("CONSUMED")
      BY <1>2, <3>1, <3>2, NothingMade DEF Stays
    <3>3. CASE ~ UNCHANGED Happened("CONSUMED")
      <4>1. Happened("CONSUMED")' /\ ~ Happened("CONSUMED") /\ GateSpends
        BY <1>b, <3>3, SpendingStep DEF Happened
      <4>2. State = "READY_TO_COMMIT"
        BY <1>m, <4>1 DEF GateSpends, At
      <4>3. Made' = Made
        BY <3>1
      <4>4. Promise!Spend
        BY <1>2, <4>1, <4>2, <4>3, PromiseActions, Zenon
      <4> QED BY <4>4 DEF Promise!PromiseNext
    <3> QED BY <3>2, <3>3
  <2>2. CASE Commits
    <3>1. State = "READY_TO_COMMIT" /\ Happened("CONSUMED")
      BY <1>b, <1>m, <2>2, SpentIsConsumed DEF Commits, At, GateInv
    <3>2. git'.commits # <<>>
      <4>1. git.commits \in Seq(Trees) /\ tree \in Trees
        BY <1>b DEF WorldInv, Git
      <4> QED BY <2>2, <4>1, AppendProperties DEF Commits
    <3>3. \A x : x \in Made' <=> x \in Made \/ x = "commit"
      BY <2>2, <3>2, <1>f DEF MadeTells, Absorbed, Commits, SameRemote
    <3> QED BY <1>u, <2>2, <3>1, <3>3, MakingStep DEF Commits
  <2>3. CASE Pushes
    <3>1. State = "COMMITTED"
      BY <1>m, <2>3 DEF Pushes, At
    <3>2. git.commits # <<>>
      BY <1>b, <3>1 DEF EffectsInv, CommittedStates
    <3>3. \A x : x \in Made' <=> x \in Made \/ x = "push"
      BY <2>3, <3>2, <1>f DEF MadeTells, Absorbed, Pushes, SameGit
    <3> QED BY <1>u, <2>3, <3>1, <3>3, MakingStep DEF Pushes
  <2>4. CASE Offers
    <3>1. State = "PUSHED"
      BY <1>m, <2>4 DEF Offers, At
    <3>2. CASE remote.pr = "none"
      <4>1. ~ remote.auto
        BY <1>b, <3>2 DEF EffectsInv
      <4>2. \A x : x \in Made' <=> x \in Made \/ x = "offer"
        BY <2>4, <3>2, <4>1, <1>f DEF MadeTells, Absorbed, Offers, SameGit
      <4> QED BY <1>u, <2>4, <3>1, <4>2, MakingStep DEF Offers
    <3>3. CASE remote.pr # "none"
      <4>1. \A x : x \in Made' <=> x \in Made /\ x \notin {"arm", "merge"}
        BY <2>4, <3>3, <1>f DEF MadeTells, Absorbed, Offers, SameGit
      <4>2. Made' = Made \ {"arm", "merge"}
        BY <4>1
      <4>3. "offer" \in Made
        BY <3>3, <1>f DEF MadeTells
      <4>4. State = Promise!Owner["offer"]
        BY <3>1 DEF Promise!Owner, Promise!Effects
      <4>5. Promise!OfferAgain
        BY <1>u, <2>4, <4>2, <4>3, <4>4, PromiseActions DEF Stays, Offers
      <4> QED BY <4>5 DEF Promise!PromiseNext
    <3> QED BY <3>2, <3>3
  <2>5. CASE Arms
    <3>1. State = "PR_OPEN"
      BY <1>m, <2>5 DEF Arms, Closing
    <3>2. \A x : x \in Made' <=> x \in Made \/ x = "arm"
      BY <2>5, <1>f DEF MadeTells, Absorbed, Arms, SameGit
    <3> QED BY <1>u, <2>5, <3>1, <3>2, MakingStep DEF Arms
  <2>6. CASE Settles
    <3>1. CASE remote'.pr = "merged"
      <4>1. \A x : x \in Made' <=> x \in Made \/ x \in {"arm", "merge"}
        BY <2>6, <3>1, <1>f DEF MadeTells, Absorbed, Settles, SameGit
      <4>2. Made' = Made \cup {"arm", "merge"}
        BY <4>1
      <4>3. "offer" \in Made
        BY <2>6, <1>f DEF MadeTells, Settles
      <4>4. Promise!Merge
        BY <1>u, <2>6, <4>2, <4>3, PromiseActions DEF Stays, Settles
      <4> QED BY <4>4 DEF Promise!PromiseNext
    <3>2. CASE remote'.pr = "closed"
      <4>1. \A x : x \in Made' <=> x \in Made
        BY <2>6, <3>2, <1>f DEF MadeTells, Absorbed, Settles, SameGit
      <4> QED BY <1>u, <2>6, <4>1, NothingMade DEF Settles
    <3> QED BY <2>6, <3>1, <3>2 DEF Settles
  <2>7. CASE Absorbs
    <3>1. State = "CLOSING"
      BY <1>m, <2>7 DEF Absorbs, Closing
    <3>2. "commit" \in Made /\ "push" \in Made
      BY <1>b, <1>f, <3>1 DEF EffectsInv, MadeTells, MergedStates, ArmedStates, OpenedStates,
         PushedStates, CommittedStates
    <3>3. \A x : x \in Made' <=> x \in Made \/ x = "absorb"
      BY <2>7, <3>2, <1>f DEF MadeTells, Absorbed, Absorbs, SameRemote
    <3> QED BY <1>u, <2>7, <3>1, <3>3, MakingStep DEF Absorbs
  <2>8. CASE Deletes
    <3>1. Absorbed
      BY <1>b, <2>8 DEF Deletes, HandlerInv, Closing
    <3>2. \A x : x \in Made' <=> x \in Made
      BY <2>8, <3>1, <1>f DEF MadeTells, Absorbed, Deletes
    <3> QED BY <1>u, <2>8, <3>2, NothingMade DEF Deletes
  <2> QED BY <1>b, <2>1, <2>2, <2>3, <2>4, <2>5, <2>6, <2>7, <2>8, EffectStep
<1> QED BY <1>1, <1>2

\* The initial state is the promise's.
LEMMA PromiseInitially == Init => Promise!PromiseInit
<1> SUFFICES ASSUME Init PROVE Promise!PromiseInit
  OBVIOUS
<1>1. /\ transitions = <<>> /\ approvals = <<>> /\ git.baseline = "bound" /\ git.commits = <<>>
      /\ remote.commits = <<>> /\ remote.pr = "none" /\ remote.auto = FALSE
  BY DEF Init, SessionInit, ApprovalInit
<1>2. State = "CREATED"
  BY <1>1 DEF State, StateAfter
<1>3. ~ Happened("CONSUMED")
  <2>1. Len(approvals) = 0
    BY <1>1
  <2> QED BY <2>1 DEF Happened
<1>4. \A x : x \notin Made
  BY <1>1, MadeFacts DEF MadeTells, Absorbed
<1>5. Made = {}
  BY <1>4
<1> QED BY <1>2, <1>3, <1>5, PromiseActions

\* The drivers keep the promise of TaskPromise across their crashes, resumes and whatever others do
\* meanwhile: every effect in its own status and in order, none before an approval was spent.
THEOREM DriversKeepPromise == Spec => KeepsPromise
<1>1. Init => PromiseInv
  BY BaseInit, StageInit, PromiseInvInit DEF PromiseInv
<1>2. Spec => []PromiseInv
  BY <1>1, PromiseInvStepKeeps, PTL DEF Spec
<1>3. PromiseInv /\ [Next]_taskVars => [Promise!PromiseNext]_(Promise!promiseVars)
  BY PromiseStep
<1> QED
  BY <1>2, <1>3, PromiseInitially, PTL DEF Spec, KeepsPromise, Promise!PromiseSpec
=============================================================================
